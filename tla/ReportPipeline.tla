--------------------------- MODULE ReportPipeline ---------------------------
(* The passes a memo goes through between the writer and the memo gate        *)
(* (graph/nodes/report.py, domain/report_integrity.py, citations.py,          *)
(* constraint_audit.py, number_provenance.py).                                *)
(*                                                                            *)
(* The report keeps the decision rule twice: as the section "Decision rule"   *)
(* of the body and as a field of its own.  Every pass repairs one copy, the   *)
(* other, or both, and later passes copy one over the other, so what a pass   *)
(* removed is published only if no later copy brings it back.                 *)
(*                                                                            *)
(* A memo is a set of lines.  A line has a section; the citation groups it    *)
(* carries ("[1][3]" is {{1}, {3}}, "[1, 3]" is {{1, 3}}); the numbers of the *)
(* sources that speak of the product it names (AnySource if it names none);   *)
(* a figure that the source it cites holds or not; a credit to an author that *)
(* a span of the source supports or not; and whether it keeps to the asked    *)
(* scope.                                                                     *)
EXTENDS Naturals, FiniteSets

CONSTANTS
  Lines,        \* the lines a writer may produce
  Ledger,       \* the numbers of the citations build_ledger made
  OffTopicNumbers,     \* the ledger numbers check_citation_relevance rejects
  Template,     \* the line decision_rule_for writes
  MaxLines,     \* bound: lines of a draft
  MaxRewrites   \* memo_gate's bound on quality regenerations

AllLines == [sec : {"findings", "rule", "worked"}, marks : SUBSET SUBSET Nat, about : SUBSET Nat,
             figure : {"none", "held", "elsewhere"}, credit : {"none", "span", "stretched"},
             inScope : BOOLEAN, labelled : BOOLEAN]

ASSUME LedgerAssumption ==
  /\ Lines \subseteq AllLines /\ Template \in Lines /\ Template.sec = "rule"
  /\ OffTopicNumbers \subseteq Ledger /\ Ledger \subseteq Nat
  /\ MaxLines \in Nat /\ MaxRewrites \in Nat

Scenes == [noTable: BOOLEAN,      \* no measured figure in the quantitative table
           measurable: BOOLEAN,   \* the question asks for figures
           scoped: BOOLEAN,       \* a memory-footprint question, which has a scope
           drifted: BOOLEAN,      \* the rule names no term of the question
           contradicts: BOOLEAN]  \* the audit finds an internal contradiction

VARIABLES
  phase,     \* "writing", "drafted", "repaired", "audited", "polished", "published"
  via,       \* "draft": the main path; "quality": _regenerate_for_quality
  scene,
  written,   \* the memo as the writer left it (history)
  memo,      \* [body, rule, refs]
  panel,     \* report.citations, the numbers the Sources panel shows
  retries,   \* integrity_retries
  rewrites   \* quality_regeneration_count

reportVars == <<phase, via, scene, written, memo, panel, retries, rewrites>>

Cited(body) == UNION UNION {l.marks : l \in body}

(* cited_only: a body that cites nothing stands on the whole ledger. *)
CitedOnly(body) ==
  IF Cited(body) = {} THEN Ledger ELSE Cited(body) \cap Ledger

Section(body, name) == {l \in body : l.sec = name}

(* _rewrite_decision_rule_section, and the re-stitch of report.py: an absent
   section or an empty rule changes nothing. *)
WithRule(body, rule) ==
  IF rule = {} \/ Section(body, "rule") = {}
  THEN body ELSE (body \ Section(body, "rule")) \cup rule

MapBody(m, F(_)) == [m EXCEPT !.body = {F(l) : l \in m.body}]

----------------------------------------------------------------------------
(* The passes of enforce_report_integrity, each a function on memos.          *)

(* bind_markdown_to_ledger: References lists what the prose cites. *)
Bound(m) == [m EXCEPT !.refs = CitedOnly(m.body)]

(* _sanitize_decision_rule: an empty or drifted rule gives way to the template. *)
RuleChosen(m, s) ==
  IF m.rule = {} \/ s.drifted THEN [m EXCEPT !.rule = {Template}] ELSE m

(* _strip_cite_markers_outside_protected knows "[n]" and "[n tier]" only. *)
Unmarked(l, numbers) == [l EXCEPT !.marks = @ \ {{n} : n \in numbers}]

DanglingStripped(m) ==
  LET dangling == Cited(m.body) \ Ledger
      Strip(l) == Unmarked(l, dangling)
  IN  MapBody(m, Strip)

(* Without a measured table the rule loses its uncited figures and replaces
   the section, and a worked example with uncited figures is marked as
   illustrative; with one, a worked example whose figures are mostly not in
   the sources it cites is marked, and loses its citations. *)
Illustrative(body) ==
  {IF l.sec = "worked" THEN [l EXCEPT !.marks = {}, !.labelled = TRUE] ELSE l :
     l \in body}

MostlyUnheld(lines) ==
  LET claims == {l \in lines : l.figure # "none" /\ l.marks # {}}
  IN  2 * Cardinality({l \in claims : l.figure = "held"}) < Cardinality(claims)

TableChecked(m, s) ==
  LET worked == Section(m.body, "worked")
      rule == {l \in m.rule : l.figure = "none" \/ l.marks # {}}
      body == IF \E l \in worked : l.figure # "none" /\ l.marks = {}
              THEN Illustrative(m.body) ELSE m.body
  IN  CASE s.noTable -> [m EXCEPT !.rule = rule, !.body = WithRule(body, rule)]
        [] ~s.noTable /\ MostlyUnheld(worked) -> [m EXCEPT !.body = Illustrative(@)]
        [] OTHER -> m

(* _drop_empty_sections: a short section with no citation and no caveat. *)
EmptyDropped(m) ==
  [m EXCEPT !.body =
     {l \in @ : \E k \in Section(@, l.sec) :
        k.marks # {} \/ (k.sec = "worked" /\ k.labelled)}]

(* _strip_ungrounded_decision_numbers, then the section is rewritten. *)
MisattributedDropped(m) ==
  LET rule == {l \in m.rule : ~(l.figure = "elsewhere" /\ l.marks # {})}
  IN  IF rule = m.rule THEN m
      ELSE [m EXCEPT !.rule = rule, !.body = WithRule(@, rule)]

(* _strip_ungrounded_entity_citations: a group none of whose sources speaks of
   the product the line names. *)
EntityStripped(m) ==
  LET Strip(l) ==
        [l EXCEPT !.marks = {g \in @ : g \cap Ledger = {} \/ g \cap l.about # {}}]
  IN  MapBody(m, Strip)

(* demote_off_scope_memo_content: cited lines out of the asked scope. *)
OffScope(l) == l.sec # "worked" /\ ~l.inScope /\ Cited({l}) \cap Ledger # {}
DemotedWholeSection(m, s) ==       \* mutant: drops the section of such a line
  IF s.scoped
  THEN [m EXCEPT !.body = {l \in @ : ~ \E k \in Section(@, l.sec) : OffScope(k)}]
  ELSE m
Demoted(m, s) ==
  IF s.scoped THEN [m EXCEPT !.body = {l \in @ : ~OffScope(l)}] ELSE m

OffTopicStripped(m) ==
  LET Strip(l) == Unmarked(l, OffTopicNumbers) IN MapBody(m, Strip)

(* harden_unverified_numeric_claims: the question asks for figures, none was
   measured, so every hard number of the load-bearing sections is labelled. *)
Hardened(m, s) ==
  LET Label(l) == IF l.sec # "worked" /\ l.figure # "none"
                  THEN [l EXCEPT !.labelled = TRUE] ELSE l
  IN  IF s.noTable /\ s.measurable THEN MapBody(m, Label) ELSE m

(* The section of the repaired body becomes the rule. *)
RuleLeftStale(m) == m              \* mutant: the body alone is repaired
RuleSynced(m) ==
  IF Section(m.body, "rule") = {} THEN m
  ELSE [m EXCEPT !.rule = Section(m.body, "rule")]

(* What a line says and cites is put right first, ... *)
Corrected(m, s) ==
  LET stripped == DanglingStripped(m)
      checked  == TableChecked(stripped, s)
      filled   == EmptyDropped(checked)
      verified == MisattributedDropped(filled)
      named    == EntityStripped(verified)
  IN  Demoted(named, s)

(* ... then what the reader finds beside it: References, labels, the rule. *)
Integrity(m, s) ==
  LET onTopic  == OffTopicStripped(Corrected(m, s))
      listed   == Bound(onTopic)
      hardened == Hardened(listed, s)
  IN  RuleSynced(hardened)

(* classify_number_attribution: an author is credited with a number by a line
   of one or two citations whose sources are known and have the span; a line of
   three or more is a synthesis. *)
Synthesis(l) == Cardinality({c \in l.marks \X UNION l.marks : c[2] \in c[1]}) >= 3
Overcredited(l) ==
  \/ l.credit = "stretched"
  \/ l.credit = "span" /\ (Synthesis(l) \/ Cited({l}) \cap Ledger = {})

(* polish_number_provenance rewrites the attribution, in the body. *)
Recredited(m) ==
  LET Rewrite(l) == IF Overcredited(l) THEN [l EXCEPT !.credit = "none"] ELSE l
  IN  MapBody(m, Rewrite)

(* The main path writes the rule back over the section. *)
NotStitched(m) == m                \* mutant: the two copies part
Stitched(m) == [m EXCEPT !.body = WithRule(@, m.rule)]

----------------------------------------------------------------------------
(* The node.                                                                  *)

NoMemo == [body |-> {}, rule |-> {}, refs |-> {}]

NoScene == [noTable |-> FALSE, measurable |-> FALSE, scoped |-> FALSE,
            drifted |-> FALSE, contradicts |-> FALSE]

ReportInit ==
  /\ phase = "writing" /\ via = "draft"
  /\ scene = NoScene /\ written = NoMemo /\ memo = NoMemo /\ panel = {}
  /\ retries = 0 /\ rewrites = 0

(* The node is entered again: the writer starts from the sources, not from the
   memo it wrote before. *)
WriteAgain ==
  /\ phase' = "writing"
  /\ scene' = NoScene /\ written' = NoMemo /\ memo' = NoMemo /\ panel' = {}

Bodies == {b \in SUBSET Lines : Cardinality(b) <= MaxLines}
Rules(body) == {Section(body, "rule"), {}} \cup {{l} : l \in Section(Lines, "rule")}

(* _llm_report, or compose_report when the model's text is not worth keeping.
   The rule is the section parsed from the text, the sidecar's, or, when the
   text was kept in spite of a failed check, the composed report's. *)
Draft ==
  /\ phase = "writing"
  /\ scene' \in Scenes
  /\ \E body \in Bodies : \E rule \in Rules(body) :
       memo' = [body |-> body, rule |-> rule, refs |-> Ledger]
  /\ written' = memo'
  /\ panel' = Ledger
  /\ phase' = "drafted"
  /\ UNCHANGED <<via, retries, rewrites>>

Repair ==
  /\ phase = "drafted"
  /\ LET bound == Bound(memo)
         chosen == IF via = "draft" THEN RuleChosen(bound, scene) ELSE bound
     IN  memo' = Integrity(chosen, scene)
  /\ phase' = "repaired"
  /\ UNCHANGED <<via, scene, written, panel, retries, rewrites>>

(* Both audits are fail-soft: an exception leaves the memo as it was. *)
ConstraintAudit ==
  /\ phase = "repaired"
  /\ memo' \in {memo, Demoted(memo, scene)}
  /\ phase' = "audited"
  /\ UNCHANGED <<via, scene, written, panel, retries, rewrites>>

NumberProvenance ==
  /\ phase = "audited"
  /\ memo' \in {memo, Recredited(memo)}
  /\ phase' = "polished"
  /\ UNCHANGED <<via, scene, written, panel, retries, rewrites>>

(* A critical contradiction sends the run back to the planner once, if the
   budget allows (the choice in Next). *)
Critical == scene.noTable /\ scene.contradicts

Reloop ==
  /\ phase = "polished" /\ via = "draft"
  /\ Critical /\ retries < 1
  /\ retries' = retries + 1
  /\ WriteAgain
  /\ UNCHANGED <<via, rewrites>>

PublishReport ==
  /\ phase = "polished"
  /\ IF via = "draft"
     THEN /\ memo' = Stitched(memo)
          /\ panel' = CitedOnly(memo'.body)
     ELSE UNCHANGED <<memo, panel>>
  /\ phase' = "published"
  /\ UNCHANGED <<via, scene, written, retries, rewrites>>

(* memo_gate finds the memo wanting and asks for a rewrite of the prose. *)
Regenerate ==
  /\ phase = "published" /\ rewrites < MaxRewrites
  /\ rewrites' = rewrites + 1
  /\ via' = "quality" /\ WriteAgain
  /\ UNCHANGED retries

(* The user's revision at the gate writes a draft anew. *)
Revise ==
  /\ phase = "published" /\ via = "quality"
  /\ via' = "draft" /\ WriteAgain
  /\ UNCHANGED <<retries, rewrites>>

ReportNext ==
  \/ Draft \/ Repair \/ ConstraintAudit \/ NumberProvenance
  \/ Reloop \/ PublishReport \/ Regenerate \/ Revise

ReportSpec == ReportInit /\ [][ReportNext]_reportVars

----------------------------------------------------------------------------
(* Properties.                                                                *)

TheRule(m) == {l \in m.body : l.sec = "rule"}
Published == phase = "published"
Labelled(l) == [l EXCEPT !.labelled = TRUE]

(* No pass costs the reader a good line: a finding whose sources are in the
   ledger, on topic and speak of what it names, whose figure and credit hold
   (a synthesis of three citations credits nobody) and which keeps to the scope is in the published memo as it was written, at
   most with a label. *)
Good(l) ==
  /\ l.sec = "findings" /\ l.marks # {}
  /\ \A g \in l.marks : g \subseteq Ledger \ OffTopicNumbers /\ g \cap l.about # {}
  /\ l.figure # "elsewhere" /\ l.inScope
  /\ l.credit = "none" \/ (l.credit = "span" /\ ~Synthesis(l))
GoodLinesKept ==
  Published => \A l \in written.body :
                 Good(l) => \E k \in memo.body : Labelled(k) = Labelled(l)

(* On the main path the two copies of the decision rule that leave the node,
   the field and the section, are the same text. *)
OneDecisionRule ==
  Published /\ via = "draft" /\ TheRule(memo) # {} => TheRule(memo) = memo.rule

(* A question that asks for figures and got none measured is never answered
   with a hard number that is not labelled as unverified, in either copy of
   the rule or in the findings, whatever was copied over what. *)
HardNumbersLabelled ==
  Published /\ scene.noTable /\ scene.measurable =>
    \A l \in memo.body \cup (IF TheRule(memo) = {} THEN {} ELSE memo.rule) :
      l.sec # "worked" /\ l.figure # "none" => l.labelled

(* Every citation marker of a published memo has an entry in the ledger: what
   the limitations say was removed "before publish" is removed. *)
MarkersResolve == Published => UNION UNION {l.marks : l \in memo.body} \subseteq Ledger

----------------------------------------------------------------------------
(* What makes the first three inductive.                                      *)

Memos == [body : SUBSET AllLines, rule : SUBSET Section(AllLines, "rule"), refs : SUBSET Ledger]
ReportTypeOK ==
  /\ phase \in {"writing", "drafted", "repaired", "audited", "polished", "published"}
  /\ via \in {"draft", "quality"} /\ scene \in Scenes
  /\ written \in Memos /\ memo \in Memos /\ panel \subseteq Ledger
  /\ retries \in 0..1 /\ rewrites \in 0..MaxRewrites

\* A memo that integrity has been through: the good lines of the draft are there,
\* hard numbers are labelled in both copies of the rule, and the field of a memo
\* with a rule section is not empty, so that no copying back undoes the labels.
HardLabelled(m, s) ==
  s.noTable /\ s.measurable =>
    \A l \in m.body \cup (IF TheRule(m) = {} THEN {} ELSE m.rule) :
      l.sec # "worked" /\ l.figure # "none" => l.labelled
KeptGood(m) ==
  \A l \in written.body : Good(l) => \E k \in m.body : Good(k) /\ Labelled(k) = Labelled(l)
Sound(m) == KeptGood(m) /\ HardLabelled(m, scene) /\ (TheRule(m) # {} => m.rule # {})

ReportInv ==
  /\ ReportTypeOK /\ OneDecisionRule
  /\ phase = "drafted" => memo = written
  /\ phase \in {"repaired", "audited", "polished", "published"} => Sound(memo)
=============================================================================
