----------------------------- MODULE MemoWriter -----------------------------
(***************************************************************************)
(* How a memo is written by a model that may answer with anything           *)
(* (_llm_report and _regenerate_for_quality of graph/nodes/report.py,       *)
(* report/race_write.py, report/adaptive_depth.py): two halves or one pass, *)
(* a retry, a repair, up to two expansions, a rewrite for quality, and the  *)
(* memo composed without a model when none of it will do.                   *)
(*                                                                          *)
(* A text is its number of words, what it holds of the section contract     *)
(* ("body": At a glance to Detailed analysis, "parts": two headings within  *)
(* the analysis, "rule": Decision rule), whether it ends properly, and      *)
(* whether it is free of telemetry lines.                                   *)
(***************************************************************************)
EXTENDS Integers

CONSTANTS
  Depths,            \* depth of the brief
  EvidenceCounts,    \* items of the dossier
  Scores,            \* depth score of the critic
  Drafts,            \* what the model may answer when asked for a memo
  Parts,             \* and for a part of one, a continuation among them
  PolishLoss,        \* BOUND on words one polishing takes away
  TelemetryWords,    \* BOUND on words of the telemetry lines of a text
  MaxAgain,       \* MAX_QUALITY_REGENERATIONS
  MaxPauses          \* BOUND on pauses for credits

Whole == {"body", "parts", "rule"}
Texts == [words : Nat, has : SUBSET Whole, ends : BOOLEAN, clean : BOOLEAN]

Briefs == [depth : Depths, items : EvidenceCounts, score : Scores, key : BOOLEAN,
           ended : BOOLEAN]

ASSUME WriterAssumption ==
  /\ Drafts \subseteq Texts /\ Parts \subseteq Texts
  /\ EvidenceCounts \subseteq Nat /\ Scores \subseteq Nat
  /\ {PolishLoss, TelemetryWords, MaxAgain, MaxPauses} \subseteq Nat

NoText == [words |-> 0, has |-> {}, ends |-> FALSE, clean |-> TRUE]
Composed == [words |-> 600, has |-> Whole, ends |-> TRUE, clean |-> TRUE]
NoOutcome == [text |-> NoText, status |-> "none", rewritten |-> FALSE]

VARIABLES
  step,       \* the call that is due
  brief,      \* [depth, items, score, key, ended]: what does not change while it is
              \* written; ended: the critic found no budget for another round
  text,       \* the draft
  passes,     \* expansions made
  outcome,    \* the memo: body_markdown, its synthesis_status, quality_rewrite
  again,      \* quality regenerations
  pauses

writerVars == <<step, brief, text, passes, outcome, again, pauses>>

------------------------------------------------------------------------------
(* Lengths (conf/thresholds.py, adaptive_depth.py).                        *)

Larger(a, b) == IF a > b THEN a ELSE b
Smaller(a, b) == IF a < b THEN a ELSE b

\* The coverage the writer is given holds no depth score, so that the tier is
\* "poor" and the multiplier 0.6 whatever the critic found.
Target == Larger(800, Smaller((brief.items * 80 * 6) \div 10, 7000))

(* should_use_graceful_degradation, of a poor tier *)
TwoHalves == brief.depth = "deep" /\ Target > 1500 /\ brief.items >= 10

TooThin(t) == t.words < Larger(200, (28 * Target) \div 100)
TooShort(t) == t.words < (92 * Target) \div 100
Gain == Larger(400, (12 * Target) \div 100)

(* memo_looks_truncated *)
Truncated(t) == t.words < 400 \/ t.has # Whole \/ ~t.ends

(* _llm_memo_worth_keeping, but for its wording *)
WorthKeeping(t) == t.words >= 400 /\ "body" \in t.has

Joined(a, b) == [words |-> a.words + b.words, has |-> a.has \cup b.has,
                 ends |-> b.ends, clean |-> a.clean /\ b.clean]

\* polish_citations takes rows, fenced blocks and repeated lists away.
Polished(t) == {t, [t EXCEPT !.words = Larger(0, @ - PolishLoss)]}
WithoutTelemetry(t) ==
  [t EXCEPT !.clean = TRUE, !.words = Larger(0, @ - TelemetryWords)]

(* final_status: the report of a run that ended on its budget says so *)
Publish(t, status, rewritten) ==
  /\ outcome' = [text |-> t, rewritten |-> rewritten,
                 status |-> IF brief.ended /\ status # "quality_regenerated"
                            THEN "terminal_fallback" ELSE status]
  /\ step' = "written" /\ text' = NoText /\ passes' = 0

------------------------------------------------------------------------------

WithoutModel ==
  /\ step = "write" /\ ~brief.key
  /\ Publish(Composed, "terminal_fallback", FALSE)
  /\ UNCHANGED <<brief, again, pauses>>

(* generate_sectionwise_memo *)
WriteInOnePass ==
  /\ \/ step = "write" /\ brief.key /\ ~TwoHalves
     \/ step = "fallback"
  /\ text' \in Drafts
  /\ step' = IF outcome.status = "revising" THEN "regenerated" ELSE "retry"
  /\ UNCHANGED <<brief, passes, outcome, again, pauses>>

WriteFront ==
  /\ step = "write" /\ brief.key /\ TwoHalves
  /\ text' \in Parts
  /\ step' = IF text'.words = 0 THEN "fallback" ELSE "back"
  /\ UNCHANGED <<brief, passes, outcome, again, pauses>>

WriteBack ==
  /\ step = "back"
  /\ \E back \in Parts :
       IF back.words = 0
       THEN step' = "fallback" /\ UNCHANGED text
       ELSE /\ text' = Joined(text, back)
            /\ step' = IF outcome.status = "revising" THEN "regenerated" ELSE "retry"
  /\ UNCHANGED <<brief, passes, outcome, again, pauses>>

\* A second answer takes the place of a draft that is too thin, whatever it is.
RetryIfThin ==
  /\ step = "retry" /\ step' = "repair"
  /\ IF TooThin(text) THEN text' \in Drafts ELSE UNCHANGED text
  /\ UNCHANGED <<brief, passes, outcome, again, pauses>>

(* repair_truncation, then polish_citations *)
RepairIfTruncated ==
  /\ step = "repair" /\ step' = "expand"
  /\ \E more \in IF Truncated(text) THEN Parts ELSE {NoText} :
       text' \in Polished(IF more.words = 0 THEN text ELSE Joined(text, more))
  /\ UNCHANGED <<brief, passes, outcome, again, pauses>>

(* ensure_memo_depth *)
Expand ==
  /\ step = "expand" /\ TooShort(text) /\ passes < 2
  /\ \E longer \in Drafts :
       IF longer.words > 0 /\ longer.words >= text.words + Gain
       THEN /\ passes' = passes + 1
            /\ IF passes' = 2 \/ ~TooShort(longer)
               THEN text' \in Polished(longer) /\ step' = "judge"
               ELSE text' = longer /\ step' = "expand"
       ELSE text' \in Polished(text) /\ step' = "judge" /\ UNCHANGED passes
  /\ UNCHANGED <<brief, outcome, again, pauses>>

LongEnough ==
  /\ step = "expand" /\ ~TooShort(text) /\ step' = "judge"
  /\ UNCHANGED <<brief, text, passes, outcome, again, pauses>>

(* _prefer_llm_or_compose: a draft that reads like the composed memo is given
   up for it, however much of it there is. *)
KeptOrComposed(t, reason) ==
  \/ WorthKeeping(t) /\ Publish(t, reason, FALSE)
  \/ Publish(Composed, reason, FALSE)

\* Mutant: what an expansion made of the draft is not looked at.
JudgeBeforeExpansion ==
  /\ step = "judge"
  /\ IF passes = 0 /\ Truncated(text)
     THEN KeptOrComposed(text, "truncated_unrepaired")
     ELSE IF ~text.clean
          THEN KeptOrComposed(WithoutTelemetry(text), "gemini_failed_fallback")
          ELSE step' = "audit" /\ UNCHANGED <<text, passes, outcome>>
  /\ UNCHANGED <<brief, again, pauses>>

JudgeDraft ==
  /\ step = "judge"
  /\ IF Truncated(text)
     THEN KeptOrComposed(text, "truncated_unrepaired")
     ELSE IF ~text.clean
          THEN KeptOrComposed(WithoutTelemetry(text), "gemini_failed_fallback")
          ELSE step' = "audit" /\ UNCHANGED <<text, passes, outcome>>
  /\ UNCHANGED <<brief, again, pauses>>

AnyRewrite(old, new) == new.words > 0   \* mutant
RewriteAccepted(old, new) == new.words > 0 /\ new.words >= Larger(300, old.words \div 2)

(* audit_memo and rewrite_for_quality: the audit may find something to say of
   any draft. *)
NothingToRewrite ==
  /\ step = "audit" /\ brief.score >= 65
  /\ Publish(text, "gemini_success", FALSE)
  /\ UNCHANGED <<brief, again, pauses>>

RewriteForQuality ==
  /\ step = "audit"
  /\ \E new \in Drafts :
       LET taken == RewriteAccepted(text, new)
       IN  \E t \in Polished(IF taken THEN new ELSE text) :
             Publish(t, "gemini_success", taken)
  /\ UNCHANGED <<brief, again, pauses>>

------------------------------------------------------------------------------
(* The memo gate asks for another draft: one write, polished, and the report. *)

AskAgain ==
  /\ step = "written" /\ again < MaxAgain
  /\ again' = again + 1 /\ step' = IF brief.key THEN "write" ELSE "regenerated"
  /\ outcome' = [outcome EXCEPT !.status = "revising"]
  /\ UNCHANGED <<brief, text, passes, pauses>>

RegeneratedReport ==
  /\ step = "regenerated"
  /\ \E t \in Polished(text) : Publish(t, "quality_regenerated", FALSE)
  /\ UNCHANGED <<brief, again, pauses>>

\* A call without credits ends the node, and the drafts of this pass with it.
StartOver ==
  /\ step \in {"write", "back", "fallback", "retry", "repair", "expand", "audit"}
  /\ brief.key /\ pauses < MaxPauses
  /\ pauses' = pauses + 1
  /\ step' = "write" /\ text' = NoText /\ passes' = 0
  /\ UNCHANGED <<brief, outcome, again>>

WriterInit ==
  /\ step = "write"
  /\ brief \in Briefs
  /\ text = NoText /\ passes = 0 /\ outcome = NoOutcome /\ again = 0 /\ pauses = 0

WriterNext ==
  \/ WithoutModel \/ WriteInOnePass \/ WriteFront \/ WriteBack \/ RetryIfThin
  \/ RepairIfTruncated \/ Expand \/ LongEnough \/ JudgeDraft \/ NothingToRewrite
  \/ RewriteForQuality \/ AskAgain \/ RegeneratedReport \/ StartOver

WriterSpec == WriterInit /\ [][WriterNext]_writerVars

------------------------------------------------------------------------------
(* Properties.                                                             *)

(* A draft reported as a success that no rewrite replaced holds every section
   of the contract, ends properly and shows no telemetry, whichever of the
   retry, the repair and the expansions made it: each of them may trade a
   whole text for a longer broken one. *)
SuccessIsWhole ==
  outcome.status = "gemini_success" /\ ~outcome.rewritten =>
    ~Truncated([outcome.text EXCEPT !.words = @ + PolishLoss]) /\ outcome.text.clean

(* No model answer guts the memo: outside a quality regeneration what is
   published has the 300 words of the shortest memo taken for one, but for
   what a polishing or the telemetry takes away. *)
NeverGutted ==
  step = "written" /\ outcome.status # "quality_regenerated" =>
    outcome.text.words + PolishLoss + TelemetryWords >= 300

WriterTypeOK ==
  /\ step \in {"write", "back", "fallback", "retry", "repair", "expand", "judge", "audit",
               "written", "regenerated"}
  /\ brief \in Briefs
  /\ text \in Texts /\ passes \in 0..2
  /\ outcome \in [text : Texts, rewritten : BOOLEAN,
                   status : {"none", "terminal_fallback", "truncated_unrepaired", "revising",
                             "gemini_failed_fallback", "gemini_success", "quality_regenerated"}]
  /\ again \in 0..MaxAgain /\ pauses \in 0..MaxPauses

\* What the judge lets through to the audit is whole: with the two properties it
\* is inductive.
WriterInv ==
  /\ WriterTypeOK /\ SuccessIsWhole /\ NeverGutted
  /\ step = "audit" => ~Truncated(text) /\ text.clean
=============================================================================
