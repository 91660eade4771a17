----------------------------- MODULE ClaimCheck -----------------------------
(***************************************************************************)
(* How the claims of a memo are checked against what was read and stored    *)
(* with it (verify_claims of domain/grounding.py,                           *)
(* domain/claim_quote_verify.py, domain/verify_citations.py, the assess_*   *)
(* operators of domain/metric_grounding.py, persistence/evidence_graph.py), *)
(* in the order graph/nodes/report.py calls them.                           *)
(*                                                                          *)
(* A text is its length and its sentences; a sentence is the set of what it *)
(* says: numbers, words, sizes of models, named mechanisms, and the cues    *)
(* "intervention", "subset", "narrow", "broad", "memory", "off topic".      *)
(***************************************************************************)
EXTENDS Integers, Sequences, FiniteSets

CONSTANTS
  Urls,
  Numbers, Scales, Mechanisms,   \* of what is said
  ClaimLists,     \* claims a writer may make
  WorkingSets,    \* texts the run may hold: [Urls -> texts]
  Answers,        \* per address, what fetching it may return
  Citable,        \* addresses that are cited
  MaxRefetch,     \* MAX_REFETCH
  MaxChecks       \* BOUND on reports of one run

NoUrl == "no url"
Readings == [chars : Nat, says : Seq(SUBSET STRING)]
AnyClaim == [url : STRING, from : STRING, against : STRING, says : SUBSET STRING,
             quote : SUBSET STRING, kind : STRING, delta : Seq(STRING)]

ASSUME ClaimAssumption ==
  /\ Urls \cup {NoUrl} \subseteq STRING /\ NoUrl \notin Urls /\ Citable \subseteq Urls
  /\ ClaimLists \subseteq Seq(AnyClaim)
  /\ WorkingSets \subseteq [Urls -> Readings] /\ Answers \in [Urls -> SUBSET Readings]
  /\ {MaxRefetch, MaxChecks} \subseteq Nat

Opinions == {"inferred", "speculative", "recommendation"}
EmptyText == [chars |-> 0, says |-> <<>>]

VARIABLES
  task,       \* "ground", "quote", "verify", "reported"
  claims,     \* of the report, by their place in it
  texts,      \* by_url
  fetched,    \* claims that had their source fetched
  results,    \* of each claim checked so far: its status, and whether its source was long
  content,    \* by address: the text of the graph's source
  stored,     \* what research_claims and research_sources hold of this run
  checks

claimVars == <<task, claims, texts, fetched, results, content, stored, checks>>

----------------------------------------------------------------------------
(* What a text says of a claim.  A claim has an address, the address of the   *)
(* row it was drawn from, that of one that speaks against it, what it says,   *)
(* a quote (nothing when it has none), a kind, and a pair of numbers when it  *)
(* tells of a rise from one to the other.                                     *)

All(t) == UNION {t.says[i] : i \in DOMAIN t.says}
Pairs(t) == [i \in 1 .. Len(t.says) - 1 |-> t.says[i] \cup t.says[i + 1]]
Spans(t) == t.says \o Pairs(t)    \* single sentences first
Cues == {"intervention", "subset", "narrow", "broad", "memory", "off topic", "to"}
WordsOf(s) == s \ (Numbers \cup Scales \cup Cues)
Share(part, of, percent) == 100 * Cardinality(part) >= percent * Cardinality(of)

(* locate_quote, quote_in_source: a span, or 45 % of its words anywhere. *)
Sought(c) == IF c.quote # {} THEN c.quote ELSE c.says
Located(q, t) == q # {} /\ t.says # <<>> /\ Share(q \cap All(t), q, 45)

(* assess_causal_delta, with the sentences that hold either number as windows *)
CausalDelta(c, t) ==
  LET near == UNION {t.says[i] : i \in {j \in DOMAIN t.says :
                                          {c.delta[1], c.delta[2]} \cap t.says[j] # {}}}
      stated == \E i \in DOMAIN t.says : {c.delta[1], c.delta[2], "to"} \subseteq t.says[i]
  IN CASE c.delta = <<>> -> "none"
       [] c.delta # <<>> /\ t.chars < 40 -> "source_missing"
       [] c.delta # <<>> /\ t.chars >= 40 /\ ~({c.delta[1], c.delta[2]} \subseteq All(t)) ->
            "wrong_number"
       [] OTHER -> IF "intervention" \notin near /\ ("subset" \in near \/ ~stated)
                   THEN "wrong_causal" ELSE "ok"

(* assess_scope_overgeneralization *)
ScopeBleed(c, t) ==
  t.chars >= 40 /\ "broad" \in c.says /\ "narrow" \in All(t) /\ "narrow" \notin c.says

(* assess_subject_scale_scope; asked is what the query says. *)
TargetScales(c, asked) ==
  LET own == c.says \cap Scales
  IN  IF own = {} /\ "memory" \in c.says THEN asked \cap Scales
      ELSE IF own \cap asked # {} THEN own \cap asked ELSE own
ScaleMismatch(c, t, asked) ==
  /\ t.chars >= 40 /\ TargetScales(c, asked) # {} /\ All(t) \cap Scales # {}
  /\ TargetScales(c, asked) \cap All(t) = {}
  /\ c.says \cap Numbers # {} \/ "memory" \in c.says
  /\ \/ c.says \cap Numbers \cap All(t) # {}
     \/ (c.says \cap Scales) \ All(t) # {}

(* assess_subject_topic_scope *)
TopicMismatch(c, t, asked) ==
  /\ "memory" \in asked /\ t.chars >= 40 /\ "off topic" \in All(t)
  /\ \/ "memory" \in c.says /\ "memory" \notin All(t)
     \/ "off topic" \in c.says /\ "memory" \notin c.says

(* _finalize_span *)
SpanHolds(span, c, least, percent) ==
  /\ c.says \cap Mechanisms \subseteq span
  /\ \/ c.quote # {} /\ c.quote \subseteq span
     \/ /\ Cardinality(WordsOf(c.says) \cap span) >= least
        /\ Share(WordsOf(c.says) \cap span, WordsOf(c.says), percent)

\* The spans with all of the terms, the first of some spans, and the first of
\* those with most words in common.
Holding(t, terms) == {i \in DOMAIN Spans(t) : terms \subseteq Spans(t)[i]}
FirstOf(t, spans) == Spans(t)[CHOOSE i \in spans : \A j \in spans : i <= j]
BestSpan(c, t) ==
  LET score(i) == Cardinality(WordsOf(c.says) \cap Spans(t)[i])
  IN  FirstOf(t, {i \in DOMAIN Spans(t) : \A j \in DOMAIN Spans(t) : score(j) <= score(i)})

Larger2(a, b) == IF a > b THEN a ELSE b
Least2(a, b) == IF a < b THEN a ELSE b
AtLeast(c, many) == IF Cardinality(WordsOf(c.says)) >= many THEN 2 ELSE 1

(* assess_claim_span_grounding *)
SpanGate(c, t) ==
  LET figures == c.says \cap Numbers
      holding == Holding(t, figures)
      quoting == Holding(t, c.quote)
      words == Cardinality(WordsOf(c.says))
      third == Larger2(2, Least2(4, words \div 3))
  IN CASE c.kind \in Opinions -> "none"
       [] c.kind \notin Opinions /\ t.chars < 40 -> "ungrounded"
       [] c.kind \notin Opinions /\ t.chars >= 40 /\ figures # {} ->
            IF holding # {} /\ SpanHolds(FirstOf(t, holding), c, AtLeast(c, 4), 20)
            THEN "ok" ELSE "ungrounded"
       [] c.kind \notin Opinions /\ t.chars >= 40 /\ figures = {} /\ words < 2 -> "none"
       [] OTHER ->
            IF c.quote # {} /\ quoting # {}
            THEN IF SpanHolds(FirstOf(t, quoting), c, AtLeast(c, 5), 25) THEN "ok" ELSE "ungrounded"
            ELSE IF SpanHolds(BestSpan(c, t), c, third, 34) THEN "ok" ELSE "ungrounded"

(* verify_against_sources is called without the query, so that nothing is asked. *)
NothingAsked == {}

(* The status is the first that applies. *)
Verdicts == {"source_missing", "wrong_number", "wrong_causal", "unsupported", "inferred", "verified"}
StatusOf(c, t) ==
  LET found == Located(Sought(c), t)
      missing == (c.says \cap Numbers) \ All(t)
      causal == CausalDelta(c, t)
  IN IF c.url = NoUrl \/ t.chars < 40 THEN "source_missing"
     ELSE IF causal \notin {"none", "ok"} THEN causal
     ELSE IF ScopeBleed(c, t) \/ ScaleMismatch(c, t, NothingAsked) THEN "wrong_causal"
     ELSE IF TopicMismatch(c, t, NothingAsked) THEN "unsupported"
     ELSE IF found /\ missing # {} THEN "wrong_number"
     ELSE IF SpanGate(c, t) = "ungrounded" THEN "unsupported"
     ELSE IF c.kind \in Opinions /\ ~found THEN "inferred"
     ELSE IF ~found THEN "unsupported"
     ELSE "verified"

(* What the edge from a claim to its source says; without a source there is none. *)
Relation(c, status) ==
  CASE c.url = NoUrl -> "none"
    [] c.url # NoUrl /\ c.against = c.url -> "contradicts"
    [] c.url # NoUrl /\ c.against # c.url /\ status \in {"wrong_number", "wrong_causal", "inferred"} -> "qualifies"
    [] c.url # NoUrl /\ c.against \notin {c.url, NoUrl} /\ status \in {"unsupported", "source_missing"} ->
         "contradicts"
    [] OTHER -> "supports"

----------------------------------------------------------------------------
(* The report.                                                              *)

TextAt(url) == IF url \in Urls THEN texts[url] ELSE EmptyText

(* verify_claims: a claim is grounded when its quote, or a third of its words,
   is in the row it was drawn from, whose address and text it may then borrow.
   One that is not is dropped unless something speaks against it, the first stays
   when that leaves none, and empty phrases go.  When fewer are left than the
   claims extract drew up, those are taken. *)
Grounded(c) ==
  /\ c.from \in Urls
  /\ \/ Located(c.quote, texts[c.from])
     \/ Sought(c) # {} /\ Share(Sought(c) \cap All(texts[c.from]), Sought(c), 35)
Opening(t) == IF t.says = <<>> THEN {} ELSE Head(t.says)
Borrowed(c) ==
  IF ~Grounded(c) THEN c
  ELSE [c EXCEPT !.url = IF @ = NoUrl THEN c.from ELSE @,
                 !.quote = IF @ = {} THEN Opening(texts[c.from]) ELSE @]
Ground ==
  /\ task = "ground" /\ task' = "quote"
  /\ LET good == {i \in DOMAIN claims : Grounded(claims[i]) \/ claims[i].against # NoUrl}
         kept == IF good # {} THEN good ELSE DOMAIN claims \cap {1}
     IN  \E seeds \in {<<>>} \cup ClaimLists, phrases \in SUBSET kept :
           LET cleaned == kept \ phrases
           IN  claims' = IF Cardinality(cleaned) < Len(seeds) THEN seeds
                         ELSE [i \in (IF cleaned # {} THEN cleaned ELSE kept) |-> Borrowed(claims[i])]
  /\ UNCHANGED <<texts, fetched, results, content, stored, checks>>

(* enrich_claim_quotes_llm: a sentence of the source, or else of the row the claim
   was drawn from, is taken for a quote that is missing or of less than two words
   (24 characters), by the rule or by the model, when it is found there.  After it
   a claim whose address is not cited gets that of the row it was drawn from, or
   none. *)
NeedsQuote(c) == Cardinality(c.quote) < 2 /\ c.kind \notin Opinions
EvidenceFor(c) == IF c.url \in Urls THEN TextAt(c.url) ELSE TextAt(c.from)
Quotes(c) ==
  {c.quote} \cup IF NeedsQuote(c) THEN {EvidenceFor(c).says[i] : i \in DOMAIN EvidenceFor(c).says} ELSE {}
Addressed(c) ==
  [c EXCEPT !.url = IF @ \in Citable \cup {NoUrl} THEN @
                    ELSE IF c.from \in Citable THEN c.from ELSE NoUrl]
FillQuotes ==
  /\ task = "quote" /\ task' = "verify"
  /\ \E q \in [DOMAIN claims -> UNION {Quotes(claims[i]) : i \in DOMAIN claims}] :
       /\ \A i \in DOMAIN claims : q[i] \in Quotes(claims[i])
       /\ claims' = [i \in DOMAIN claims |-> Addressed([claims[i] EXCEPT !.quote = q[i]])]
  /\ UNCHANGED <<texts, fetched, results, content, stored, checks>>

(* One claim of verify_against_sources, in their order.  A source with less
   than 400 characters is fetched, once more at its other address when that
   brings less than 80, and what the run knows of that address is then the
   fetched text. *)
Unchecked == DOMAIN claims \ DOMAIN results
IsNext(i) == i \in Unchecked /\ \A j \in Unchecked : i <= j

Tries(c) == c.url # NoUrl /\ TextAt(c.url).chars < 400 /\ fetched < MaxRefetch
Read(c) ==
  IF Tries(c) THEN {IF got.chars >= 80 THEN got ELSE TextAt(c.url) : got \in Answers[c.url]}
  ELSE {TextAt(c.url)}

Checked(i, t) ==
  LET c == claims[i] IN
  /\ fetched' = IF Tries(c) THEN fetched + 1 ELSE fetched
  /\ results' = [j \in DOMAIN results \cup {i} |->
                   IF j = i THEN [status |-> StatusOf(c, t), long |-> t.chars >= 400]
                   ELSE results[j]]
  /\ content' = IF c.url = NoUrl THEN content ELSE [content EXCEPT ![c.url] = t]

\* Mutant: a fetched text is not remembered for the next claim.
VerifyForgetful ==
  /\ task = "verify"
  /\ \E i \in DOMAIN claims : IsNext(i) /\ \E t \in Read(claims[i]) : Checked(i, t)
  /\ UNCHANGED <<task, claims, texts, stored, checks>>

Verify ==
  /\ task = "verify"
  /\ \E i \in DOMAIN claims :
       /\ IsNext(i)
       /\ \E t \in Read(claims[i]) :
            /\ Checked(i, t)
            /\ texts' = IF claims[i].url = NoUrl THEN texts ELSE [texts EXCEPT ![claims[i].url] = t]
  /\ UNCHANGED <<task, claims, stored, checks>>

(* persist_evidence_graph, one transaction: the rows of the run go, those of
   this report come, one for each claim, for claims have ids of their own.  A
   failure is logged and leaves the old ones. *)
NothingStored == [claims |-> <<>>, results |-> <<>>, edges |-> <<>>,
                  content |-> [u \in Urls |-> EmptyText]]
Persist ==
  /\ task = "verify" /\ Unchecked = {} /\ task' = "reported"
  /\ stored' \in {stored, [claims |-> claims, results |-> results, content |-> content,
                           edges |-> [i \in DOMAIN claims |-> Relation(claims[i], results[i].status)]]}
  /\ UNCHANGED <<claims, texts, fetched, results, content, checks>>

(* The report is written once more: after another pass over the sources, or
   when the node ran out of credits and starts over.  The run has its own copy
   of the working set, without what was fetched for the check. *)
ReportAgain ==
  /\ task # "ground" /\ checks < MaxChecks
  /\ checks' = checks + 1 /\ task' = "ground"
  /\ claims' \in ClaimLists /\ texts' \in WorkingSets
  /\ fetched' = 0 /\ results' = <<>> /\ content' = NothingStored.content
  /\ UNCHANGED stored

ClaimInit ==
  /\ task = "ground" /\ claims \in ClaimLists /\ texts \in WorkingSets
  /\ fetched = 0 /\ results = <<>> /\ content = NothingStored.content
  /\ stored = NothingStored /\ checks = 0

ClaimNext == Ground \/ FillQuotes \/ Verify \/ Persist \/ ReportAgain

ClaimSpec == ClaimInit /\ [][ClaimNext]_claimVars

----------------------------------------------------------------------------
(* Properties.                                                              *)

(* A reader can check what is stored: a claim that was verified against a text
   of 400 characters or more has its quote in the text stored for its source,
   and its numbers together in two neighbouring sentences of it, although what
   is stored is the text of the last claim of that source.  (A shorter source
   is fetched anew for each claim and may read otherwise each time.) *)
Shown(c, t) ==
  /\ Located(Sought(c), t)
  /\ c.kind \notin Opinions =>
       \E j \in DOMAIN t.says :
         \/ c.says \cap Numbers \subseteq t.says[j]
         \/ j < Len(t.says) /\ c.says \cap Numbers \subseteq t.says[j] \cup t.says[j + 1]
VerifiedHasItsSource ==
  \A i \in DOMAIN stored.claims :
    stored.results[i].status = "verified" /\ stored.results[i].long =>
      Shown(stored.claims[i], stored.content[stored.claims[i].url])

----------------------------------------------------------------------------
(* What makes it inductive: a long text is not fetched again, so that every     *)
(* claim verified against one has it for its source until the graph is stored.  *)

Result == [status : Verdicts, long : BOOLEAN]
Listed(f, S) == f \in [DOMAIN f -> S] /\ DOMAIN f \subseteq Nat
ClaimTypeOK ==
  /\ task \in {"ground", "quote", "verify", "reported"}
  /\ Listed(claims, AnyClaim) /\ Listed(results, Result)
  /\ texts \in [Urls -> Readings] /\ content \in [Urls -> Readings]
  /\ fetched \in 0..MaxRefetch /\ checks \in 0..MaxChecks
  /\ DOMAIN stored = {"claims", "results", "edges", "content"}
  /\ Listed(stored.claims, AnyClaim) /\ Listed(stored.results, Result)
  /\ Listed(stored.edges, {"none", "supports", "qualifies", "contradicts"}) /\ stored.content \in [Urls -> Readings]

Backed(i) ==
  LET c == claims[i] IN
  results[i].status = "verified" /\ results[i].long =>
    /\ c.url \in Urls /\ texts[c.url].chars >= 400
    /\ content[c.url] = texts[c.url] /\ Shown(c, texts[c.url])
ClaimInv ==
  /\ ClaimTypeOK /\ VerifiedHasItsSource
  /\ task \in {"ground", "quote"} => results = <<>>
  /\ DOMAIN results \subseteq DOMAIN claims
  /\ task = "verify" => \A i \in DOMAIN claims : claims[i].url \in Urls \cup {NoUrl}
  /\ \A i \in DOMAIN results : Backed(i)
=============================================================================
