----------------------------- MODULE Retrieval -----------------------------
(***************************************************************************)
(* What the research passes of one run collect and what of it reaches the   *)
(* writer: planner, search / scholar / docs, collector, enrich, retrieve,   *)
(* extract and critic of apps/agent/app/graph/nodes.                        *)
(*                                                                         *)
(* A row of evidence is a page of a work with the text the run has of it.   *)
(* Rows are kept twice: in the channel `evidence`, where later rows are     *)
(* merged into earlier ones, and as copies in `retrieved`, the working set  *)
(* that coverage is scored on and the memo is written from.  ResearchGraph  *)
(* has the routing and the gates around these passes.                       *)
(***************************************************************************)
EXTENDS Integers, Sequences, FiniteSets, SequencesExt

CONSTANTS Works,      \* papers and pages, whatever their address
          ArXiv,      \* those with an abstract page and a full-text page
          Primary,    \* papers, official docs and repositories
          Secondary,  \* works on blogs, forums and aggregators
          OffTopic,   \* works of no anchor of the question
          Mandatory,  \* works a LoRA / QLoRA question must cite
          Corpus,     \* notes of the organisation's own corpus
          Slots,      \* must-answer dimensions
          Score,      \* how well a work speaks to a slot, by its snippet and in full
          MaxRetrieval, MaxEnrich, MaxIterations, \* the budget
          Reserve,    \* calls the first pass leaves to the later ones
          CountCap, FetchCap, MicroCap,           \* caps per pass
          SlotK,      \* rows retrieved per slot
          MinOnTopic, \* on-topic rows that make extract drop the others
          MaxAsked    \* BOUND on the sub-queries a planner model writes

Text == [thin |-> 1, full |-> 2]   \* 0: no such row
Pages == [work : Works \ ArXiv, form : {"page"}] \cup [work : ArXiv, form : {"abs", "html"}]
NoRows == [p \in Pages |-> 0]
NoPlan == [agents |-> {}, asked |-> <<>>]

ASSUME RetrievalAssumption ==
    /\ IsFiniteSet(Works) /\ IsFiniteSet(Slots)
    /\ ArXiv \subseteq Works /\ Primary \subseteq Works /\ OffTopic \subseteq Works /\ Secondary \subseteq Works
    /\ Mandatory \subseteq Works /\ Corpus \subseteq Works \ ArXiv
    /\ Score \in [Slots -> [Works -> [thin : Nat, full : Nat]]]
    /\ {MaxRetrieval, MaxEnrich, Reserve, FetchCap, MicroCap, MinOnTopic} \subseteq Nat
    /\ {MaxIterations, CountCap, SlotK, MaxAsked} \subseteq Nat \ {0}

VARIABLES
    node,       \* the node that runs next
    plan,       \* [agents, asked]: who runs and the capped sub-queries, as long
                \* as a node is to read them
    latest,     \* external calls in the latest trace of an agent, -1: it says none
    evidence,   \* the merged channel: page -> text
    retrieved,  \* the working set: page -> text of the copy
    slots,      \* status of each must-answer dimension
    backing,    \* evidence_ids of each dimension: pages
    budget,     \* [retrieval, enrich, iterations] spent
    microDone   \* gap_micro_retries

vars == <<node, plan, latest, evidence, retrieved, slots, backing, budget, microDone>>
Agents == {"search", "scholar", "docs"}
Status == {"open", "weak", "covered"}

RemainingRetrieval == IF budget.retrieval >= MaxRetrieval THEN 0 ELSE MaxRetrieval - budget.retrieval
RemainingEnrich(used) == IF used >= MaxEnrich THEN 0 ELSE MaxEnrich - used
CanLoop == budget.iterations < MaxIterations /\ RemainingRetrieval > 0

------------------------------------------------------------------------------
(* Rows.                                                                   *)

Found(rows) == {p \in Pages : rows[p] # 0}

\* merge_unique_evidence: by id and url, that is by page; a truthy field of the
\* later row overlays the earlier one, so that a text once fetched stays.
MergeUnique(left, right) == [p \in Pages |-> Max({left[p], right[p]})]
RowsOf(pages, text) == [p \in Pages |-> IF p \in pages THEN text ELSE 0]

\* dedupe_evidence: one row per work; rows are sorted by venue, then address.
PreferPrimary(p, q) == p.form = "abs" /\ q.form = "html"
Deduped(rows) ==
    [p \in Pages |-> IF \E q \in Found(rows) : q.work = p.work /\ PreferPrimary(q, p)
                     THEN 0 ELSE rows[p]]

OnTopic(rows) == {p \in Found(rows) : p.work \notin OffTopic}
Only(rows, pages) == [p \in Pages |-> IF p \in pages THEN rows[p] ELSE 0]

\* score_must_answer: a slot is judged by its best row, and covered if that row
\* speaks to it, is of no secondary host, and is primary or not the only work that
\* does; its three best rows back it.  Ties go by credibility, and among equals by
\* whatever order the rows have.
Usable(rows) == LET d == Deduped(rows)
                IN  IF OnTopic(d) # {} THEN OnTopic(d) ELSE Found(d)
Speaks(s, p, rows) == IF rows[p] = Text.full THEN Score[s][p.work].full ELSE Score[s][p.work].thin
Hits(s, rows) == {p \in Usable(rows) : Speaks(s, p, rows) > 0}

StatusBy(s, best, hits, rows) ==
    IF /\ Speaks(s, best, rows) >= 2
       /\ best.work \notin Secondary
       /\ best.work \in Primary \/ Cardinality({p.work : p \in hits}) >= 2
    THEN "covered" ELSE "weak"

Rankings(s, hits, rows) ==
    {r \in [best : hits, first : kSubset(Min({3, Cardinality(hits)}), hits)] :
        /\ r.best \in r.first
        /\ \A p \in hits : Speaks(s, p, rows) <= Speaks(s, r.best, rows)
        /\ \A p \in hits \ r.first, q \in r.first : Speaks(s, p, rows) <= Speaks(s, q, rows)}

Judged(s, rows) ==
    LET hits == Hits(s, rows)
    IN  IF hits = {} THEN {[status |-> "open", backing |-> {}]}
        ELSE {[status |-> StatusBy(s, r.best, hits, rows), backing |-> r.first] :
                  r \in Rankings(s, hits, rows)}

Coverage(rows) ==
    {cover \in [Slots -> UNION {Judged(s, rows) : s \in Slots}] :
        \A s \in Slots : cover[s] \in Judged(s, rows)}

Scored(cover) ==
    /\ slots' = [s \in Slots |-> cover[s].status]
    /\ backing' = [s \in Slots |-> cover[s].backing]

------------------------------------------------------------------------------
(* The planner.                                                            *)

\* A scholar query may take a second call, to Semantic Scholar.
Cost(agent) == IF agent = "scholar" THEN 2 ELSE 1
TotalCost(asked) == FoldLeft(LAMBDA sum, a : sum + Cost(a), 0, asked)

\* _cap_sub_queries: stop at the first sub-query that does not fit; the first
\* always does.
CapSubQueries(subs, calls) ==
    LET fits(n) == n = 1 \/ TotalCost(SubSeq(subs, 1, n)) <= calls
    IN  SubSeq(subs, 1, Max({n \in 0..Len(subs) : /\ n <= CountCap
                                                  /\ \A i \in 1..n : fits(i)}))

\* _reserve_calls: the first pass keeps a reserve, the last one none.
ReserveAt(iteration) ==
    IF iteration <= 1 THEN Reserve
    ELSE IF iteration >= MaxIterations THEN 0
    ELSE Max({2, Reserve \div Max({1, MaxIterations - 1})})

CallCapAt(iteration) == Max({2, RemainingRetrieval - ReserveAt(iteration)})

Plan ==
    /\ node = "planner"
    /\ budget' = [budget EXCEPT !.iterations = @ + 1]
    /\ \E agents \in SUBSET Agents, n \in 0..MaxAsked :
       \E subs \in [1..n -> {"search", "scholar"}] :
          IF RemainingRetrieval = 0
          THEN agents = {} /\ n = 0 /\ plan' = NoPlan
          ELSE /\ agents # {} /\ n > 0
               /\ plan' = [agents |-> agents,
                           asked |-> CapSubQueries(subs, CallCapAt(budget.iterations + 1))]
    /\ node' = IF plan'.agents = {} THEN "collector" ELSE "agents"
    /\ UNCHANGED <<latest, evidence, retrieved, slots, backing, microDone>>

------------------------------------------------------------------------------
(* One superstep: search, scholar and docs side by side; the graph applies  *)
(* what they found when all three are done.                                *)

\* Each sub-query, or the question itself if there is none, is one trace: a cached
\* answer costs nothing, an empty one of Tavily a second call.  Only the latest
\* trace of an agent is charged; one that is skipped states 0 (search) or nothing.
SearchCalls  == IF "search" \in plan.agents THEN 0..2 ELSE {0}
\* OpenAlex, and Semantic Scholar when OpenAlex is thin and not cooling down.
ScholarCalls == IF "scholar" \in plan.agents THEN 1..2 ELSE {-1}
DocsCalls    == {-1}

\* Either answers with papers, each at its free copy: the abstract page on arXiv
\* or an open PDF, not arXiv's full-text page.
Papers == {p \in Pages : p.work \in Primary \ Corpus /\ p.form # "html"}

WithinReach == {p \in Pages : \/ "search" \in plan.agents /\ p.work \notin Corpus
                              \/ "scholar" \in plan.agents /\ p \in Papers
                              \/ "docs" \in plan.agents /\ p.work \in Corpus}

FanOut ==
    /\ node = "agents" /\ node' = "collector"
    /\ \E pages \in SUBSET WithinReach : evidence' = MergeUnique(evidence, RowsOf(pages, Text.thin))
    /\ latest' \in [search : SearchCalls, scholar : ScholarCalls, docs : DocsCalls]
    /\ UNCHANGED <<plan, retrieved, slots, backing, budget, microDone>>

\* The calls of the latest traces that state any; else one per agent that ran.
Charged == LET stated == {a \in Agents : latest[a] >= 0}
           IN  IF stated = {} THEN Cardinality(plan.agents)
               ELSE FoldSet(LAMBDA a, sum : sum + latest[a], 0, stated)

\* Mandatory papers that are still missing are fetched by their address; only
\* the rows that come back are charged.
Missing == {p \in Pages : /\ p.work \in Mandatory /\ p.form # "html"
                          /\ \A q \in Found(evidence) : q.work # p.work}

Collector ==
    /\ node = "collector" /\ node' = "enrich"
    /\ \E fetched \in SUBSET Missing :
          /\ Cardinality(fetched) <= RemainingEnrich(budget.enrich)
          /\ evidence' = MergeUnique(evidence, RowsOf(fetched, Text.full))
          /\ budget' = [budget EXCEPT !.retrieval = @ + Charged,
                                      !.enrich = @ + Cardinality(fetched)]
    /\ plan' = NoPlan
    /\ UNCHANGED <<latest, retrieved, slots, backing, microDone>>

------------------------------------------------------------------------------
(* Full texts.                                                             *)

\* arxiv_html_url: an abstract page is fetched at the address of the full text,
\* and the row that comes back has that address; if none does, the abstract page
\* itself is tried.
HtmlOf(p) == IF p.form = "abs" THEN [p EXCEPT !.form = "html"] ELSE p

\* A note of the corpus has no address to fetch.
Thin(pages, rows) == {p \in pages : rows[p] = Text.thin}
Fetchable(rows) == {p \in Found(rows) : p.work \notin Corpus}

\* On the first pass, and without gaps, pages queue by host and figures; one that
\* has its text is passed over, but not replaced by the next in line.
InLine(n) ==
    LET queue == kSubset(Min({FetchCap, Cardinality(Fetchable(evidence))}), Fetchable(evidence))
    IN  UNION {kSubset(Min({n, Cardinality(Thin(c, evidence))}), Thin(c, evidence)) : c \in queue}

\* urls_for_gap_slots: thin pages only, those that back a gap before all others.
Gaps == {s \in Slots : slots[s] # "covered"}
ForGaps(rows, backers, n) ==
    LET thin == Thin(Fetchable(rows), rows)
    IN  {c \in kSubset(Min({n, Cardinality(thin)}), thin) : c \subseteq backers \/ backers \cap thin \subseteq c}

Enrich ==
    /\ node = "enrich" /\ node' = "retrieve"
    /\ LET n == Min({FetchCap, RemainingEnrich(budget.enrich)})
       IN  \E paid \in IF budget.iterations > 1 /\ Gaps # {}
                       THEN ForGaps(evidence, UNION {backing[s] : s \in Gaps}, n) ELSE InLine(n) :
           \E got \in SUBSET (paid \cup {HtmlOf(p) : p \in paid}) :
             /\ evidence' = MergeUnique(evidence, RowsOf(got, Text.full))
             /\ budget' = [budget EXCEPT !.enrich = @ + Cardinality(paid)]
    /\ UNCHANGED <<plan, latest, retrieved, slots, backing, microDone>>

------------------------------------------------------------------------------
(* The working set.                                                        *)

PoolOf(rows) == LET d == Deduped(rows)
                IN  IF OnTopic(d) # {} THEN Only(d, OnTopic(d)) ELSE d

\* Mutant: every pass starts from an empty working set.
KeptNone(pool) == NoRows

\* What earlier passes found stays while the pool has it; every dimension that is
\* not covered adds its candidates; without any, the whole pool competes.
Kept(pool) == Only(retrieved, Found(retrieved) \cap Found(pool))

Retrieve ==
    /\ node = "retrieve" /\ node' = "extract"
    /\ \E notes \in SUBSET {p \in Pages : p.work \in Corpus} :
       LET pool == PoolOf(MergeUnique(evidence, RowsOf(notes, Text.thin)))
           kept == Kept(pool)
       IN  \E new \in SUBSET (Found(pool) \ Found(kept)) :
             /\ Cardinality(new) <= SlotK * Cardinality(Gaps)
             /\ IF new # {} \/ Found(kept) # {}
                THEN retrieved' = [p \in Pages |-> IF p \in new THEN pool[p] ELSE kept[p]]
                ELSE \E any \in SUBSET Found(pool) : retrieved' = Only(pool, any)
    /\ UNCHANGED <<plan, latest, evidence, slots, backing, budget, microDone>>

\* fetch_gap_evidence, until a page has come back once: guarded by the retrieval
\* pool, paid by the enrich pool, at the page's own address, for the gaps of the
\* coverage just scored.
Micro(cover) ==
    ~microDone /\ RemainingRetrieval >= MicroCap /\ \E s \in Slots : cover[s].status # "covered"

MicroPaid(rows, cover) ==
    IF ~Micro(cover) THEN {{}}
    ELSE LET open == {s \in Slots : cover[s].status # "covered"}
         IN  ForGaps(rows, UNION {cover[s].backing : s \in open},
                     Min({MicroCap, RemainingEnrich(budget.enrich)}))

WorkingOf(rows) == LET d == Deduped(rows)
                   IN  IF Cardinality(OnTopic(d)) >= MinOnTopic THEN Only(d, OnTopic(d)) ELSE d

\* state.get("retrieved") or state.get("evidence"): an empty set falls back.
\* What came back is scored once more.
Extract ==
    /\ node = "extract" /\ node' = "critic"
    /\ LET working == WorkingOf(IF Found(retrieved) = {} THEN evidence ELSE retrieved)
       IN  \E first \in Coverage(working) :
           \E paid \in MicroPaid(working, first) :
           \E got \in SUBSET paid :
             /\ retrieved' = IF got = {} THEN working
                             ELSE WorkingOf(MergeUnique(working, RowsOf(got, Text.full)))
             /\ budget' = [budget EXCEPT !.enrich = @ + Cardinality(paid)]
             /\ microDone' = (microDone \/ got # {})
             /\ \E cover \in IF got = {} THEN {first} ELSE Coverage(retrieved') : Scored(cover)
    /\ UNCHANGED <<plan, latest, evidence>>

\* The critic scores the same rows again; gaps and budget decide on another pass.
Critic ==
    /\ node = "critic"
    /\ \E cover \in Coverage(IF Found(retrieved) = {} THEN evidence ELSE retrieved) : Scored(cover)
    /\ node' \in IF CanLoop THEN {"planner", "report"} ELSE {"report"}
    /\ UNCHANGED <<plan, latest, evidence, retrieved, budget, microDone>>

Init ==
    /\ node = "planner" /\ plan = NoPlan
    /\ latest = [a \in Agents |-> -1]
    /\ evidence = NoRows /\ retrieved = NoRows
    /\ slots = [s \in Slots |-> "open"] /\ backing = [s \in Slots |-> {}]
    /\ budget = [retrieval |-> 0, enrich |-> 0, iterations |-> 0]
    /\ microDone = FALSE

Next == \/ Plan \/ FanOut \/ Collector
        \/ Enrich \/ Retrieve \/ Extract \/ Critic

Spec == Init /\ [][Next]_vars
------------------------------------------------------------------------------
TypeOK ==
    /\ node \in {"planner", "agents", "collector", "enrich", "retrieve", "extract", "critic", "report"}
    /\ plan.agents \subseteq Agents /\ plan.asked \in Seq({"search", "scholar"})
    /\ latest \in [Agents -> {-1, 0, 1, 2}]
    /\ {evidence, retrieved} \subseteq [Pages -> 0..2]
    /\ slots \in [Slots -> Status] /\ backing \in [Slots -> SUBSET Pages]
    /\ budget \in [retrieval : Nat, enrich : Nat, iterations : Nat]
    /\ microDone \in BOOLEAN

\* One paper found at two addresses counts once: the two works a slot needs are
\* two works.
OneWorkOneVote ==
    \A p, q \in Found(retrieved) : p.work = q.work => p = q

\* The evidence of a covered dimension stays in the working set as long as the
\* pool has it; a pass that skips the dimension must not lose it.
WorkingSetKept ==
    [][\A s \in Slots : slots[s] = "covered" =>
          \A p \in Found(retrieved) \cap backing[s] :
              p \in OnTopic(Deduped(evidence')) => p \in Found(retrieved')]_vars

\* A full text that was paid for is read: when coverage is scored, the row of that
\* work carries it (citations.py: "silently starving every arXiv source").
FetchedTextIsRead ==
    node = "critic" =>
        \A p \in Found(retrieved) :
            (\E q \in Found(evidence) : q.work = p.work /\ evidence[q] = Text.full)
                => retrieved[p] = Text.full
=============================================================================
