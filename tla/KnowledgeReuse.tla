--------------------------- MODULE KnowledgeReuse ---------------------------
(***************************************************************************)
(* Stored answers and the runs that reuse them (apps/agent/app/domain/      *)
(* knowledge.py, the lookup of planner.py, the served memo of report.py, the*)
(* publishing half of memo_gate.py) and the user who deletes a run.         *)
(*                                                                         *)
(* A run is looked at from its lookup to the checkpoint of its memo gate; one *)
(* that fails or is cancelled takes no further step.                         *)
(* What a stored answer consists of is kept apart as far as it is           *)
(* merged apart: the questions it answers, the body and its depth, the      *)
(* citations, each named by the run that found it.                          *)
(***************************************************************************)
EXTENDS Naturals, FiniteSets

CONSTANTS Threads,       \* runs, one thread each
          OrgOf,         \* organisation of each
          GoalOf,        \* the words of its question
          NoOrg,         \* owner of imported records
          MaxRecords,    \* BOUND on records ever inserted
          LoadLimit,     \* knowledge_max_records (400)
          MaxCitations,  \* MAX_CITATIONS (28)
          MaxDepth,      \* BOUND on depth scores (100)
          FreshDays,     \* FRESHNESS_DAYS_BY_TYPE
          MaxDay,        \* BOUND on days
          MaxMishaps     \* BOUND on deletions and memo gates run again after a crash

ASSUME KnowledgeAssumption ==
    /\ IsFiniteSet(Threads) /\ NoOrg \notin {OrgOf[t] : t \in Threads}
    /\ {MaxCitations, MaxDepth, FreshDays, MaxDay, MaxMishaps} \subseteq Nat
    /\ {LoadLimit, MaxRecords} \subseteq Nat \ {0}

VARIABLES
    records,   \* the table knowledge_records, in the order of insertion
    inserted,  \* rows inserted so far
    run,       \* per run: where it stands, its reuse mode and prior, and its memo
    deleted,   \* runs the user has deleted
    day,       \* the clock
    lost       \* gates run again

knowledgeVars == <<records, inserted, run, deleted, day, lost>>

Ids == 1..MaxRecords
Orgs == {OrgOf[t] : t \in Threads}
NoRecord == [org |-> NoOrg, thread |-> "none", goal |-> {}, cites |-> {}, depth |-> 0,
             version |-> 0, active |-> FALSE, updated |-> 0, prior |-> 0]
NewRun == [step |-> "asked", mode |-> "none", prior |-> 0, cites |-> {}, depth |-> 0, stored |-> 0]
Over == [NewRun EXCEPT !.step = "done"]   \* what it held matters no more

KnowledgeInit ==
    /\ records = [i \in Ids |-> NoRecord] /\ inserted = 0
    /\ run = [t \in Threads |-> NewRun]
    /\ deleted = {} /\ day = 0 /\ lost = 0

Mishaps == Cardinality(deleted) + lost

------------------------------------------------------------------------------
(* lookup.                                                                 *)

\* Mutant: the organisation is not part of the query.
AnyOrgRecords(org) == {i \in Ids : records[i].active}

\* load_records reads the newest of the organisation's active rows.
OrgRecords(org) == {i \in Ids : records[i].active /\ records[i].org = org}

Loaded(org, ids) ==
    /\ ids \subseteq OrgRecords(org) /\ Cardinality(ids) <= LoadLimit
    /\ \A i \in OrgRecords(org) \ ids :
          Cardinality(ids) = LoadLimit /\ \A j \in ids : records[j].updated >= records[i].updated

\* jaccard(a, b) >= percent / 100
Overlap(a, b, percent) == 100 * Cardinality(a \cap b) >= percent * Cardinality(a \cup b)

\* The best row may be best by its embedding, which says nothing about its words,
\* but too few common words make it no hit.
Mode(i, t, embedding) ==
    LET goal == records[i].goal IN
    IF ~Overlap(goal, GoalOf[t], 50) THEN "none"
    ELSE IF embedding = "same" \/ Overlap(goal, GoalOf[t], 88)
    THEN IF day - records[i].updated <= FreshDays THEN "cached" ELSE "augment"
    ELSE IF embedding = "close" \/ Overlap(goal, GoalOf[t], 70) THEN "augment" ELSE "none"

Miss(t) == run' = [run EXCEPT ![t].step = "research"]

\* planner: a failed lookup, and a request for a fresh answer, are misses.
Lookup(t) ==
    /\ run[t].step = "asked"
    /\ \/ Miss(t)
       \/ \E ids \in SUBSET Ids : \E i \in ids : \E embedding \in {"same", "close", "far"} :
             /\ Loaded(OrgOf[t], ids)
             /\ LET m == Mode(i, t, embedding) IN
                IF m = "none" THEN Miss(t)
                ELSE run' = [run EXCEPT ![t].step = IF m = "cached" THEN "serve" ELSE "research",
                                        ![t].mode = m, ![t].prior = i]
    /\ UNCHANGED <<records, inserted, deleted, day, lost>>

\* mark_reused: a row that is still active is young again.
Reused(i) == IF i # 0 /\ records[i].active THEN [records EXCEPT ![i].updated = day] ELSE records

\* _reuse_stored_answer: the memo is the copy of the record the lookup made.
Serve(t) ==
    /\ run[t].step = "serve"
    /\ LET i == run[t].prior IN
          /\ run' = [run EXCEPT ![t].step = "gate", ![t].stored = i,
                                ![t].cites = records[i].cites, ![t].depth = records[i].depth]
          /\ records' = Reused(i)
    /\ UNCHANGED <<inserted, deleted, day, lost>>

\* Research and report: citations of its own and of those the prior was seeded with,
\* either or both, or nothing citable.  A second pass of the planner forgets that
\* the run extends an answer, not which.
Write(t) ==
    /\ run[t].step = "research"
    /\ \E depth \in 0..MaxDepth, mode \in {run[t].mode, "none"}, own \in SUBSET {t}, seeded \in SUBSET Threads :
          /\ seeded \subseteq IF run[t].mode = "augment" THEN records[run[t].prior].cites ELSE {}
          /\ run' = [run EXCEPT ![t].step = "gate", ![t].mode = mode, ![t].depth = depth,
                                ![t].cites = own \cup seeded]
    /\ UNCHANGED <<records, inserted, deleted, day, lost>>

------------------------------------------------------------------------------
(* The memo gate: publish.                                                 *)

\* _prefer_prior_if_better: a shallower rewrite gives way to the stored memo, in a
\* run that still knows it extends one.
Preferred(t) ==
    LET r == run[t]  p == records[r.prior] IN
    IF r.mode = "augment" /\ r.depth < p.depth
    THEN [r EXCEPT !.depth = p.depth, !.stored = r.prior,
                   !.cites = IF p.cites = {} THEN r.cites ELSE p.cites]
    ELSE r

Fresh(t, r) == [org |-> OrgOf[t], thread |-> t, goal |-> GoalOf[t], cites |-> r.cites,
                depth |-> r.depth, version |-> 1, active |-> TRUE, updated |-> day, prior |-> 0]

Greater(a, b) == IF a >= b THEN a ELSE b

\* Mutant: the new answer replaces the stored one.
ReplacePrior(p, f, cites) == [f EXCEPT !.cites = cites, !.version = p.version + 1]

\* _merge: words and citations of both, the body of the deeper.
Merge(p, f, cites) == [f EXCEPT !.goal = @ \cup p.goal, !.depth = Greater(@, p.depth),
                                !.version = p.version + 1, !.cites = cites]

\* Which citations fit after the prior's.
JoinedCitations(p, f, cites) ==
    /\ p.cites \subseteq cites /\ cites \subseteq p.cites \cup f.cites
    /\ Cardinality(cites) <= MaxCitations
    /\ cites = p.cites \cup f.cites \/ Cardinality(cites) = MaxCitations

\* Mutant: the prior is taken whether or not it is still active.
PriorAtAnyTime(t) == run[t].prior # 0

\* SELECT .. WHERE id = prior AND active FOR UPDATE, in the saving transaction.
PriorIsActive(t) == run[t].prior # 0 /\ records[run[t].prior].active

\* save_answer: one transaction retires the prior and inserts the new row.
SaveAnswer(t, r) ==
    LET f == Fresh(t, r)  i == r.prior  id == inserted + 1 IN
    /\ id \in Ids /\ inserted' = id
    /\ IF PriorIsActive(t)
       THEN \E cites \in SUBSET Threads :
              /\ JoinedCitations(records[i], f, cites)
              /\ records' = [records EXCEPT
                    ![i].active = FALSE, ![i].updated = day,
                    ![id] = [Merge(records[i], f, cites) EXCEPT !.prior = i]]
       ELSE records' = [records EXCEPT ![id] = f]

\* _persist_knowledge: a memo out of the store is marked, one with a citation saved;
\* a store that fails is logged, and the memo is published all the same.
PersistKnowledge(t) ==
    /\ run[t].step = "gate"
    /\ LET r == Preferred(t) IN
          /\ run' = [run EXCEPT ![t] = [r EXCEPT !.step = "saved"]]
          /\ IF r.stored # 0 THEN records' = Reused(r.stored) /\ UNCHANGED inserted
             ELSE \/ r.cites # {} /\ SaveAnswer(t, r)
                  \/ UNCHANGED <<records, inserted>>
    /\ UNCHANGED <<deleted, day, lost>>

Checkpoint(t) ==
    /\ run[t].step = "saved"
    /\ run' = [run EXCEPT ![t] = Over]
    /\ UNCHANGED <<records, inserted, deleted, day, lost>>

\* The process dies before the checkpoint: the gate runs again, from the report
\* the checkpoint has.
RunGateAgain(t) ==
    /\ run[t].step = "saved" /\ Mishaps < MaxMishaps
    /\ lost' = lost + 1
    /\ run' = [run EXCEPT ![t].step = "gate"]
    /\ UNCHANGED <<records, inserted, deleted, day>>

------------------------------------------------------------------------------

\* softDeleteRun: the rows this run inserted are retired; a run that is still
\* executing goes on.
SoftDeleteRun(t) ==
    /\ t \notin deleted /\ Mishaps < MaxMishaps
    /\ deleted' = deleted \cup {t}
    /\ records' = [i \in Ids |-> IF records[i].active /\ records[i].thread = t
                                 THEN [records[i] EXCEPT !.active = FALSE, !.updated = day]
                                 ELSE records[i]]
    /\ UNCHANGED <<inserted, run, day, lost>>

\* import_jsonl at boot: rows without an organisation.
Import ==
    /\ inserted = 0
    /\ inserted' = 1
    /\ \E t \in Threads :
          records' = [records EXCEPT ![1] = [NoRecord EXCEPT !.goal = GoalOf[t], !.active = TRUE,
                                                            !.version = 1, !.updated = day]]
    /\ UNCHANGED <<run, deleted, day, lost>>

NextDay == /\ day < MaxDay /\ day' = day + 1
           /\ UNCHANGED <<records, inserted, run, deleted, lost>>

KnowledgeNext ==
    \/ \E t \in Threads : \/ Lookup(t) \/ Serve(t) \/ Write(t) \/ PersistKnowledge(t) \/ Checkpoint(t)
                          \/ RunGateAgain(t) \/ SoftDeleteRun(t)
    \/ Import \/ NextDay

KnowledgeSpec == KnowledgeInit /\ [][KnowledgeNext]_knowledgeVars
------------------------------------------------------------------------------

KnowledgeTypeOK ==
    /\ records \in [Ids -> [org : Orgs \cup {NoOrg}, thread : Threads \cup {"none"},
                            goal : SUBSET UNION {GoalOf[t] : t \in Threads},
                            cites : SUBSET Threads, depth : 0..MaxDepth, version : Nat,
                            active : BOOLEAN, updated : 0..MaxDay, prior : 0..MaxRecords]]
    /\ inserted \in 0..MaxRecords
    /\ run \in [Threads -> [step : {"asked", "serve", "research", "gate", "saved", "done"},
                            mode : {"none", "cached", "augment"}, prior : 0..MaxRecords,
                            cites : SUBSET Threads, depth : 0..MaxDepth, stored : 0..MaxRecords]]
    /\ deleted \subseteq Threads /\ day \in 0..MaxDay /\ lost \in 0..MaxMishaps

\* Sources found for one organisation reach no memo and no stored answer of
\* another, through any chain of lookups, seeds and merges (load_records).
OrgsApart ==
    /\ \A t \in Threads : \A s \in run[t].cites : OrgOf[s] = OrgOf[t]
    /\ \A i \in Ids : \A s \in records[i].cites : OrgOf[s] = records[i].org

\* "Augment can only hold steady or improve": what the store can serve loses neither
\* depth nor sources to a later run, whichever runs publish at the same time or
\* twice; only a user who deletes takes something out of it.
StoreNeverRegresses ==
    [][deleted' # deleted \/
       \A i \in Ids : records[i].active =>
          \E j \in Ids : /\ records'[j].active /\ records'[j].org = records[i].org
                         /\ records[i].goal \subseteq records'[j].goal
                         /\ records'[j].depth >= records[i].depth
                         /\ records[i].cites \subseteq records'[j].cites]_knowledgeVars

\* A stored answer is superseded once: of two runs that extend it, and of two
\* attempts of one run, the first takes it over and the other starts a line of its
\* own (the row lock and "AND active = TRUE" of save_answer).
OneSuccessor ==
    \A i, j \in Ids : records[i].prior # 0 /\ records[i].prior = records[j].prior => i = j

\* What makes these inductive: a run extends or serves rows of its own organisation
\* that were there before it, and a row that has a successor is retired for good.
PriorsAreOwn ==
    \A t \in Threads :
      /\ run[t].mode # "none" \/ run[t].step = "serve" => run[t].prior # 0
      /\ run[t].prior # 0 => /\ run[t].prior <= inserted
                             /\ records[run[t].prior].org = OrgOf[t]
RowsInOrder ==
    \A i \in Ids : /\ records[i].active => i <= inserted
                   /\ records[i].prior <= inserted
RetiredForGood == \A i \in Ids : records[i].prior # 0 => ~records[records[i].prior].active
KnowledgeInv ==
    /\ KnowledgeTypeOK /\ PriorsAreOwn /\ RowsInOrder /\ RetiredForGood
    /\ OrgsApart /\ OneSuccessor

\* "deleted != never reuse this content again is the wrong default"
\* (softDeleteRun): what a deleted run found is not served as a stored answer.
DeletedNotServed ==
    [][\A t \in Threads : run[t].step = "asked" /\ run'[t].step = "serve"
                          => records[run'[t].prior].cites \cap deleted = {}]_knowledgeVars
=============================================================================
