---------------------------- MODULE SharedProofs ----------------------------
(* What runs have to do with each other.  The rate limit is overrun by no more *)
(* than the requests in flight, for any limit, quotas and number of requests.  *)
(* Stored answers stay within their organisation, in lines that never fork,    *)
(* and what the store can serve never gets worse, for any number of runs,      *)
(* organisations and records.                                                  *)
EXTENDS Admission, KnowledgeReuse, FiniteSetTheorems, TLAPS

------------------------------------------------------------------------------
(* Admission.                                                              *)

LEMMA AdmissionTypeStep ==
    ASSUME AdmissionTypeOK, [AdmissionNext]_admissionVars
    PROVE  AdmissionTypeOK'
<1> USE AdmissionAssumption DEF AdmissionTypeOK, Steps, Moves
<1>1. CASE \E q \in Requests : CountRecent(q) \/ CheckQuota(q) \/ Dies(q)
  BY <1>1 DEF CountRecent, CheckQuota, Dies
<1>2. CASE \E q \in Requests : Create(q) \/ RecordUsage(q)
  BY <1>2 DEF Create, RecordUsage
<1>3. CASE LeavesWindow \/ SetPlan
  BY <1>3 DEF LeavesWindow, SetPlan
<1>4. CASE UNCHANGED admissionVars
  BY <1>4 DEF admissionVars
<1> QED BY <1>1, <1>2, <1>3, <1>4 DEF AdmissionNext

\* Type correctness of the admission of runs.
THEOREM AdmissionTypeCorrect == AdmissionSpec => []AdmissionTypeOK
<1>1. AdmissionInit => AdmissionTypeOK
  BY AdmissionAssumption DEF AdmissionInit, AdmissionTypeOK, Steps
<1> QED BY <1>1, AdmissionTypeStep, PTL DEF AdmissionSpec

-----------------------------------------------------------------------------
(* Who is in flight.                                                         *)

LEMMA InFlightFinite ==
    /\ IsFiniteSet(InFlight)
    /\ Cardinality(InFlight) \in Nat /\ Cardinality(Requests) \in Nat
    /\ Cardinality(InFlight) <= Cardinality(Requests)
<1>1. InFlight \subseteq Requests
  BY DEF InFlight
<1> QED BY <1>1, AdmissionAssumption, FS_Subset, FS_CardinalityType

\* A request that starts to count was not in flight: with it, all may be.
LEMMA OneMoreInFlight ==
    ASSUME AdmissionTypeOK, NEW q \in Requests, step[q] = "new"
    PROVE  Cardinality(InFlight) < Cardinality(Requests)
<1>1. InFlight \subseteq Requests /\ InFlight # Requests
  BY DEF InFlight
<1> QED BY <1>1, AdmissionAssumption, FS_Subset, FS_CardinalityType

\* A request that is done, or refused, leaves.
LEMMA OneLessInFlight ==
    ASSUME AdmissionTypeOK, NEW q \in InFlight, NEW to \in Steps \ {"counted", "within"},
           Moves(q, to)
    PROVE  Cardinality(InFlight') = Cardinality(InFlight) - 1
<1>1. InFlight' = InFlight \ {q}
  BY DEF InFlight, AdmissionTypeOK, Moves, Steps
<1> QED BY <1>1, InFlightFinite, FS_RemoveElement

LEMMA NoneMoreInFlight ==
    ASSUME InFlight' \subseteq InFlight
    PROVE  Cardinality(InFlight') <= Cardinality(InFlight)
  BY InFlightFinite, FS_Subset

LEMMA OverrunStep ==
    ASSUME AdmissionTypeOK, OverrunInv, [AdmissionNext]_admissionVars
    PROVE  OverrunInv'
<1> DEFINE n == Cardinality(InFlight)
<1> USE InFlightFinite, AdmissionAssumption DEF AdmissionTypeOK, OverrunInv
<1>0. n' \in Nat /\ n' <= Cardinality(Requests)
  <2>1. InFlight' \subseteq Requests
    BY DEF InFlight
  <2> QED BY <2>1, FS_Subset, FS_CardinalityType
<1>1. ASSUME NEW q \in Requests, CountRecent(q)
      PROVE  OverrunInv'
  BY <1>0, <1>1 DEF CountRecent, UnderRateLimit
<1>2. ASSUME NEW q \in Requests, Create(q)
      PROVE  OverrunInv'
  <2>1. q \in InFlight /\ Moves(q, "created") /\ recent' = recent + 1
    BY <1>2 DEF Create, InFlight
  <2>2. n' = n - 1
    BY <2>1, OneLessInFlight DEF Steps
  <2> QED BY <2>1, <2>2
<1>3. ASSUME NEW q \in Requests, CheckQuota(q) \/ RecordUsage(q) \/ Dies(q)
      PROVE  OverrunInv'
  <2>1. InFlight' \subseteq InFlight /\ recent' = recent
    BY <1>3 DEF CheckQuota, RecordUsage, Dies, Moves, InFlight
  <2> QED BY <1>0, <2>1, NoneMoreInFlight
<1>4. CASE LeavesWindow \/ SetPlan \/ UNCHANGED admissionVars
  <2>1. InFlight' = InFlight /\ recent' <= recent /\ recent' \in Nat
    BY <1>4 DEF LeavesWindow, SetPlan, admissionVars, InFlight
  <2> QED BY <1>0, <2>1
<1> QED BY <1>1, <1>2, <1>3, <1>4 DEF AdmissionNext

\* However the statements of concurrent requests interleave, an organisation has
\* fewer recent runs than its limit and the number of requests together.
THEOREM OverrunIsBounded == AdmissionSpec => []OverrunBounded
<1>1. AdmissionInit => OverrunInv
  <2>1. ASSUME AdmissionInit PROVE InFlight = {}
    BY <2>1 DEF AdmissionInit, InFlight
  <2>2. ASSUME AdmissionInit PROVE OverrunInv
    BY <2>1, <2>2, FS_EmptySet, InFlightFinite, AdmissionAssumption DEF AdmissionInit, OverrunInv
  <2> QED BY <2>2
<1>2. AdmissionTypeOK /\ OverrunInv => OverrunBounded
  BY InFlightFinite, AdmissionAssumption DEF AdmissionTypeOK, OverrunInv, OverrunBounded
<1> QED BY <1>1, <1>2, OverrunStep, AdmissionTypeCorrect, PTL DEF AdmissionSpec

------------------------------------------------------------------------------
(* Stored answers.                                                         *)

Row == [org : Orgs \cup {NoOrg}, thread : Threads \cup {"none"},
        goal : SUBSET UNION {GoalOf[t] : t \in Threads},
        cites : SUBSET Threads, depth : 0..MaxDepth, version : Nat,
        active : BOOLEAN, updated : 0..MaxDay, prior : 0..MaxRecords]
State == [step : {"asked", "serve", "research", "gate", "saved", "done"},
          mode : {"none", "cached", "augment"}, prior : 0..MaxRecords,
          cites : SUBSET Threads, depth : 0..MaxDepth, stored : 0..MaxRecords]

LEMMA Typed ==
    KnowledgeTypeOK <=>
      /\ records \in [Ids -> Row] /\ inserted \in 0..MaxRecords
      /\ run \in [Threads -> State]
      /\ deleted \subseteq Threads /\ day \in 0..MaxDay /\ lost \in 0..MaxMishaps
  BY DEF KnowledgeTypeOK, Row, State

\* The bounds are natural numbers.
LEMMA Bounds ==
    /\ MaxRecords \in Nat \ {0} /\ MaxCitations \in Nat /\ MaxDepth \in Nat
    /\ MaxDay \in Nat /\ MaxMishaps \in Nat
  BY KnowledgeAssumption

\* What the invariant says, part by part.
LEMMA Parts ==
    ASSUME KnowledgeInv
    PROVE  /\ records \in [Ids -> Row] /\ inserted \in 0..MaxRecords /\ inserted \in Nat
           /\ run \in [Threads -> State]
           /\ deleted \subseteq Threads /\ day \in 0..MaxDay /\ lost \in 0..MaxMishaps
           /\ PriorsAreOwn /\ RowsInOrder /\ RetiredForGood /\ OrgsApart /\ OneSuccessor
  BY Typed, Bounds DEF KnowledgeInv

\* A row that is at most touched: marked, or retired.
Touched(new, old) ==
    /\ new.org = old.org /\ new.cites = old.cites /\ new.prior = old.prior
    /\ new.active => old.active

LEMMA NewRunTyped == NewRun \in State /\ Over \in State
<1>1. NewRun \in State
  BY KnowledgeAssumption DEF NewRun, State
<1> QED BY <1>1 DEF Over, State

-----------------------------------------------------------------------------
(* What the steps do to the rows.                                            *)

\* Marking a row makes it young and changes nothing else.
LEMMA Marking ==
    ASSUME KnowledgeTypeOK, NEW i \in 0..MaxRecords
    PROVE  /\ Reused(i) \in [Ids -> Row]
           /\ \A j \in Ids : /\ Touched(Reused(i)[j], records[j])
                             /\ Reused(i)[j].active = records[j].active
                             /\ Reused(i)[j].goal = records[j].goal
                             /\ Reused(i)[j].depth = records[j].depth
<1> USE Typed
<1>1. CASE i # 0 /\ records[i].active
  <2>1. Reused(i) = [records EXCEPT ![i].updated = day] /\ i \in Ids
    BY <1>1, KnowledgeAssumption DEF Reused, Ids
  <2>2. [records[i] EXCEPT !.updated = day] \in Row
    BY <2>1 DEF Row
  <2> QED BY <2>1, <2>2 DEF Row, Touched
<1>2. CASE ~(i # 0 /\ records[i].active)
  BY <1>2 DEF Reused, Touched
<1> QED BY <1>1, <1>2

\* A step that touches rows and inserts none keeps all that is said of rows.
LEMMA RowsTouched ==
    ASSUME KnowledgeInv, records' \in [Ids -> Row], inserted' = inserted,
           \A j \in Ids : Touched(records'[j], records[j])
    PROVE  /\ RowsInOrder' /\ RetiredForGood' /\ OneSuccessor'
           /\ \A i \in Ids : \A s \in records'[i].cites : OrgOf[s] = records'[i].org
<1> USE Parts DEF Touched
<1>1. RowsInOrder'
  BY DEF RowsInOrder, Ids
<1>2. RetiredForGood'
  <2>1. SUFFICES ASSUME NEW i \in Ids, records'[i].prior # 0
        PROVE  ~records'[records'[i].prior].active
    BY DEF RetiredForGood
  <2>2. records[i] \in Row /\ records'[i].prior = records[i].prior
    OBVIOUS
  <2>3. records[i].prior \in Ids
    <3>1. records[i].prior \in 0..MaxRecords /\ records[i].prior # 0
      BY <2>1, <2>2 DEF Row
    <3> QED BY <3>1, Bounds DEF Ids
  <2> QED BY <2>1, <2>2, <2>3 DEF RetiredForGood
<1>3. OneSuccessor'
  BY DEF OneSuccessor, Ids
<1> QED BY <1>1, <1>2, <1>3 DEF OrgsApart

\* A run that takes over nothing from elsewhere keeps all that is said of runs,
\* when the rows it may refer to keep their organisations.
LEMMA RunsKept ==
    ASSUME KnowledgeInv, inserted' \in inserted..MaxRecords,
           \A j \in 1..inserted : records'[j].org = records[j].org,
           NEW t \in Threads, NEW r \in State, run' = [run EXCEPT ![t] = r],
           r.mode # "none" \/ r.step = "serve" => r.prior # 0,
           r.prior # 0 => r.prior <= inserted /\ records[r.prior].org = OrgOf[t],
           \A s \in r.cites : OrgOf[s] = OrgOf[t]
    PROVE  /\ run' \in [Threads -> State] /\ PriorsAreOwn'
           /\ \A u \in Threads : \A s \in run'[u].cites : OrgOf[s] = OrgOf[u]
<1> USE Parts, Bounds
<1>1. run' \in [Threads -> State]
  OBVIOUS
<1>2. PriorsAreOwn'
  <2>1. SUFFICES ASSUME NEW u \in Threads
        PROVE /\ run'[u].mode # "none" \/ run'[u].step = "serve" => run'[u].prior # 0
              /\ run'[u].prior # 0 => run'[u].prior <= inserted'
                                      /\ records'[run'[u].prior].org = OrgOf[u]
    BY DEF PriorsAreOwn
  <2>2. run'[u] \in State /\ inserted \in Nat /\ inserted' \in Nat /\ inserted <= inserted'
    BY <1>1
  <2>3. /\ run'[u].mode # "none" \/ run'[u].step = "serve" => run'[u].prior # 0
        /\ run'[u].prior # 0 => run'[u].prior <= inserted
                                /\ records[run'[u].prior].org = OrgOf[u]
    <3>1. CASE u = t
      <4>1. run'[u] = r
        BY <3>1
      <4> QED BY <3>1, <4>1
    <3>2. CASE u # t
      <4>1. run'[u] = run[u]
        BY <3>2
      <4> QED BY <4>1 DEF PriorsAreOwn
    <3> QED BY <3>1, <3>2
  <2>4. run'[u].prior \in Nat
    BY <2>2 DEF State
  <2>5. run'[u].prior # 0 => run'[u].prior \in 1..inserted
    BY <2>2, <2>3, <2>4
  <2>6. run'[u].prior # 0 => run'[u].prior <= inserted'
    BY <2>2, <2>3, <2>4
  <2> QED BY <2>3, <2>5, <2>6
<1>3. \A u \in Threads : \A s \in run'[u].cites : OrgOf[s] = OrgOf[u]
  BY DEF OrgsApart
<1> QED BY <1>1, <1>2, <1>3

-----------------------------------------------------------------------------
(* The steps.                                                                *)

\* A step of a run that touches rows only.
LEMMA RunStep ==
    ASSUME KnowledgeInv, NEW t \in Threads, NEW r \in State, run' = [run EXCEPT ![t] = r],
           r.mode # "none" \/ r.step = "serve" => r.prior # 0,
           r.prior # 0 => r.prior <= inserted /\ records[r.prior].org = OrgOf[t],
           \A s \in r.cites : OrgOf[s] = OrgOf[t],
           records' \in [Ids -> Row], \A j \in Ids : Touched(records'[j], records[j]),
           inserted' = inserted, deleted' = deleted, day' = day, lost' \in 0..MaxMishaps
    PROVE  KnowledgeInv'
<1> USE Parts, Bounds
<1>1. inserted' \in inserted..MaxRecords
  OBVIOUS
<1>2. \A j \in 1..inserted : records'[j].org = records[j].org
  BY Bounds DEF Touched, Ids
<1>3. /\ run' \in [Threads -> State] /\ PriorsAreOwn'
      /\ \A u \in Threads : \A s \in run'[u].cites : OrgOf[s] = OrgOf[u]
  BY <1>1, <1>2, RunsKept
<1>4. /\ RowsInOrder' /\ RetiredForGood' /\ OneSuccessor'
      /\ \A i \in Ids : \A s \in records'[i].cites : OrgOf[s] = records'[i].org
  BY RowsTouched
<1>5. KnowledgeTypeOK'
  BY <1>3 DEF KnowledgeTypeOK, Row, State
<1> QED BY <1>3, <1>4, <1>5 DEF KnowledgeInv, OrgsApart

\* What is known of a run in any reachable state.
LEMMA RunKnown ==
    ASSUME KnowledgeInv, NEW t \in Threads
    PROVE  /\ run[t] \in State
           /\ run[t].mode # "none" \/ run[t].step = "serve" => run[t].prior # 0
           /\ run[t].prior # 0 => /\ run[t].prior \in Ids /\ run[t].prior <= inserted
                                  /\ records[run[t].prior].org = OrgOf[t]
                                  /\ records[run[t].prior] \in Row
           /\ \A s \in run[t].cites : OrgOf[s] = OrgOf[t]
<1> USE Parts, Bounds
<1>1. run[t] \in State
  OBVIOUS
<1>2. run[t].prior \in 0..MaxRecords
  BY <1>1 DEF State
<1>3. run[t].prior # 0 => run[t].prior \in Ids
  BY <1>2 DEF Ids
<1> QED BY <1>1, <1>3 DEF PriorsAreOwn, OrgsApart

LEMMA LookupStep ==
    ASSUME KnowledgeInv, NEW t \in Threads, Lookup(t)
    PROVE  KnowledgeInv'
<1> USE Parts, Bounds
<1>1. run[t] \in State /\ \A s \in run[t].cites : OrgOf[s] = OrgOf[t]
  BY RunKnown
<1>2. \A j \in Ids : Touched(records'[j], records[j])
  BY DEF Lookup, Touched
<1>3. records' \in [Ids -> Row] /\ UNCHANGED <<inserted, deleted, day, lost>>
  BY DEF Lookup
<1>4. CASE Miss(t)
  <2> DEFINE r == [run[t] EXCEPT !.step = "research"]
  <2>1. run' = [run EXCEPT ![t] = r]
    BY <1>4 DEF Miss
  <2>2. /\ r \in State /\ r.prior = run[t].prior /\ r.mode = run[t].mode
        /\ r.cites = run[t].cites /\ r.step = "research"
    BY <1>1 DEF State
  <2>3. /\ run[t].mode # "none" \/ run[t].step = "serve" => run[t].prior # 0
        /\ run[t].prior # 0 => run[t].prior <= inserted /\ records[run[t].prior].org = OrgOf[t]
    BY RunKnown
  <2> HIDE DEF r
  <2> QED BY <1>1, <1>2, <1>3, <2>1, <2>2, <2>3, RunStep
<1>5. CASE \E i \in Ids : /\ i \in OrgRecords(OrgOf[t])
                          /\ \E st \in {"serve", "research"}, mode \in {"cached", "augment"} :
                               run' = [run EXCEPT ![t].step = st, ![t].mode = mode,
                                                  ![t].prior = i]
  <2>1. PICK i \in Ids, st \in {"serve", "research"}, mode \in {"cached", "augment"} :
              /\ i \in OrgRecords(OrgOf[t])
              /\ run' = [run EXCEPT ![t].step = st, ![t].mode = mode, ![t].prior = i]
    BY <1>5
  <2> DEFINE r == [run[t] EXCEPT !.step = st, !.mode = mode, !.prior = i]
  <2>2. run' = [run EXCEPT ![t] = r]
    BY <2>1
  <2>5. i \in 0..MaxRecords /\ i # 0
    BY DEF Ids
  <2>3. r \in State /\ r.prior = i /\ r.mode # "none" /\ r.cites = run[t].cites
    BY <1>1, <2>1, <2>5 DEF State
  <2>4. i <= inserted /\ records[i].org = OrgOf[t]
    BY <2>1 DEF OrgRecords, RowsInOrder
  <2> HIDE DEF r
  <2> QED BY <1>1, <1>2, <1>3, <2>2, <2>3, <2>4, <2>5, RunStep
<1>6. Miss(t) \/ \E i \in Ids : /\ i \in OrgRecords(OrgOf[t])
                          /\ \E st \in {"serve", "research"}, mode \in {"cached", "augment"} :
                               run' = [run EXCEPT ![t].step = st, ![t].mode = mode,
                                                  ![t].prior = i]
  <2> SUFFICES ASSUME ~Miss(t)
      PROVE  \E i \in Ids : /\ i \in OrgRecords(OrgOf[t])
                            /\ \E st \in {"serve", "research"}, mode \in {"cached", "augment"} :
                                 run' = [run EXCEPT ![t].step = st, ![t].mode = mode,
                                                    ![t].prior = i]
    OBVIOUS
  <2>1. PICK ids \in SUBSET Ids : \E i \in ids : \E e \in {"same", "close", "far"} :
              /\ Loaded(OrgOf[t], ids)
              /\ IF Mode(i, t, e) = "none" THEN Miss(t)
                 ELSE run' = [run EXCEPT
                        ![t].step = IF Mode(i, t, e) = "cached" THEN "serve" ELSE "research",
                        ![t].mode = Mode(i, t, e), ![t].prior = i]
    BY DEF Lookup
  <2>2. PICK i \in ids, e \in {"same", "close", "far"} :
              /\ Loaded(OrgOf[t], ids)
              /\ IF Mode(i, t, e) = "none" THEN Miss(t)
                 ELSE run' = [run EXCEPT
                        ![t].step = IF Mode(i, t, e) = "cached" THEN "serve" ELSE "research",
                        ![t].mode = Mode(i, t, e), ![t].prior = i]
    BY <2>1
  <2> DEFINE mode == Mode(i, t, e)
             st == IF mode = "cached" THEN "serve" ELSE "research"
  <2>3. i \in Ids /\ i \in OrgRecords(OrgOf[t])
    BY <2>2 DEF Loaded
  <2>4. mode \in {"cached", "augment"} /\ st \in {"serve", "research"}
    BY <2>2 DEF Mode
  <2>5. run' = [run EXCEPT ![t].step = st, ![t].mode = mode, ![t].prior = i]
    BY <2>2
  <2> HIDE DEF mode, st
  <2> QED BY <2>3, <2>4, <2>5
<1> QED BY <1>4, <1>5, <1>6

LEMMA ServeStep ==
    ASSUME KnowledgeInv, NEW t \in Threads, Serve(t)
    PROVE  KnowledgeInv'
<1> USE Parts, Bounds
<1> DEFINE i == run[t].prior
           r == [run[t] EXCEPT !.step = "gate", !.stored = i,
                               !.cites = records[i].cites, !.depth = records[i].depth]
<1>1. run' = [run EXCEPT ![t] = r] /\ records' = Reused(i)
  BY DEF Serve
<1>2. /\ run[t] \in State /\ i \in Ids /\ i <= inserted /\ records[i].org = OrgOf[t]
      /\ records[i] \in Row
  BY RunKnown DEF Serve
<1>3. i \in 0..MaxRecords
  BY <1>2 DEF Ids
<1>4. r \in State /\ r.prior = i /\ r.cites = records[i].cites
  BY <1>2, <1>3 DEF State, Row
<1>5. i # 0
  BY <1>2 DEF Ids
<1>6. \A s \in r.cites : OrgOf[s] = OrgOf[t]
  BY <1>2, <1>4 DEF OrgsApart
<1>7. records' \in [Ids -> Row] /\ \A j \in Ids : Touched(records'[j], records[j])
  BY <1>1, <1>3, Marking DEF KnowledgeInv
<1>8. UNCHANGED <<inserted, deleted, day, lost>>
  BY DEF Serve
<1> HIDE DEF i, r
<1> QED BY <1>1, <1>2, <1>4, <1>5, <1>6, <1>7, <1>8, RunStep

LEMMA WriteStep ==
    ASSUME KnowledgeInv, NEW t \in Threads, Write(t)
    PROVE  KnowledgeInv'
<1> USE Parts, Bounds
<1>1. PICK depth \in 0..MaxDepth, mode \in {run[t].mode, "none"}, own \in SUBSET {t}, seeded \in SUBSET Threads :
           /\ seeded \subseteq IF run[t].mode = "augment" THEN records[run[t].prior].cites ELSE {}
           /\ run' = [run EXCEPT ![t].step = "gate", ![t].mode = mode, ![t].depth = depth,
                                 ![t].cites = own \cup seeded]
  BY DEF Write
<1> DEFINE cites == own \cup seeded
           r == [run[t] EXCEPT !.step = "gate", !.mode = mode, !.depth = depth, !.cites = cites]
<1>3. run' = [run EXCEPT ![t] = r]
  BY <1>1
<1>4. /\ run[t] \in State
      /\ run[t].mode # "none" \/ run[t].step = "serve" => run[t].prior # 0
      /\ run[t].prior # 0 => /\ run[t].prior \in Ids /\ run[t].prior <= inserted
                             /\ records[run[t].prior].org = OrgOf[t]
  BY RunKnown
<1>5. /\ r \in State /\ r.prior = run[t].prior /\ r.mode \in {run[t].mode, "none"}
      /\ r.cites = cites /\ r.step = "gate"
  BY <1>4 DEF State
<1>6. \A s \in seeded : OrgOf[s] = OrgOf[t]
  BY <1>1, <1>4 DEF OrgsApart
<1>7. \A s \in r.cites : OrgOf[s] = OrgOf[t]
  BY <1>5, <1>6
<1>8. \A j \in Ids : Touched(records'[j], records[j])
  BY DEF Write, Touched
<1>9. records' \in [Ids -> Row] /\ UNCHANGED <<inserted, deleted, day, lost>>
  BY DEF Write
<1> HIDE DEF r
<1> QED BY <1>3, <1>4, <1>5, <1>7, <1>8, <1>9, RunStep

-----------------------------------------------------------------------------
(* Saving an answer.                                                         *)

\* A row that takes over another, and a row that is retired.
LEMMA MergedRow ==
    ASSUME NEW p \in Row, NEW f \in Row, NEW cites \in SUBSET Threads, NEW i \in 0..MaxRecords
    PROVE  LET m == [Merge(p, f, cites) EXCEPT !.prior = i]
           IN  /\ m \in Row /\ m.prior = i /\ m.org = f.org /\ m.active = f.active
               /\ m.cites = cites /\ p.goal \subseteq m.goal /\ m.depth >= p.depth
<1>1. /\ Greater(f.depth, p.depth) \in 0..MaxDepth /\ Greater(f.depth, p.depth) >= p.depth
      /\ p.version + 1 \in Nat
  BY Bounds DEF Row, Greater
<1> DEFINE goal == f.goal \cup p.goal
           depth == Greater(f.depth, p.depth)
           version == p.version + 1
           m == [Merge(p, f, cites) EXCEPT !.prior = i]
<1>2. m = [f EXCEPT !.goal = goal, !.depth = depth, !.version = version,
                    !.cites = cites, !.prior = i]
  BY DEF Merge
<1>3. goal \in SUBSET UNION {GoalOf[t] : t \in Threads} /\ p.goal \subseteq goal
  BY DEF Row
<1> HIDE DEF goal, depth, version, m
<1>4. /\ m \in Row /\ m.prior = i /\ m.org = f.org /\ m.active = f.active
      /\ m.cites = cites /\ m.goal = goal /\ m.depth = depth
  BY <1>1, <1>2, <1>3 DEF Row, depth, version
<1> QED BY <1>1, <1>3, <1>4 DEF m, depth

LEMMA RetiredRow ==
    ASSUME NEW p \in Row, day \in 0..MaxDay
    PROVE  LET q == [p EXCEPT !.active = FALSE, !.updated = day]
           IN  q \in Row /\ ~q.active /\ Touched(q, p)
  BY DEF Row, Touched

LEMMA FreshRow ==
    ASSUME KnowledgeTypeOK, NEW t \in Threads, NEW r \in State
    PROVE  LET f == Fresh(t, r)
           IN  /\ f \in Row /\ f.prior = 0 /\ f.org = OrgOf[t] /\ f.cites = r.cites
               /\ f.active
<1>1. day \in 0..MaxDay /\ r.cites \in SUBSET Threads /\ r.depth \in 0..MaxDepth
  BY DEF KnowledgeTypeOK, State
<1> QED BY <1>1, Bounds DEF Fresh, Row, Orgs

\* What save_answer leaves: one row more, which extends a row that was active
\* and no longer is, or nothing; the other rows as they were.
LEMMA Saving ==
    ASSUME KnowledgeInv, NEW t \in Threads, NEW r \in State, SaveAnswer(t, r),
           r.prior = run[t].prior, \A s \in r.cites : OrgOf[s] = OrgOf[t]
    PROVE  LET id == inserted + 1  i == run[t].prior IN
           /\ id \in Ids /\ inserted' = id /\ records' \in [Ids -> Row]
           /\ \A j \in Ids \ {id} : Touched(records'[j], records[j])
           /\ \A s \in records'[id].cites : OrgOf[s] = records'[id].org
           /\ \/ records'[id].prior = 0 /\ \A j \in Ids \ {id} : records'[j] = records[j]
              \/ /\ records'[id].prior = i /\ i \in Ids /\ i <= inserted
                 /\ records[i].active /\ ~records'[i].active
                 /\ \A j \in Ids \ {i, id} : records'[j] = records[j]
                 /\ records'[id].active /\ records'[id].org = records[i].org
                 /\ records[i].goal \subseteq records'[id].goal
                 /\ records'[id].depth >= records[i].depth
                 /\ records[i].cites \subseteq records'[id].cites
<1> USE Parts, Bounds
<1> DEFINE id == inserted + 1
           i == run[t].prior
           f == Fresh(t, r)
<1>1. id \in Ids /\ inserted' = id
  BY DEF SaveAnswer
<1>2. /\ f \in Row /\ f.prior = 0 /\ f.org = OrgOf[t] /\ f.cites = r.cites /\ f.active
  BY FreshRow DEF KnowledgeInv
<1>3. CASE ~PriorIsActive(t)
  <2>1. records' = [records EXCEPT ![id] = f]
    BY <1>3 DEF SaveAnswer
  <2> HIDE DEF f
  <2> QED BY <1>1, <1>2, <2>1 DEF Touched
<1>4. CASE PriorIsActive(t)
  <2>1. i \in Ids /\ i <= inserted /\ records[i].org = OrgOf[t] /\ records[i].active
    BY <1>4, RunKnown DEF PriorIsActive
  <2>2. PICK cites \in SUBSET Threads :
              /\ JoinedCitations(records[i], f, cites)
              /\ records' = [records EXCEPT
                    ![i].active = FALSE, ![i].updated = day,
                    ![id] = [Merge(records[i], f, cites) EXCEPT !.prior = i]]
    BY <1>4 DEF SaveAnswer
  <2> DEFINE m == [Merge(records[i], f, cites) EXCEPT !.prior = i]
             retired == [records[i] EXCEPT !.active = FALSE, !.updated = day]
  <2> HIDE DEF f
  <2>3. /\ m \in Row /\ m.prior = i /\ m.org = OrgOf[t] /\ m.active /\ m.cites = cites
        /\ records[i].goal \subseteq m.goal /\ m.depth >= records[i].depth
    <3>1. records[i] \in Row /\ i \in 0..MaxRecords
      BY <2>1 DEF Ids
    <3> HIDE DEF i
    <3> QED BY <1>2, <3>1, MergedRow
  <2>4. records[i].cites \subseteq cites /\ cites \subseteq records[i].cites \cup r.cites
    BY <1>2, <2>2 DEF JoinedCitations
  <2>5. \A s \in cites : OrgOf[s] = OrgOf[t]
    BY <2>1, <2>4 DEF OrgsApart
  <2>6. retired \in Row /\ ~retired.active /\ Touched(retired, records[i])
    <3>1. records[i] \in Row /\ day \in 0..MaxDay
      BY <2>1
    <3> HIDE DEF i
    <3> QED BY <3>1, RetiredRow
  <2>7. i # id
    BY <2>1 DEF Ids
  <2>8. records' = [records EXCEPT ![i] = retired, ![id] = m]
    BY <2>1, <2>2, <2>7
  <2> HIDE DEF m, retired
  <2>9. records' \in [Ids -> Row] /\ records'[id] = m /\ records'[i] = retired
        /\ \A j \in Ids \ {i, id} : records'[j] = records[j]
    BY <1>1, <2>1, <2>3, <2>6, <2>7, <2>8
  <2>10. \A j \in Ids \ {id} : Touched(records'[j], records[j])
    BY <2>6, <2>9 DEF Touched
  <2> QED BY <1>1, <2>1, <2>3, <2>4, <2>5, <2>6, <2>9, <2>10
<1> QED BY <1>3, <1>4

\* What is said of rows holds after an answer is saved.
LEMMA RowsSaved ==
    ASSUME KnowledgeInv, NEW t \in Threads, NEW r \in State, SaveAnswer(t, r),
           r.prior = run[t].prior, \A s \in r.cites : OrgOf[s] = OrgOf[t]
    PROVE  /\ RowsInOrder' /\ RetiredForGood' /\ OneSuccessor'
           /\ \A j \in Ids : \A s \in records'[j].cites : OrgOf[s] = records'[j].org
<1> USE Parts, Bounds
<1> DEFINE id == inserted + 1
           i == run[t].prior
<1>1. /\ id \in Ids /\ inserted' = id /\ records' \in [Ids -> Row]
      /\ \A j \in Ids \ {id} : Touched(records'[j], records[j])
      /\ \A s \in records'[id].cites : OrgOf[s] = records'[id].org
  BY Saving
<1>2. \/ records'[id].prior = 0
      \/ records'[id].prior = i /\ i \in Ids /\ i <= inserted
         /\ records[i].active /\ ~records'[i].active
  BY Saving
<1>3. \A j \in Ids : records[j].prior \in 0..inserted /\ records[j] \in Row
  BY DEF RowsInOrder, Row
<1> HIDE DEF id, i
<1>4. inserted < id /\ id \in Nat
  BY DEF id
<1>5. RowsInOrder'
  <2>1. SUFFICES ASSUME NEW j \in Ids
        PROVE  (records'[j].active => j <= id) /\ records'[j].prior <= id
    BY <1>1 DEF RowsInOrder
  <2>2. CASE j = id
    BY <1>2, <1>4, <2>2 DEF Ids
  <2>3. CASE j # id
    BY <1>1, <1>3, <1>4, <2>3 DEF RowsInOrder, Touched, Ids
  <2> QED BY <2>2, <2>3
<1>6. RetiredForGood'
  <2>1. SUFFICES ASSUME NEW j \in Ids, records'[j].prior # 0
        PROVE  ~records'[records'[j].prior].active
    BY DEF RetiredForGood
  <2>2. CASE j = id
    BY <1>2, <2>1, <2>2
  <2>3. CASE j # id
    <3>1. records'[j].prior = records[j].prior
      BY <1>1, <2>3 DEF Touched
    <3>2. records[j].prior \in Ids \ {id}
      BY <1>3, <1>4, <2>1, <3>1 DEF Ids
    <3>3. ~records[records[j].prior].active
      BY <2>1, <3>1 DEF RetiredForGood
    <3> QED BY <1>1, <3>1, <3>2, <3>3 DEF Touched
  <2> QED BY <2>2, <2>3
<1>7. OneSuccessor'
  <2>1. SUFFICES ASSUME NEW j \in Ids, NEW k \in Ids, records'[j].prior # 0,
                        records'[j].prior = records'[k].prior
        PROVE  j = k
    BY DEF OneSuccessor
  <2>2. \A l \in Ids \ {id} : records'[l].prior = records[l].prior
    BY <1>1 DEF Touched
  <2>3. \A l \in Ids \ {id} : records'[l].prior # 0 => records'[l].prior # records'[id].prior
    BY <1>2, <2>2 DEF RetiredForGood
  <2> QED BY <2>1, <2>2, <2>3 DEF OneSuccessor
<1>8. \A j \in Ids : \A s \in records'[j].cites : OrgOf[s] = records'[j].org
  BY <1>1 DEF OrgsApart, Touched
<1> QED BY <1>5, <1>6, <1>7, <1>8

\* A memo that gives way to the stored one carries what that one cites.
LEMMA PreferredKnown ==
    ASSUME KnowledgeInv, NEW t \in Threads, NEW st \in {"saved"}
    PROVE  LET r == Preferred(t)  q == [r EXCEPT !.step = st]
           IN  /\ r \in State /\ q \in State /\ r.prior = run[t].prior
               /\ r.mode = run[t].mode /\ \A s \in r.cites : OrgOf[s] = OrgOf[t]
               /\ q.prior = r.prior /\ q.mode = r.mode /\ q.cites = r.cites
               /\ q.step = "saved"
<1> DEFINE r == Preferred(t)
<1>1. /\ run[t] \in State
      /\ run[t].mode # "none" \/ run[t].step = "serve" => run[t].prior # 0
      /\ run[t].prior # 0 => /\ run[t].prior \in Ids /\ run[t].prior <= inserted
                             /\ records[run[t].prior].org = OrgOf[t]
                             /\ records[run[t].prior] \in Row
      /\ \A s \in run[t].cites : OrgOf[s] = OrgOf[t]
  BY RunKnown
<1>2. r \in State /\ r.prior = run[t].prior /\ r.mode = run[t].mode
      /\ \A s \in r.cites : OrgOf[s] = OrgOf[t]
  <2>1. CASE run[t].mode = "augment" /\ run[t].depth < records[run[t].prior].depth
    <3> DEFINE p == records[run[t].prior]
               cites == IF p.cites = {} THEN run[t].cites ELSE p.cites
    <3>1. p \in Row /\ p.depth \in 0..MaxDepth /\ run[t].prior \in 0..MaxRecords
      BY <1>1, <2>1 DEF Row, State
    <3>2. cites \in SUBSET Threads /\ \A s \in cites : OrgOf[s] = OrgOf[t]
      <4>1. \A s \in p.cites : OrgOf[s] = OrgOf[t]
        BY <1>1, <2>1, Parts DEF OrgsApart
      <4> QED BY <1>1, <3>1, <4>1 DEF Row, State
    <3>3. r = [run[t] EXCEPT !.depth = p.depth, !.stored = run[t].prior, !.cites = cites]
      BY <2>1 DEF Preferred
    <3> HIDE DEF p, cites, r
    <3> QED BY <1>1, <3>1, <3>2, <3>3 DEF State
  <2>2. CASE ~(run[t].mode = "augment" /\ run[t].depth < records[run[t].prior].depth)
    BY <1>1, <2>2 DEF Preferred
  <2> QED BY <2>1, <2>2
<1> HIDE DEF r
<1>3. LET q == [r EXCEPT !.step = st]
      IN  /\ q \in State /\ q.prior = r.prior /\ q.mode = r.mode /\ q.cites = r.cites
          /\ q.step = "saved"
  BY <1>2 DEF State
<1> QED BY <1>2, <1>3 DEF r

LEMMA PersistStep ==
    ASSUME KnowledgeInv, NEW t \in Threads, PersistKnowledge(t)
    PROVE  KnowledgeInv'
<1> USE Parts, Bounds
<1> DEFINE r == Preferred(t)
           q == [r EXCEPT !.step = "saved"]
<1>1. /\ r \in State /\ q \in State /\ r.prior = run[t].prior
      /\ r.mode = run[t].mode /\ \A s \in r.cites : OrgOf[s] = OrgOf[t]
      /\ q.prior = r.prior /\ q.mode = r.mode /\ q.cites = r.cites /\ q.step = "saved"
  BY PreferredKnown
<1>2. /\ run[t].mode # "none" \/ run[t].step = "serve" => run[t].prior # 0
      /\ run[t].prior # 0 => run[t].prior <= inserted /\ records[run[t].prior].org = OrgOf[t]
  BY RunKnown
<1>3. /\ q \in State
      /\ q.mode # "none" \/ q.step = "serve" => q.prior # 0
      /\ q.prior # 0 => q.prior <= inserted /\ records[q.prior].org = OrgOf[t]
      /\ \A s \in q.cites : OrgOf[s] = OrgOf[t]
  <2> HIDE DEF r, q
  <2> QED BY <1>1, <1>2
<1>4. run' = [run EXCEPT ![t] = q] /\ UNCHANGED <<deleted, day, lost>>
  BY DEF PersistKnowledge
<1>5. CASE records' = Reused(r.stored) /\ UNCHANGED inserted
  <2>1. r.stored \in 0..MaxRecords
    BY <1>1 DEF State
  <2>2. records' \in [Ids -> Row] /\ \A j \in Ids : Touched(records'[j], records[j])
    BY <1>5, <2>1, Marking DEF KnowledgeInv
  <2> HIDE DEF r, q
  <2> QED BY <1>4, <1>5, <1>3, <2>2, RunStep
<1>6. CASE UNCHANGED <<records, inserted>>
  <2>1. records' \in [Ids -> Row] /\ \A j \in Ids : Touched(records'[j], records[j])
    BY <1>6 DEF Touched
  <2> HIDE DEF r, q
  <2> QED BY <1>4, <1>6, <1>3, <2>1, RunStep
<1>7. CASE SaveAnswer(t, r)
  <2> HIDE DEF r, q
  <2>1. /\ inserted + 1 \in Ids /\ inserted' = inserted + 1 /\ records' \in [Ids -> Row]
        /\ \A j \in Ids \ {inserted + 1} : Touched(records'[j], records[j])
    BY <1>1, <1>7, Saving
  <2>2. /\ RowsInOrder' /\ RetiredForGood' /\ OneSuccessor'
        /\ \A j \in Ids : \A s \in records'[j].cites : OrgOf[s] = records'[j].org
    BY <1>1, <1>7, RowsSaved
  <2>3. inserted' \in inserted..MaxRecords /\ inserted' \in 0..MaxRecords
    BY <2>1 DEF Ids
  <2>4. \A j \in 1..inserted : records'[j].org = records[j].org
    BY <2>1 DEF Ids, Touched
  <2>5. /\ run' \in [Threads -> State] /\ PriorsAreOwn'
        /\ \A u \in Threads : \A s \in run'[u].cites : OrgOf[s] = OrgOf[u]
    BY <1>4, <1>3, <2>3, <2>4, RunsKept
  <2>6. KnowledgeTypeOK'
    BY <1>4, <2>1, <2>3, <2>5 DEF KnowledgeTypeOK, Row, State
  <2> QED BY <2>2, <2>5, <2>6 DEF KnowledgeInv, OrgsApart
<1> QED BY <1>5, <1>6, <1>7 DEF PersistKnowledge

LEMMA OverStep ==
    ASSUME KnowledgeInv, NEW t \in Threads, Checkpoint(t) \/ RunGateAgain(t)
    PROVE  KnowledgeInv'
<1> USE Parts, Bounds
<1>1. /\ run[t].mode # "none" \/ run[t].step = "serve" => run[t].prior # 0
      /\ run[t].prior # 0 => run[t].prior <= inserted /\ records[run[t].prior].org = OrgOf[t]
      /\ \A s \in run[t].cites : OrgOf[s] = OrgOf[t]
  BY RunKnown
<1>2. /\ records' \in [Ids -> Row] /\ \A j \in Ids : Touched(records'[j], records[j])
      /\ UNCHANGED <<inserted, deleted, day>>
  BY DEF Checkpoint, RunGateAgain, Touched
<1>3. CASE Checkpoint(t)
  <2>1. run' = [run EXCEPT ![t] = Over] /\ lost' \in 0..MaxMishaps
    BY <1>3 DEF Checkpoint
  <2>2. Over \in State /\ Over.mode = "none" /\ Over.step = "done" /\ Over.prior = 0
        /\ Over.cites = {}
    BY NewRunTyped DEF Over, NewRun
  <2> QED BY <1>2, <2>1, <2>2, RunStep
<1>4. CASE RunGateAgain(t)
  <2> DEFINE r == [run[t] EXCEPT !.step = "gate"]
  <2>1. /\ r \in State /\ r.prior = run[t].prior /\ r.mode = run[t].mode
        /\ r.cites = run[t].cites /\ r.step = "gate"
    BY DEF State
  <2>2. run' = [run EXCEPT ![t] = r]
    BY <1>4 DEF RunGateAgain
  <2>3. Cardinality(deleted) \in Nat
    BY KnowledgeAssumption, FS_Subset, FS_CardinalityType
  <2>4. lost' \in 0..MaxMishaps
    BY <1>4, <2>3 DEF RunGateAgain, Mishaps
  <2> HIDE DEF r
  <2> QED BY <1>1, <1>2, <2>1, <2>2, <2>4, RunStep
<1> QED BY <1>3, <1>4

\* A step of no run: rows are touched, or a first one is imported.
LEMMA StillRuns ==
    ASSUME KnowledgeInv, run' = run, records' \in [Ids -> Row],
           \A j \in Ids : Touched(records'[j], records[j]),
           inserted' = inserted, deleted' \subseteq Threads, day' \in 0..MaxDay, lost' = lost
    PROVE  KnowledgeInv'
<1> USE Parts, Bounds
<1>1. /\ RowsInOrder' /\ RetiredForGood' /\ OneSuccessor'
      /\ \A i \in Ids : \A s \in records'[i].cites : OrgOf[s] = records'[i].org
  BY RowsTouched
<1>2. PriorsAreOwn'
  <2>1. SUFFICES ASSUME NEW t \in Threads
        PROVE  /\ run[t].mode # "none" \/ run[t].step = "serve" => run[t].prior # 0
               /\ run[t].prior # 0 => /\ run[t].prior <= inserted
                                      /\ records'[run[t].prior].org = OrgOf[t]
    BY DEF PriorsAreOwn
  <2> QED BY RunKnown DEF Touched
<1>3. KnowledgeTypeOK'
  BY DEF KnowledgeTypeOK, Row, State
<1> QED BY <1>1, <1>2, <1>3 DEF KnowledgeInv, OrgsApart

LEMMA DeleteStep ==
    ASSUME KnowledgeInv, NEW t \in Threads, SoftDeleteRun(t)
    PROVE  KnowledgeInv'
<1> USE Parts, Bounds
<1>1. \A j \in Ids : records'[j] \in Row /\ Touched(records'[j], records[j])
  <2>1. SUFFICES ASSUME NEW j \in Ids
        PROVE  records'[j] \in Row /\ Touched(records'[j], records[j])
    OBVIOUS
  <2>2. records[j] \in Row /\ day \in 0..MaxDay
    OBVIOUS
  <2>3. \/ records'[j] = records[j]
        \/ records'[j] = [records[j] EXCEPT !.active = FALSE, !.updated = day]
    BY DEF SoftDeleteRun
  <2> QED BY <2>2, <2>3, RetiredRow DEF Touched
<1>2. records' \in [Ids -> Row]
  BY <1>1 DEF SoftDeleteRun
<1>3. /\ run' = run /\ inserted' = inserted /\ deleted' \subseteq Threads
      /\ day' \in 0..MaxDay /\ lost' = lost
  BY DEF SoftDeleteRun
<1> QED BY <1>1, <1>2, <1>3, StillRuns

LEMMA ImportedRow ==
    ASSUME NEW t \in Threads, day \in 0..MaxDay
    PROVE  LET new == [NoRecord EXCEPT !.goal = GoalOf[t], !.active = TRUE,
                                       !.version = 1, !.updated = day]
           IN  new \in Row /\ new.cites = {} /\ new.prior = 0
<1>1. NoRecord \in Row
  BY Bounds DEF NoRecord, Row
<1>2. NoRecord.cites = {} /\ NoRecord.prior = 0
  BY DEF NoRecord
<1>3. GoalOf[t] \in SUBSET UNION {GoalOf[u] : u \in Threads}
  OBVIOUS
<1> QED BY <1>1, <1>2, <1>3 DEF Row

LEMMA ImportStep ==
    ASSUME KnowledgeInv, Import
    PROVE  KnowledgeInv'
<1> USE Parts, Bounds
<1>1. PICK t \in Threads :
        records' = [records EXCEPT ![1] = [NoRecord EXCEPT !.goal = GoalOf[t], !.active = TRUE,
                                                          !.version = 1, !.updated = day]]
  BY DEF Import
<1> DEFINE new == [NoRecord EXCEPT !.goal = GoalOf[t], !.active = TRUE,
                                   !.version = 1, !.updated = day]
<1>2. new \in Row /\ new.cites = {} /\ new.prior = 0
  BY ImportedRow
<1>3. /\ inserted = 0 /\ inserted' = 1 /\ UNCHANGED <<run, deleted, day, lost>>
      /\ records' = [records EXCEPT ![1] = new]
  BY <1>1 DEF Import
<1> HIDE DEF new
<1>4. \A j \in Ids : records[j].prior = 0 /\ ~records[j].active /\ records[j] \in Row
  <2>1. \A j \in Ids : records[j] \in Row /\ records[j].prior \in Nat /\ j \in Nat /\ j >= 1
    BY DEF Row, Ids
  <2> QED BY <1>3, <2>1 DEF RowsInOrder
<1>5. \A j \in Ids : /\ records'[j].prior = 0 /\ (records'[j].active => j = 1)
                     /\ records'[j] \in Row
                     /\ \A s \in records'[j].cites : OrgOf[s] = records'[j].org
  BY <1>2, <1>3, <1>4 DEF OrgsApart
<1>6. \A u \in Threads : /\ run[u].prior = 0 /\ run[u].mode = "none" /\ run[u].step # "serve"
  <2>1. \A u \in Threads : run[u].prior # 0 => run[u].prior \in Ids /\ run[u].prior <= inserted
    BY RunKnown
  <2>2. \A u \in Threads : run[u].prior = 0
    BY <1>3, <2>1 DEF Ids
  <2> QED BY <2>2 DEF PriorsAreOwn
<1>7. records' \in [Ids -> Row] /\ inserted' \in 0..MaxRecords
  BY <1>2, <1>3 DEF Ids
<1>8. KnowledgeTypeOK'
  BY <1>3, <1>7 DEF KnowledgeTypeOK, Row, State
<1>9. PriorsAreOwn' /\ OrgsApart'
  BY <1>3, <1>5, <1>6 DEF PriorsAreOwn, OrgsApart
<1>10. RowsInOrder' /\ RetiredForGood' /\ OneSuccessor'
  BY <1>3, <1>5 DEF RowsInOrder, RetiredForGood, OneSuccessor
<1> QED BY <1>8, <1>9, <1>10 DEF KnowledgeInv

LEMMA KnowledgeStep ==
    ASSUME KnowledgeInv, [KnowledgeNext]_knowledgeVars
    PROVE  KnowledgeInv'
<1>1. CASE \E t \in Threads : Lookup(t) \/ Serve(t) \/ Write(t) \/ PersistKnowledge(t)
  BY <1>1, LookupStep, ServeStep, WriteStep, PersistStep
<1>2. CASE \E t \in Threads : Checkpoint(t) \/ RunGateAgain(t) \/ SoftDeleteRun(t)
  BY <1>2, OverStep, DeleteStep
<1>3. CASE Import
  BY <1>3, ImportStep
<1>4. CASE NextDay \/ UNCHANGED knowledgeVars
  <2>1. \A j \in Ids : Touched(records[j], records[j])
    BY DEF Touched
  <2>2. records' = records /\ run' = run /\ inserted' = inserted /\ deleted' = deleted
        /\ lost' = lost
    BY <1>4 DEF NextDay, knowledgeVars
  <2>3. day' \in 0..MaxDay
    BY <1>4, Parts, Bounds DEF NextDay, knowledgeVars
  <2>4. records' \in [Ids -> Row] /\ deleted' \subseteq Threads
    BY <2>2, Parts
  <2> QED BY <2>1, <2>2, <2>3, <2>4, StillRuns
<1> QED BY <1>1, <1>2, <1>3, <1>4 DEF KnowledgeNext

LEMMA KnowledgeStart == KnowledgeInit => KnowledgeInv
<1> SUFFICES ASSUME KnowledgeInit PROVE KnowledgeInv
  OBVIOUS
<1>1. NoRecord \in Row /\ NoRecord.prior = 0 /\ ~NoRecord.active /\ NoRecord.cites = {}
  BY Bounds DEF NoRecord, Row
<1>2. /\ NewRun \in State /\ NewRun.mode = "none" /\ NewRun.step = "asked"
      /\ NewRun.prior = 0 /\ NewRun.cites = {}
  BY NewRunTyped DEF NewRun
<1>3. /\ records = [i \in Ids |-> NoRecord] /\ inserted = 0
      /\ run = [t \in Threads |-> NewRun] /\ deleted = {} /\ day = 0 /\ lost = 0
  BY DEF KnowledgeInit
<1>4. KnowledgeTypeOK
  BY <1>1, <1>2, <1>3, Typed, Bounds
<1>5. PriorsAreOwn /\ OrgsApart
  BY <1>1, <1>2, <1>3 DEF PriorsAreOwn, OrgsApart
<1>6. RowsInOrder /\ RetiredForGood /\ OneSuccessor
  BY <1>1, <1>3 DEF RowsInOrder, RetiredForGood, OneSuccessor
<1> QED BY <1>4, <1>5, <1>6 DEF KnowledgeInv

-----------------------------------------------------------------------------
(* The theorems.                                                             *)

\* Runs refer to rows of their own organisation that were there before them,
\* and a row that has a successor is never served again.
THEOREM KnowledgeInvariance == KnowledgeSpec => []KnowledgeInv
<1> QED BY KnowledgeStart, KnowledgeStep, PTL DEF KnowledgeSpec

\* Type correctness of the knowledge store.
THEOREM KnowledgeTypeCorrect == KnowledgeSpec => []KnowledgeTypeOK
<1>1. KnowledgeInv => KnowledgeTypeOK
  BY DEF KnowledgeInv
<1> QED BY <1>1, KnowledgeInvariance, PTL

\* What was found for one organisation reaches no memo and no stored answer of
\* another, however many runs seed, merge and store.
THEOREM OrganisationsStayApart == KnowledgeSpec => []OrgsApart
<1>1. KnowledgeInv => OrgsApart
  BY DEF KnowledgeInv
<1> QED BY <1>1, KnowledgeInvariance, PTL

\* A stored answer has one successor, whichever runs and attempts publish at a
\* time.
THEOREM LinesNeverFork == KnowledgeSpec => []OneSuccessor
<1>1. KnowledgeInv => OneSuccessor
  BY DEF KnowledgeInv
<1> QED BY <1>1, KnowledgeInvariance, PTL

-----------------------------------------------------------------------------
(* The store never gets worse.                                               *)

\* Row j of the new state can serve what an active row p could.
Succeeds(j, p) ==
    /\ records'[j].active /\ records'[j].org = p.org
    /\ p.goal \subseteq records'[j].goal /\ records'[j].depth >= p.depth
    /\ p.cites \subseteq records'[j].cites

Kept ==
    \A i \in Ids : records[i].active => \E j \in Ids : Succeeds(j, records[i])

LEMMA SameRowsKept ==
    ASSUME KnowledgeInv,
           \A i \in Ids : /\ Touched(records'[i], records[i])
                          /\ records'[i].active = records[i].active
                          /\ records'[i].goal = records[i].goal
                          /\ records'[i].depth = records[i].depth
    PROVE  Kept
<1>1. SUFFICES ASSUME NEW i \in Ids, records[i].active
      PROVE  Succeeds(i, records[i])
  BY DEF Kept
<1>2. records[i].depth \in Nat
  BY Parts, Bounds DEF Row
<1> QED BY <1>1, <1>2 DEF Succeeds, Touched

LEMMA UnchangedKept ==
    ASSUME KnowledgeInv, records' = records
    PROVE  Kept
  BY SameRowsKept DEF Touched

LEMMA SavedKept ==
    ASSUME KnowledgeInv, NEW t \in Threads, NEW r \in State, SaveAnswer(t, r),
           r.prior = run[t].prior, \A s \in r.cites : OrgOf[s] = OrgOf[t]
    PROVE  Kept
<1> DEFINE id == inserted + 1
           i == run[t].prior
<1>1. /\ id \in Ids
      /\ \/ \A j \in Ids \ {id} : records'[j] = records[j]
         \/ /\ i \in Ids /\ i <= inserted
            /\ \A j \in Ids \ {i, id} : records'[j] = records[j]
            /\ records'[id].active /\ records'[id].org = records[i].org
            /\ records[i].goal \subseteq records'[id].goal
            /\ records'[id].depth >= records[i].depth
            /\ records[i].cites \subseteq records'[id].cites
  BY Saving
<1>2. ~records[id].active
  BY <1>1, Parts, Bounds DEF RowsInOrder, Ids
<1> HIDE DEF id, i
<1>3. SUFFICES ASSUME NEW k \in Ids, records[k].active
      PROVE  \E j \in Ids : Succeeds(j, records[k])
  BY DEF Kept
<1>4. k # id /\ records[k].depth \in Nat
  BY <1>2, <1>3, Parts, Bounds DEF Row
<1>5. records'[k] = records[k] => Succeeds(k, records[k])
  BY <1>3, <1>4 DEF Succeeds
<1>6. CASE records'[k] = records[k]
  BY <1>5, <1>6
<1>7. CASE records'[k] # records[k]
  <2>1. k = i /\ Succeeds(id, records[k])
    BY <1>1, <1>4, <1>7 DEF Succeeds
  <2> QED BY <1>1, <2>1
<1> QED BY <1>6, <1>7

LEMMA PersistKept ==
    ASSUME KnowledgeInv, NEW t \in Threads, PersistKnowledge(t)
    PROVE  Kept
<1> DEFINE r == Preferred(t)
<1>1. /\ r \in State /\ r.prior = run[t].prior /\ \A s \in r.cites : OrgOf[s] = OrgOf[t]
  BY PreferredKnown
<1>2. \/ records' = Reused(r.stored)
      \/ records' = records
      \/ SaveAnswer(t, r)
  BY DEF PersistKnowledge
<1> HIDE DEF r
<1>3. CASE records' = Reused(r.stored)
  <2>1. r.stored \in 0..MaxRecords
    BY <1>1 DEF State
  <2> QED BY <1>3, <2>1, Marking, SameRowsKept DEF KnowledgeInv
<1>4. CASE records' = records
  BY <1>4, UnchangedKept
<1>5. CASE SaveAnswer(t, r)
  BY <1>1, <1>5, SavedKept
<1> QED BY <1>2, <1>3, <1>4, <1>5

LEMMA ServeKept ==
    ASSUME KnowledgeInv, NEW t \in Threads, Serve(t)
    PROVE  Kept
<1>1. run[t].prior \in 0..MaxRecords /\ records' = Reused(run[t].prior)
  BY RunKnown DEF Serve, State
<1> QED BY <1>1, Marking, SameRowsKept DEF KnowledgeInv

LEMMA ImportKept ==
    ASSUME KnowledgeInv, Import
    PROVE  Kept
<1>1. \A i \in Ids : ~records[i].active
  BY Parts DEF Import, RowsInOrder, Ids
<1> QED BY <1>1 DEF Kept

\* What the store can serve loses neither depth nor sources to a run that
\* publishes, whichever others do at the same time; only a deletion takes
\* something out of it.
THEOREM StoreOnlyImproves == KnowledgeSpec => StoreNeverRegresses
<1>1. ASSUME KnowledgeInv, [KnowledgeNext]_knowledgeVars
      PROVE  deleted' # deleted \/ Kept
  <2>1. CASE \E t \in Threads : Lookup(t) \/ Write(t) \/ Checkpoint(t) \/ RunGateAgain(t)
    BY <1>1, <2>1, UnchangedKept DEF Lookup, Write, Checkpoint, RunGateAgain
  <2>2. CASE \E t \in Threads : Serve(t) \/ PersistKnowledge(t)
    BY <1>1, <2>2, ServeKept, PersistKept
  <2>3. CASE \E t \in Threads : SoftDeleteRun(t)
    BY <2>3 DEF SoftDeleteRun
  <2>4. CASE Import
    BY <1>1, <2>4, ImportKept
  <2>5. CASE NextDay \/ UNCHANGED knowledgeVars
    BY <1>1, <2>5, UnchangedKept DEF NextDay, knowledgeVars
  <2> QED BY <1>1, <2>1, <2>2, <2>3, <2>4, <2>5 DEF KnowledgeNext
<1>2. ASSUME KnowledgeInv, [KnowledgeNext]_knowledgeVars
      PROVE  [deleted' # deleted \/
              \A i \in Ids : records[i].active =>
                 \E j \in Ids : /\ records'[j].active /\ records'[j].org = records[i].org
                                /\ records[i].goal \subseteq records'[j].goal
                                /\ records'[j].depth >= records[i].depth
                                /\ records[i].cites \subseteq records'[j].cites]_knowledgeVars
  BY <1>1, <1>2 DEF Kept, Succeeds
<1> QED BY <1>2, KnowledgeInvariance, PTL DEF KnowledgeSpec, StoreNeverRegresses
=============================================================================
