---------------------------- MODULE CorpusProofs ----------------------------
(***************************************************************************)
(* Proofs about Corpus, for any scopes, documents, models and number of    *)
(* ingests at a time.                                                      *)
(***************************************************************************)
EXTENDS Corpus, TLAPS

\* What the step of an ingest leaves of the scopes that are not its own: all of
\* it, or their rows only when it drops their vectors.
Untouched(s) ==
    /\ table'[s] = table[s] /\ synced'[s] = synced[s]
    /\ s \in overtaken' <=> s \in overtaken
    /\ s \in dropped' \/ (points'[s] = points[s] /\ s \notin dropped)

LEMMA ScopeTypes ==
    ASSUME CorpusTypeOK, NEW s \in Scopes
    PROVE  /\ \A d \in Docs : /\ table[s][d] \in [active : BOOLEAN, gen : Nat,
                                                 model : Models \cup {"none"}]
                              /\ points[s][d] \in [gen : Nat, model : Models \cup {"none"}]
                              /\ table[s][d].gen \in Nat
           /\ table[s] \in [Docs -> [active : BOOLEAN, gen : Nat, model : Models \cup {"none"}]]
           /\ points[s] \in [Docs -> [gen : Nat, model : Models \cup {"none"}]]
  BY DEF CorpusTypeOK

LEMMA Latest ==
    ASSUME CorpusTypeOK, NEW s \in Scopes,
           \E g \in Generations(s) : \A h \in Generations(s) : h <= g
    PROVE  /\ LatestGen(s) \in Generations(s) /\ LatestGen(s) \in Nat
           /\ \A h \in Generations(s) : h <= LatestGen(s)
<1>1. LatestGen(s) \in Generations(s) /\ \A h \in Generations(s) : h <= LatestGen(s)
  BY DEF LatestGen
<1>2. Generations(s) \subseteq Nat
  BY ScopeTypes DEF Generations
<1> QED BY <1>1, <1>2

\* A step that does not touch what the search finds in a scope.
LEMMA PlacedKept ==
    ASSUME NEW s \in Scopes, table'[s] = table[s], points'[s] = points[s]
    PROVE  /\ Placed(s)' <=> Placed(s)
           /\ ActiveDocs(s)' = ActiveDocs(s)
           /\ Generations(s)' = Generations(s)
  BY DEF Placed, ActiveDocs, Generations

LEMMA RowsKept ==
    ASSUME NEW s \in Scopes, table'[s] = table[s]
    PROVE  /\ ActiveDocs(s)' = ActiveDocs(s)
           /\ NewestIsActive(s)' <=> NewestIsActive(s)
<1>1. ActiveDocs(s)' = ActiveDocs(s) /\ Generations(s)' = Generations(s)
  BY DEF ActiveDocs, Generations
<1> QED BY <1>1 DEF NewestIsActive

\* One ingest moves, within its scope.
LEMMA OneIngest ==
    ASSUME CorpusTypeOK, NEW p \in Syncers, NEW c \in Ingest, sync' = [sync EXCEPT ![p] = c]
    PROVE  /\ sync'[p] = c /\ sync' \in [Syncers -> Ingest]
           /\ \A q \in Syncers \ {p} : sync'[q] = sync[q]
  BY DEF CorpusTypeOK

\* A step of one ingest disturbs no other, and no other scope.
LEMMA ScopeStep ==
    ASSUME CorpusInv, CorpusTypeOK', NEW p \in Syncers, NEW s0 \in Scopes, NEW c \in Ingest,
           sync' = [sync EXCEPT ![p] = c],
           sync[p].scope \in {s0, "none"}, c.scope \in {s0, "none"},
           Alone(p, s0) \/ s0 \in overtaken',
           \A s \in Scopes \ {s0} : Untouched(s),
           NewestIsActive(s0)', CompletedKept(s0)', IngestKept(p)'
    PROVE  CorpusInv'
<1>1. CorpusTypeOK /\ "none" \notin Scopes
  BY CorpusAssumption DEF CorpusInv
<1>2. /\ sync'[p] = c
      /\ \A q \in Syncers \ {p} : sync'[q] = sync[q]
  BY <1>1, OneIngest
<1>3. ASSUME NEW s \in Scopes, s # s0 PROVE NewestIsActive(s)' /\ CompletedKept(s)'
  <2>1. Untouched(s) /\ NewestIsActive(s) /\ CompletedKept(s)
    BY <1>3 DEF CorpusInv
  <2>2. NewestIsActive(s)'
    BY <2>1, RowsKept DEF Untouched
  <2>3. CompletedKept(s)'
    BY <2>1, PlacedKept DEF Untouched, CompletedKept
  <2> QED BY <2>2, <2>3
<1>4. ASSUME NEW q \in Syncers, q # p PROVE IngestKept(q)'
  <2>1. sync'[q] = sync[q] /\ IngestKept(q)
    BY <1>2, <1>4 DEF CorpusInv
  <2>2. CASE sync[q].step = "idle"
    BY <2>1, <2>2 DEF IngestKept, Ingesting, Prepared
  <2>3. CASE sync[q].step # "idle" /\ sync[q].scope = s0
    <3>1. s0 \in overtaken'
      BY <1>4, <2>3 DEF Alone
    <3>2. sync[q].step \in Prepared => sync[q].model \in Models /\ 1 <= sync[q].gen
      BY <2>1 DEF IngestKept
    <3> QED BY <2>1, <2>3, <3>1, <3>2 DEF IngestKept, Ingesting
  <2>4. ASSUME sync[q].step # "idle", NEW s \in Scopes \ {s0}, s = sync[q].scope
        PROVE  IngestKept(q)'
    <3>1. Untouched(s) /\ (Alone(q, s) \/ s \in overtaken)
      BY <2>1, <2>4 DEF IngestKept
    <3>2. Alone(q, s)' \/ s \in overtaken'
      BY <1>1, <1>2, <2>1, <2>4, <3>1 DEF Alone, Untouched
    <3>3. ActiveDocs(s)' = ActiveDocs(s)
      BY <3>1, RowsKept DEF Untouched
    <3>4. s \notin dropped' => (Placed(s)' <=> Placed(s))
      BY <3>1, PlacedKept DEF Untouched
    <3> QED BY <2>1, <2>4, <3>1, <3>2, <3>3, <3>4 DEF IngestKept, Ingesting, Untouched
  <2>5. sync[q].step # "idle" => sync[q].scope \in Scopes
    BY <2>1 DEF IngestKept
  <2> QED BY <2>2, <2>3, <2>4, <2>5
<1> QED BY <1>3, <1>4 DEF CorpusInv

LEMMA Acting ==
    ASSUME CorpusInv, NEW p \in Syncers, sync[p].step # "idle"
    PROVE  /\ CorpusTypeOK /\ sync[p] \in Ingest /\ sync[p].scope \in Scopes
           /\ IngestKept(p) /\ NewestIsActive(sync[p].scope) /\ CompletedKept(sync[p].scope)
           /\ Alone(p, sync[p].scope) \/ sync[p].scope \in overtaken
<1>1. CorpusTypeOK /\ IngestKept(p) /\ sync[p] \in Ingest
  BY DEF CorpusInv, CorpusTypeOK
<1>2. sync[p].scope \in Scopes /\ (Alone(p, sync[p].scope) \/ sync[p].scope \in overtaken)
  BY <1>1 DEF IngestKept
<1> QED BY <1>1, <1>2 DEF CorpusInv

LEMMA Moved ==
    ASSUME CorpusTypeOK, NEW p \in Syncers, NEW c \in Ingest, sync' = [sync EXCEPT ![p] = c]
    PROVE  /\ sync'[p] = c /\ sync' \in [Syncers -> Ingest]
           /\ \A s \in Scopes : Alone(p, s)' <=> Alone(p, s)
  BY OneIngest DEF Alone

LEMMA IdleTypes == Idle \in Ingest /\ \A s \in Scopes : Indexed(s) \in Ingest
  BY DEF Idle, Indexed, Ingest

LEMMA ReadFilesKeeps ==
    ASSUME CorpusInv, NEW p \in Syncers, NEW s \in Scopes, ReadFiles(p, s)
    PROVE  CorpusInv'
<1> DEFINE c == [Idle EXCEPT !.step = "read", !.scope = s, !.docs = disk[s]]
<1>1. CorpusTypeOK /\ IngestKept(p) /\ NewestIsActive(s) /\ CompletedKept(s)
  BY DEF CorpusInv
<1>2. disk[s] \in SUBSET Docs
  BY <1>1 DEF CorpusTypeOK
<1>3. c \in Ingest /\ c.step = "read" /\ c.scope = s
  BY <1>2, IdleTypes DEF Idle, Ingest
<1>4. sync' = [sync EXCEPT ![p] = c] /\ sync[p].scope = "none"
  BY <1>1 DEF ReadFiles, IngestKept
<1> HIDE DEF c
<1>5. sync'[p] = c /\ sync' \in [Syncers -> Ingest] /\ (Alone(p, s)' <=> Alone(p, s))
  BY <1>1, <1>3, <1>4, Moved
<1>6. CorpusTypeOK'
  BY <1>1, <1>5 DEF CorpusTypeOK, ReadFiles
<1>7. Alone(p, s) \/ s \in overtaken'
  BY DEF ReadFiles
<1>8. IngestKept(p)'
  BY <1>3, <1>5, <1>7 DEF IngestKept, Ingesting, Prepared
<1>9. NewestIsActive(s)' /\ CompletedKept(s)'
  BY <1>1, RowsKept, PlacedKept DEF ReadFiles, CompletedKept
<1>10. \A t \in Scopes \ {s} : Untouched(t)
  BY DEF ReadFiles, Untouched
<1> QED
  BY <1>3, <1>4, <1>6, <1>7, <1>8, <1>9, <1>10, ScopeStep

\* The step of an ingest that is under way and stays so.
LEMMA StepWithin ==
    ASSUME CorpusInv, CorpusTypeOK', NEW p \in Syncers, NEW s \in Scopes, NEW c \in Ingest,
           sync[p].step # "idle", sync[p].scope = s,
           sync' = [sync EXCEPT ![p] = c], c.scope = s, c.step # "idle",
           \A t \in Scopes \ {s} : Untouched(t),
           Alone(p, s) \/ s \in overtaken',
           NewestIsActive(s)', CompletedKept(s)',
           c.step \in Prepared => c.model \in Models /\ 1 <= c.gen,
           c.step \in Prepared /\ s \notin overtaken' =>
               ActiveDocs(s)' = c.docs /\ \A d \in c.docs : table'[s][d].gen = c.gen
                                                         /\ table'[s][d].model = c.model,
           c.step \in Prepared \cup {"indexed"} /\ s \notin overtaken'
               => synced'[s] = "running",
           c.step \in {"upserted", "indexed"} /\ s \notin overtaken' /\ s \notin dropped'
               => Placed(s)'
    PROVE  CorpusInv'
<1>1. CorpusTypeOK
  BY DEF CorpusInv
<1>2. sync'[p] = c /\ (Alone(p, s)' <=> Alone(p, s))
  BY <1>1, Moved
<1>3. IngestKept(p)'
  BY <1>2 DEF IngestKept, Ingesting
<1> QED BY <1>3, ScopeStep

\* An ingest ends, or gives up; some of its points may be in by then.
LEMMA StepOut ==
    ASSUME CorpusInv, NEW p \in Syncers, NEW s \in Scopes,
           sync[p].step # "idle", sync[p].scope = s,
           sync' = [sync EXCEPT ![p] = Idle],
           synced' = synced \/ \E r \in {"failed", "completed"} : synced' = [synced EXCEPT ![s] = r],
           synced'[s] = "completed" =>
              points' = points /\ (synced[s] = "completed" \/ sync[p].step = "indexed"),
           points' \in [Scopes -> [Docs -> [gen : Nat, model : Models \cup {"none"}]]],
           \A t \in Scopes \ {s} : points'[t] = points[t],
           UNCHANGED <<disk, model, table, collection, dropped, overtaken, edits>>
    PROVE  CorpusInv'
<1>1. /\ CorpusTypeOK /\ IngestKept(p) /\ NewestIsActive(s) /\ CompletedKept(s)
      /\ Alone(p, s) \/ s \in overtaken
  BY Acting
<1>2. Idle \in Ingest /\ Idle.scope = "none" /\ Idle.step = "idle"
  BY IdleTypes DEF Idle
<1>3. sync'[p] = Idle /\ sync' \in [Syncers -> Ingest]
  BY <1>1, <1>2, Moved
<1>4. /\ synced' \in [Scopes -> {"none", "running", "completed", "failed"}]
      /\ \A t \in Scopes \ {s} : synced'[t] = synced[t]
  BY <1>1 DEF CorpusTypeOK
<1>5. CorpusTypeOK'
  BY <1>1, <1>3, <1>4 DEF CorpusTypeOK
<1>6. IngestKept(p)'
  BY <1>2, <1>3 DEF IngestKept, Ingesting, Prepared
<1>7. NewestIsActive(s)' /\ (points' = points => (Placed(s)' <=> Placed(s)))
  BY <1>1, RowsKept, PlacedKept
<1>8. CompletedKept(s)'
  BY <1>1, <1>7 DEF CompletedKept, IngestKept, Ingesting
<1>9. \A t \in Scopes \ {s} : Untouched(t)
  BY <1>4 DEF Untouched
<1> QED
  BY <1>1, <1>2, <1>5, <1>6, <1>7, <1>8, <1>9, ScopeStep

\* What an ingest that has committed knows of itself and of its scope.
LEMMA Preparing ==
    ASSUME CorpusInv, NEW p \in Syncers, NEW s \in Scopes, s = sync[p].scope,
           sync[p].step \in Prepared
    PROVE  /\ sync[p] \in Ingest /\ sync[p].model \in Models
           /\ sync[p].gen \in Nat /\ 1 <= sync[p].gen
           /\ CorpusTypeOK /\ IngestKept(p) /\ NewestIsActive(s) /\ CompletedKept(s)
           /\ Alone(p, s) \/ s \in overtaken
           /\ s \notin overtaken =>
                /\ ActiveDocs(s) = sync[p].docs /\ synced[s] = "running"
                /\ \A d \in sync[p].docs : /\ table[s][d].gen = sync[p].gen
                                           /\ table[s][d].model = sync[p].model
<1>1. /\ sync[p] \in Ingest
      /\ CorpusTypeOK /\ IngestKept(p) /\ NewestIsActive(s) /\ CompletedKept(s)
      /\ Alone(p, s) \/ s \in overtaken
  BY Acting DEF Prepared
<1>2. sync[p].gen \in Nat
  BY <1>1 DEF Ingest
<1> QED BY <1>1, <1>2 DEF IngestKept, Ingesting

\* An ingest takes a step between its two writes to the table: it reads or writes
\* Qdrant and keeps what it knows.
LEMMA StepPrepared ==
    ASSUME CorpusInv, NEW p \in Syncers, NEW s \in Scopes, s = sync[p].scope,
           sync[p].step \in Prepared, NEW c \in Ingest,
           sync' = [sync EXCEPT ![p] = c], c.step \in Prepared, c.scope = s,
           c.docs = sync[p].docs, c.gen = sync[p].gen, c.model = sync[p].model,
           points' \in [Scopes -> [Docs -> [gen : Nat, model : Models \cup {"none"}]]],
           collection' \in Nat, dropped' \subseteq Scopes,
           \A t \in Scopes \ {s} : t \in dropped' \/ (points'[t] = points[t] /\ t \notin dropped),
           c.step = "upserted" =>
              \A d \in Docs : d \in c.docs => points'[s][d] = [gen |-> c.gen, model |-> c.model],
           UNCHANGED <<disk, model, table, synced, overtaken, edits>>
    PROVE  CorpusInv'
<1>1. /\ CorpusTypeOK /\ NewestIsActive(s) /\ (Alone(p, s) \/ s \in overtaken)
      /\ c.model \in Models /\ 1 <= c.gen
      /\ s \notin overtaken =>
            /\ ActiveDocs(s) = c.docs /\ synced[s] = "running"
            /\ \A d \in c.docs : table[s][d].gen = c.gen /\ table[s][d].model = c.model
  BY Preparing
<1>2. sync' \in [Syncers -> Ingest]
  BY <1>1, Moved
<1>3. CorpusTypeOK'
  BY <1>1, <1>2 DEF CorpusTypeOK
<1>4. ActiveDocs(s)' = ActiveDocs(s) /\ NewestIsActive(s)' /\ ActiveDocs(s) \subseteq Docs
  BY <1>1, RowsKept DEF ActiveDocs
<1>5. CompletedKept(s)'
  BY <1>1 DEF CompletedKept
<1>6. \A t \in Scopes \ {s} : Untouched(t)
  BY DEF Untouched
<1>7. c.step = "upserted" /\ s \notin overtaken => Placed(s)'
  BY <1>1, <1>4 DEF Placed
<1>8. sync[p].step # "idle" /\ c.step # "idle" /\ c.step # "indexed"
  BY DEF Prepared
<1>9. s \notin overtaken' =>
          /\ ActiveDocs(s)' = c.docs /\ synced'[s] = "running"
          /\ \A d \in c.docs : table'[s][d].gen = c.gen /\ table'[s][d].model = c.model
  BY <1>1, <1>4
<1> QED
  BY <1>1, <1>3, <1>4, <1>5, <1>6, <1>7, <1>8, <1>9, StepWithin

LEMMA InspectKeeps ==
    ASSUME CorpusInv, NEW p \in Syncers, NEW s \in Scopes, s = sync[p].scope, Inspect(p)
    PROVE  CorpusInv'
<1>1. sync[p].step \in Prepared
  BY DEF Inspect, Prepared
<1>2. CorpusTypeOK /\ sync[p] \in Ingest /\ sync[p].model \in Models
  BY <1>1, Preparing
<1>3. PICK first \in sync[p].docs, by \in [sync[p].docs -> {sync[p].model, Hash}] :
         sync' = [sync EXCEPT ![p] = [sync[p] EXCEPT
            !.step = IF ~(sync[p].rebuild \/ collection # Dim[by[first]]) THEN "upsert"
                     ELSE IF collection = 0 THEN "create" ELSE "delete",
            !.rebuild = FALSE, !.size = Dim[by[first]],
            !.fit = {d \in sync[p].docs : Dim[by[d]] = Dim[by[first]]}]]
  BY DEF Inspect
<1> DEFINE size == Dim[by[first]]
           fit == {d \in sync[p].docs : Dim[by[d]] = size}
           step == IF ~(sync[p].rebuild \/ collection # size) THEN "upsert"
                   ELSE IF collection = 0 THEN "create" ELSE "delete"
           c == [sync[p] EXCEPT !.step = step, !.rebuild = FALSE, !.size = size, !.fit = fit]
<1>4. size \in Nat
  BY <1>2, <1>3, CorpusAssumption
<1>5. fit \in SUBSET Docs
  BY <1>2 DEF Ingest
<1>6. step \in {"upsert", "create", "delete"}
  OBVIOUS
<1>7. sync' = [sync EXCEPT ![p] = c]
  BY <1>3
<1> HIDE DEF size, fit, step
<1>8. /\ c \in Ingest /\ c.step = step /\ c.scope = s /\ c.docs = sync[p].docs
      /\ c.gen = sync[p].gen /\ c.model = sync[p].model
  BY <1>2, <1>4, <1>5, <1>6 DEF Ingest
<1> HIDE DEF c
<1>9. c.step \in Prepared /\ c.step # "upserted"
  BY <1>6, <1>8 DEF Prepared
<1>10. /\ points' \in [Scopes -> [Docs -> [gen : Nat, model : Models \cup {"none"}]]]
       /\ collection' \in Nat /\ dropped' \subseteq Scopes
       /\ \A t \in Scopes \ {s} : t \in dropped' \/ (points'[t] = points[t] /\ t \notin dropped)
       /\ UNCHANGED <<disk, model, table, synced, overtaken, edits>>
  BY <1>2 DEF Inspect, CorpusTypeOK
<1> QED BY <1>1, <1>7, <1>8, <1>9, <1>10, StepPrepared

LEMMA CompleteKeeps ==
    ASSUME CorpusInv, NEW p \in Syncers, NEW s \in Scopes, s = sync[p].scope, Complete(p)
    PROVE  CorpusInv'
<1>1. CorpusTypeOK
  BY DEF CorpusInv
<1>2. synced' = [synced EXCEPT ![s] = "completed"]
  BY DEF Complete
<1>3. points' = points /\ points' \in [Scopes -> [Docs -> [gen : Nat, model : Models \cup {"none"}]]]
  BY <1>1 DEF Complete, CorpusTypeOK
<1> QED BY <1>1, <1>2, <1>3, StepOut DEF Complete

LEMMA FailKeeps ==
    ASSUME CorpusInv, NEW p \in Syncers, NEW s \in Scopes, s = sync[p].scope,
           IndexFails(p) \/ Die(p)
    PROVE  CorpusInv'
<1>1. CorpusTypeOK
  BY DEF CorpusInv
<1>2. points' = points /\ points' \in [Scopes -> [Docs -> [gen : Nat, model : Models \cup {"none"}]]]
  BY <1>1 DEF IndexFails, Die, CorpusTypeOK
<1>3. CASE IndexFails(p)
  <2>1. synced' = [synced EXCEPT ![s] = "failed"] /\ synced'[s] = "failed"
    BY <1>1, <1>3 DEF IndexFails, CorpusTypeOK
  <2> QED BY <1>2, <1>3, <2>1, StepOut DEF IndexFails
<1>4. CASE Die(p)
  BY <1>2, <1>4, StepOut DEF Die
<1> QED BY <1>3, <1>4

LEMMA DeleteCollectionKeeps ==
    ASSUME CorpusInv, NEW p \in Syncers, NEW s \in Scopes, s = sync[p].scope, DeleteCollection(p)
    PROVE  CorpusInv'
<1>1. sync[p].step \in Prepared
  BY DEF DeleteCollection, Prepared
<1>2. CorpusTypeOK /\ sync[p] \in Ingest
  BY <1>1, Preparing
<1>3. PICK c \in Ingest :
          /\ c.step = "create" /\ c.scope = s /\ c.docs = sync[p].docs
          /\ c.gen = sync[p].gen /\ c.model = sync[p].model
          /\ sync' = [sync EXCEPT ![p] = c]
  <2> DEFINE c == [sync[p] EXCEPT !.step = "create"]
  <2>1. /\ c \in Ingest /\ c.step = "create" /\ c.scope = s /\ c.docs = sync[p].docs
        /\ c.gen = sync[p].gen /\ c.model = sync[p].model
    BY <1>2 DEF Ingest
  <2>2. sync' = [sync EXCEPT ![p] = c]
    BY <1>2 DEF DeleteCollection, CorpusTypeOK
  <2> QED BY <2>1, <2>2
<1>4. points' \in [Scopes -> [Docs -> [gen : Nat, model : Models \cup {"none"}]]]
  BY DEF DeleteCollection, NoPoints, NoPoint
<1>5. ASSUME NEW t \in Scopes \ {s}, t \notin dropped'
      PROVE  points'[t] = points[t] /\ t \notin dropped
  <2>1. t \notin dropped /\ \A d \in Docs : points[t][d] = NoPoint
    BY <1>5 DEF DeleteCollection
  <2>2. points[t] \in [Docs -> [gen : Nat, model : Models \cup {"none"}]]
    BY <1>2, ScopeTypes
  <2>3. points[t] = [d \in Docs |-> NoPoint]
    BY <2>1, <2>2
  <2> QED BY <2>1, <2>3 DEF DeleteCollection, NoPoints
<1>6. /\ collection' \in Nat /\ dropped' \subseteq Scopes
      /\ UNCHANGED <<disk, model, table, synced, overtaken, edits>>
  BY <1>2 DEF DeleteCollection, CorpusTypeOK
<1>7. c.step \in Prepared /\ c.step # "upserted"
  BY <1>3 DEF Prepared
<1> QED BY <1>1, <1>3, <1>4, <1>5, <1>6, <1>7, StepPrepared

LEMMA CreateCollectionKeeps ==
    ASSUME CorpusInv, NEW p \in Syncers, NEW s \in Scopes, s = sync[p].scope, CreateCollection(p)
    PROVE  CorpusInv'
<1>1. sync[p].step \in Prepared
  BY DEF CreateCollection, Prepared
<1>2. CorpusTypeOK /\ sync[p] \in Ingest
  BY <1>1, Preparing
<1>3. PICK c \in Ingest :
          /\ c.step = "upsert" /\ c.scope = s /\ c.docs = sync[p].docs
          /\ c.gen = sync[p].gen /\ c.model = sync[p].model
          /\ sync' = [sync EXCEPT ![p] = c]
  <2> DEFINE c == [sync[p] EXCEPT !.step = "upsert"]
  <2>1. /\ c \in Ingest /\ c.step = "upsert" /\ c.scope = s /\ c.docs = sync[p].docs
        /\ c.gen = sync[p].gen /\ c.model = sync[p].model
    BY <1>2 DEF Ingest
  <2>2. sync' = [sync EXCEPT ![p] = c]
    BY <1>2 DEF CreateCollection, CorpusTypeOK
  <2> QED BY <2>1, <2>2
<1>4. /\ points' \in [Scopes -> [Docs -> [gen : Nat, model : Models \cup {"none"}]]]
      /\ dropped' \subseteq Scopes
      /\ \A t \in Scopes \ {s} : t \in dropped' \/ (points'[t] = points[t] /\ t \notin dropped)
      /\ UNCHANGED <<disk, model, table, synced, overtaken, edits>>
  BY <1>2 DEF CreateCollection, CorpusTypeOK
<1>5. collection' \in Nat
  BY <1>2 DEF CreateCollection, Ingest
<1>6. c.step \in Prepared /\ c.step # "upserted"
  BY <1>3 DEF Prepared
<1> QED BY <1>1, <1>3, <1>4, <1>5, <1>6, StepPrepared

\* The points an ingest writes are of its scope.
LEMMA PutPoints ==
    ASSUME CorpusTypeOK, NEW c, NEW s \in Scopes, c.scope = s, c.gen \in Nat, c.model \in Models,
           NEW docs, points' = Put(c, docs)
    PROVE  /\ points' \in [Scopes -> [Docs -> [gen : Nat, model : Models \cup {"none"}]]]
           /\ \A t \in Scopes \ {s} : points'[t] = points[t]
           /\ \A d \in Docs : d \in docs => points'[s][d] = [gen |-> c.gen, model |-> c.model]
<1> DEFINE point == [gen |-> c.gen, model |-> c.model]
           v == [d \in Docs |-> IF d \in docs THEN point ELSE points[s][d]]
<1>1. points' = [points EXCEPT ![s] = v]
  BY DEF Put, CorpusTypeOK
<1>2. point \in [gen : Nat, model : Models \cup {"none"}]
  OBVIOUS
<1>3. \A d \in Docs : points[s][d] \in [gen : Nat, model : Models \cup {"none"}]
  BY ScopeTypes
<1> HIDE DEF point
<1>4. v \in [Docs -> [gen : Nat, model : Models \cup {"none"}]]
  BY <1>2, <1>3
<1>5. \A d \in Docs : d \in docs => v[d] = point
  OBVIOUS
<1> HIDE DEF v
<1>6. points \in [Scopes -> [Docs -> [gen : Nat, model : Models \cup {"none"}]]]
  BY DEF CorpusTypeOK
<1>7. /\ points' \in [Scopes -> [Docs -> [gen : Nat, model : Models \cup {"none"}]]]
      /\ points'[s] = v /\ \A t \in Scopes \ {s} : points'[t] = points[t]
  BY <1>1, <1>4, <1>6
<1> QED BY <1>5, <1>7 DEF point

LEMMA UpsertKeeps ==
    ASSUME CorpusInv, NEW p \in Syncers, NEW s \in Scopes, s = sync[p].scope, Upsert(p)
    PROVE  CorpusInv'
<1>1. sync[p].step \in Prepared
  BY DEF Upsert, Prepared
<1>2. /\ CorpusTypeOK /\ sync[p] \in Ingest
      /\ sync[p].model \in Models /\ sync[p].gen \in Nat
  BY <1>1, Preparing
<1>3. PICK c \in Ingest :
          /\ c.step = "upserted" /\ c.scope = s /\ c.docs = sync[p].docs
          /\ c.gen = sync[p].gen /\ c.model = sync[p].model
          /\ sync' = [sync EXCEPT ![p] = c]
  <2> DEFINE c == [sync[p] EXCEPT !.step = "upserted", !.size = 0, !.fit = {}]
  <2>1. /\ c \in Ingest /\ c.step = "upserted" /\ c.scope = s /\ c.docs = sync[p].docs
        /\ c.gen = sync[p].gen /\ c.model = sync[p].model
    BY <1>2 DEF Ingest
  <2>2. sync' = [sync EXCEPT ![p] = c]
    BY <1>2 DEF Upsert, CorpusTypeOK
  <2> QED BY <2>1, <2>2
<1>4. /\ points' \in [Scopes -> [Docs -> [gen : Nat, model : Models \cup {"none"}]]]
      /\ \A t \in Scopes \ {s} : points'[t] = points[t]
      /\ \A d \in Docs : d \in c.docs => points'[s][d] = [gen |-> c.gen, model |-> c.model]
  BY <1>2, <1>3, PutPoints DEF Upsert
<1>5. /\ dropped' \subseteq Scopes /\ collection' \in Nat
      /\ \A t \in Scopes \ {s} : t \in dropped' \/ (points'[t] = points[t] /\ t \notin dropped)
      /\ UNCHANGED <<disk, model, table, synced, overtaken, edits>>
  BY <1>2, <1>4 DEF Upsert, CorpusTypeOK
<1>6. c.step \in Prepared
  BY <1>3 DEF Prepared
<1> QED BY <1>1, <1>3, <1>4, <1>5, <1>6, StepPrepared

LEMMA UpsertFailsKeeps ==
    ASSUME CorpusInv, NEW p \in Syncers, NEW s \in Scopes, s = sync[p].scope, UpsertFails(p)
    PROVE  CorpusInv'
<1>1. sync[p].step \in Prepared /\ sync[p].step # "idle"
  BY DEF UpsertFails, Prepared
<1>2. /\ CorpusTypeOK /\ sync[p] \in Ingest
      /\ sync[p].model \in Models /\ sync[p].gen \in Nat
  BY <1>1, Preparing
<1>3. PICK docs : points' = Put(sync[p], docs)
  BY DEF UpsertFails
<1>4. /\ points' \in [Scopes -> [Docs -> [gen : Nat, model : Models \cup {"none"}]]]
      /\ \A t \in Scopes \ {s} : points'[t] = points[t]
  BY <1>2, <1>3, PutPoints
<1>5. synced' = [synced EXCEPT ![s] = "failed"] /\ synced'[s] = "failed"
  BY <1>2 DEF UpsertFails, CorpusTypeOK
<1> QED BY <1>1, <1>4, <1>5, StepOut DEF UpsertFails

LEMMA RemoveStaleKeeps ==
    ASSUME CorpusInv, NEW p \in Syncers, NEW s \in Scopes, s = sync[p].scope, RemoveStale(p)
    PROVE  CorpusInv'
<1>1. /\ sync[p].step = "upserted" /\ sync[p] \in Ingest
      /\ CorpusTypeOK /\ IngestKept(p) /\ NewestIsActive(s) /\ CompletedKept(s)
      /\ Alone(p, s) \/ s \in overtaken
  BY Acting DEF RemoveStale
<1>2. PICK c \in Ingest :
          /\ c.step = "indexed" /\ c.scope = s /\ sync' = [sync EXCEPT ![p] = c]
  <2>1. Indexed(s) \in Ingest /\ Indexed(s).step = "indexed" /\ Indexed(s).scope = s
    BY IdleTypes DEF Indexed, Idle
  <2> QED BY <2>1 DEF RemoveStale
<1>3. sync' \in [Syncers -> Ingest]
  BY <1>1, <1>2, Moved
<1>4. PICK v \in [Docs -> [gen : Nat, model : Models \cup {"none"}]] :
          /\ points' = [points EXCEPT ![s] = v]
          /\ \A d \in Docs : d \in sync[p].docs => v[d] = points[s][d]
  <2> DEFINE v == [d \in Docs |-> IF d \in sync[p].docs THEN points[s][d] ELSE NoPoint]
  <2>1. NoPoint \in [gen : Nat, model : Models \cup {"none"}]
    BY DEF NoPoint
  <2>2. v \in [Docs -> [gen : Nat, model : Models \cup {"none"}]]
    BY <1>1, <2>1, ScopeTypes
  <2>3. points' = [points EXCEPT ![s] = v]
    BY <1>1 DEF RemoveStale, CorpusTypeOK
  <2> QED BY <2>2, <2>3
<1>5. /\ points' \in [Scopes -> [Docs -> [gen : Nat, model : Models \cup {"none"}]]]
      /\ points'[s] = v /\ \A t \in Scopes \ {s} : points'[t] = points[t]
  BY <1>1, <1>4 DEF CorpusTypeOK
<1>6. CorpusTypeOK'
  BY <1>1, <1>3, <1>5 DEF CorpusTypeOK, RemoveStale
<1>7. ActiveDocs(s)' = ActiveDocs(s) /\ NewestIsActive(s)' /\ ActiveDocs(s) \subseteq Docs
  BY <1>1, RowsKept DEF RemoveStale, ActiveDocs
<1>8. s \notin overtaken => ActiveDocs(s) = sync[p].docs /\ synced[s] = "running"
  BY <1>1 DEF IngestKept, Ingesting, Prepared
<1>9. s \notin overtaken /\ Placed(s) => Placed(s)'
  <2> SUFFICES ASSUME s \notin overtaken, Placed(s), NEW d \in ActiveDocs(s)
               PROVE  points'[s][d] = [gen |-> table'[s][d].gen, model |-> table'[s][d].model]
    BY <1>7 DEF Placed
  <2>1. points'[s][d] = points[s][d]
    BY <1>4, <1>5, <1>7, <1>8
  <2> QED BY <2>1 DEF Placed, RemoveStale
<1>10. s \notin overtaken /\ s \notin dropped => Placed(s)
  BY <1>1 DEF IngestKept, Ingesting
<1>11. CompletedKept(s)' /\ (Alone(p, s) \/ s \in overtaken')
  BY <1>1, <1>8 DEF CompletedKept, RemoveStale
<1>12. \A t \in Scopes \ {s} : Untouched(t)
  BY <1>5 DEF RemoveStale, Untouched
<1> QED
  BY <1>1, <1>2, <1>6, <1>7, <1>8, <1>9, <1>10, <1>11, <1>12, StepWithin
  DEF RemoveStale, Prepared

\* A new generation replaces the active rows of its scope.
LEMMA NewGeneration ==
    ASSUME CorpusTypeOK, NEW s \in Scopes, NEW docs \in SUBSET Docs, NEW g \in Nat,
           NewestIsActive(s), g = LatestGen(s) + 1, table'[s] \in [Docs -> [active : BOOLEAN, gen : Nat,
                                                 model : Models \cup {"none"}]],
           \A d \in docs : table'[s][d].active = TRUE /\ table'[s][d].gen = g,
           \A d \in Docs \ docs : table'[s][d].active = FALSE /\ table'[s][d].gen = table[s][d].gen
    PROVE  ActiveDocs(s)' = docs /\ NewestIsActive(s)'
<1>1. \E m \in Generations(s) : \A h \in Generations(s) : h <= m
  BY DEF NewestIsActive
<1>2. /\ LatestGen(s) \in Generations(s) /\ LatestGen(s) \in Nat
      /\ \A h \in Generations(s) : h <= LatestGen(s)
  BY <1>1, Latest
<1>3. ActiveDocs(s)' = docs
  BY DEF ActiveDocs
<1>4. \A d \in Docs : table[s][d].gen \in Generations(s) /\ table[s][d].gen \in Nat
  BY ScopeTypes DEF Generations
<1>5. \A d \in Docs : table'[s][d].gen <= g
  BY <1>2, <1>4
<1>6. Generations(s)' = {table'[s][d].gen : d \in Docs} \cup {0}
  BY DEF Generations
<1>7. \A h \in Generations(s)' : h <= g
  BY <1>5, <1>6
<1>8. \E m \in Generations(s)' : \A h \in Generations(s)' : h <= m
  <2>1. CASE docs = {}
    <3>1. Generations(s)' = Generations(s)
      BY <2>1, <1>6 DEF Generations
    <3> QED BY <3>1, <1>1
  <2>2. ASSUME NEW d \in docs PROVE g \in Generations(s)'
    BY <1>6
  <2> QED BY <2>1, <2>2, <1>7
<1>9. \A d \in docs, e \in Docs : 1 <= table'[s][d].gen /\ table'[s][e].gen <= table'[s][d].gen
  BY <1>2, <1>5
<1> QED BY <1>3, <1>8, <1>9 DEF NewestIsActive

LEMMA Retired ==
    ASSUME NEW r, r \in [active : BOOLEAN, gen : Nat, model : Models \cup {"none"}]
    PROVE  /\ [r EXCEPT !.active = FALSE]
                  \in [active : BOOLEAN, gen : Nat, model : Models \cup {"none"}]
           /\ [r EXCEPT !.active = FALSE].active = FALSE
           /\ [r EXCEPT !.active = FALSE].gen = r.gen
  OBVIOUS

LEMMA CommitKeeps ==
    ASSUME CorpusInv, NEW p \in Syncers, NEW s \in Scopes, s = sync[p].scope, Commit(p)
    PROVE  CorpusInv'
<1>1. /\ sync[p].step = "read" /\ sync[p] \in Ingest /\ sync[p].docs \in SUBSET Docs
      /\ CorpusTypeOK /\ IngestKept(p) /\ NewestIsActive(s) /\ CompletedKept(s)
      /\ Alone(p, s) \/ s \in overtaken
  BY Acting DEF Commit, Ingest
<1>2. PICK g \in Nat : g = LatestGen(s) + 1 /\ 1 <= g
  <2>1. LatestGen(s) \in Nat
    BY <1>1, Latest DEF NewestIsActive
  <2> QED BY <2>1
<1>3. PICK v \in [Docs -> [active : BOOLEAN, gen : Nat, model : Models \cup {"none"}]] :
          /\ table' = [table EXCEPT ![s] = v]
          /\ \A d \in sync[p].docs : v[d] = [active |-> TRUE, gen |-> g, model |-> model]
          /\ \A d \in Docs \ sync[p].docs : ~v[d].active /\ v[d].gen = table[s][d].gen
  <2> DEFINE v == [d \in Docs |-> IF d \in sync[p].docs
                                  THEN [active |-> TRUE, gen |-> g, model |-> model]
                                  ELSE [table[s][d] EXCEPT !.active = FALSE]]
  <2>1. \A d \in Docs : /\ [table[s][d] EXCEPT !.active = FALSE]
                              \in [active : BOOLEAN, gen : Nat, model : Models \cup {"none"}]
                        /\ [table[s][d] EXCEPT !.active = FALSE].active = FALSE
                        /\ [table[s][d] EXCEPT !.active = FALSE].gen = table[s][d].gen
    <3>1. \A d \in Docs : table[s][d] \in [active : BOOLEAN, gen : Nat,
                                           model : Models \cup {"none"}]
      BY <1>1, ScopeTypes
    <3> QED BY <3>1, Retired
  <2>2. [active |-> TRUE, gen |-> g, model |-> model]
            \in [active : BOOLEAN, gen : Nat, model : Models \cup {"none"}]
    BY <1>1 DEF CorpusTypeOK
  <2>3. v \in [Docs -> [active : BOOLEAN, gen : Nat, model : Models \cup {"none"}]]
    BY <2>1, <2>2
  <2>4. table' = [table EXCEPT ![s] = v]
    BY <1>1, <1>2 DEF Commit, CorpusTypeOK
  <2> QED BY <1>1, <2>1, <2>3, <2>4
<1>4. /\ table' \in [Scopes -> [Docs -> [active : BOOLEAN, gen : Nat,
                                        model : Models \cup {"none"}]]]
      /\ table'[s] = v /\ \A t \in Scopes \ {s} : table'[t] = table[t]
  BY <1>1, <1>3 DEF CorpusTypeOK
<1>5. ActiveDocs(s)' = sync[p].docs /\ NewestIsActive(s)'
  <2>1. g \in Nat
    OBVIOUS
  <2>2. \A d \in sync[p].docs : table'[s][d].active = TRUE /\ table'[s][d].gen = g
    BY <1>3, <1>4
  <2>3. \A d \in Docs \ sync[p].docs : table'[s][d].active = FALSE /\ table'[s][d].gen = table[s][d].gen
    BY <1>3, <1>4
  <2>4. table'[s] \in [Docs -> [active : BOOLEAN, gen : Nat, model : Models \cup {"none"}]]
    BY <1>3, <1>4
  <2>5. PICK docs \in SUBSET Docs : docs = sync[p].docs
    BY <1>1
  <2>6. g = LatestGen(s) + 1 /\ CorpusTypeOK /\ NewestIsActive(s)
    BY <1>1, <1>2
  <2>7. ActiveDocs(s)' = docs /\ NewestIsActive(s)'
    <3>1. \A d \in docs : table'[s][d].active = TRUE /\ table'[s][d].gen = g
      BY <2>2, <2>5
    <3>2. \A d \in Docs \ docs : table'[s][d].active = FALSE /\ table'[s][d].gen = table[s][d].gen
      BY <2>3, <2>5
    <3> QED BY ONLY <2>1, <2>4, <2>6, <3>1, <3>2, s \in Scopes, docs \in SUBSET Docs, NewGeneration
  <2> QED BY <2>5, <2>7
<1>6. PICK c \in Ingest :
          /\ sync' = [sync EXCEPT ![p] = c] /\ c.scope = s
          /\ \/ c.step = "indexed" /\ sync[p].docs = {}
             \/ c.step = "committed" /\ c.docs = sync[p].docs /\ c.gen = g /\ c.model = model
  <2>1. CASE sync[p].docs = {}
    <3>1. Indexed(s) \in Ingest /\ Indexed(s).step = "indexed" /\ Indexed(s).scope = s
      BY IdleTypes DEF Indexed, Idle
    <3> QED BY <2>1, <3>1 DEF Commit
  <2>2. CASE sync[p].docs # {}
    <3> DEFINE models == {table[sync[p].scope][d].model : d \in ActiveDocs(sync[p].scope)}
    <3>1. PICK b \in BOOLEAN : b = (models \notin {{}, {model}})
      OBVIOUS
    <3> DEFINE c == [sync[p] EXCEPT !.step = "committed", !.gen = g, !.model = model,
                                    !.rebuild = b]
    <3>2. sync' = [sync EXCEPT ![p] = c]
      <4>1. sync' = [sync EXCEPT ![p] = [sync[p] EXCEPT
                !.step = "committed", !.gen = LatestGen(sync[p].scope) + 1, !.model = model,
                !.rebuild = models \notin {{}, {model}}]]
        BY <2>2, Zenon DEF Commit
      <4> QED BY <1>2, <3>1, <4>1, Zenon
    <3>3. model \in Models
      BY <1>1 DEF CorpusTypeOK
    <3>4. /\ c \in Ingest /\ c.step = "committed" /\ c.scope = s /\ c.docs = sync[p].docs
          /\ c.gen = g /\ c.model = model
      BY <1>1, <3>3 DEF Ingest
    <3> QED BY <2>2, <3>2, <3>4
  <2> QED BY <2>1, <2>2
<1>7. sync' \in [Syncers -> Ingest]
  BY <1>1, <1>6, Moved
<1>8. /\ synced' \in [Scopes -> {"none", "running", "completed", "failed"}]
      /\ synced'[s] = "running" /\ \A t \in Scopes \ {s} : synced'[t] = synced[t]
  BY <1>1 DEF CorpusTypeOK, Commit
<1>9. /\ overtaken' \subseteq Scopes /\ (Alone(p, s) \/ s \in overtaken')
      /\ \A t \in Scopes \ {s} : t \in overtaken' <=> t \in overtaken
  BY <1>1 DEF CorpusTypeOK, Commit
<1>10. CorpusTypeOK'
  BY <1>1, <1>4, <1>7, <1>8, <1>9 DEF CorpusTypeOK, Commit
<1>11. CompletedKept(s)'
  BY <1>8 DEF CompletedKept
<1>12. \A t \in Scopes \ {s} : Untouched(t)
  BY <1>4, <1>8, <1>9 DEF Untouched, Commit
<1>13. c.step = "indexed" => Placed(s)'
  BY <1>5, <1>6 DEF Placed
<1>14. c.step = "committed" =>
          /\ c.model \in Models /\ 1 <= c.gen
          /\ \A d \in c.docs : table'[s][d].gen = c.gen /\ table'[s][d].model = c.model
  BY <1>1, <1>2, <1>3, <1>4, <1>6 DEF CorpusTypeOK
<1> QED
  BY <1>1, <1>5, <1>6, <1>8, <1>9, <1>10, <1>11, <1>12, <1>13, <1>14, StepWithin DEF Prepared

\* Steps of nobody's ingest.
LEMMA EditKeeps ==
    ASSUME CorpusInv, Edit \/ UNCHANGED corpusVars
    PROVE  CorpusInv'
<1>1. /\ UNCHANGED <<table, points, collection, synced, sync, dropped, overtaken>>
  BY DEF Edit, corpusVars
<1>2. CorpusTypeOK'
  <2>1. CorpusTypeOK
    BY DEF CorpusInv
  <2>2. edits' \in Nat
    BY <2>1 DEF CorpusTypeOK, Edit, corpusVars
  <2>3. disk' \in [Scopes -> SUBSET Docs] /\ model' \in Models
    BY <2>1 DEF CorpusTypeOK, Edit, corpusVars
  <2> QED BY <1>1, <2>1, <2>2, <2>3 DEF CorpusTypeOK
<1>3. ASSUME NEW s \in Scopes PROVE NewestIsActive(s)' /\ CompletedKept(s)'
  BY <1>1, RowsKept, PlacedKept DEF CorpusInv, CompletedKept
<1>4. ASSUME NEW p \in Syncers PROVE IngestKept(p)'
  <2>1. IngestKept(p)
    BY DEF CorpusInv
  <2>2. \A s \in Scopes : /\ ActiveDocs(s)' = ActiveDocs(s) /\ (Placed(s)' <=> Placed(s))
    BY <1>1, PlacedKept
  <2>3. CASE sync[p].step = "idle"
    BY <1>1, <2>1, <2>3 DEF IngestKept, Ingesting, Prepared
  <2>4. CASE sync[p].step # "idle" /\ sync[p].scope \in Scopes
    BY <1>1, <2>1, <2>2, <2>4 DEF IngestKept, Ingesting, Alone
  <2> QED BY <2>1, <2>3, <2>4 DEF IngestKept
<1> QED BY <1>2, <1>3, <1>4 DEF CorpusInv

LEMMA CorpusInitially == CorpusInit => CorpusInv
<1> SUFFICES ASSUME CorpusInit PROVE CorpusInv
  OBVIOUS
<1>1. Idle \in Ingest
  BY IdleTypes
<1>2. CorpusTypeOK
  BY <1>1 DEF CorpusInit, CorpusTypeOK, NoDocument, NoPoint
<1>3. \A s \in Scopes : ActiveDocs(s) = {} /\ Generations(s) = {0}
  BY DEF CorpusInit, ActiveDocs, Generations, NoDocument
<1>4. \A s \in Scopes : NewestIsActive(s) /\ CompletedKept(s)
  <2>1. 0 <= 0
    OBVIOUS
  <2>2. \A s \in Scopes : NewestIsActive(s)
    BY <1>3, <2>1 DEF NewestIsActive
  <2>3. \A s \in Scopes : CompletedKept(s)
    BY DEF CompletedKept, CorpusInit
  <2> QED BY <2>2, <2>3
<1>5. \A p \in Syncers : IngestKept(p)
  BY DEF CorpusInit, IngestKept, Ingesting, Idle, Prepared
<1> QED BY <1>2, <1>4, <1>5 DEF CorpusInv

\* What the steps of the ingests keep of table, vectors and sync rows together.
THEOREM CorpusInvariance == CorpusSpec => []CorpusInv
<1>1. ASSUME CorpusInv, [CorpusNext]_corpusVars PROVE CorpusInv'
  <2>1. ASSUME NEW p \in Syncers, NEW s \in Scopes, ReadFiles(p, s) PROVE CorpusInv'
    BY <1>1, <2>1, ReadFilesKeeps
  <2>2. ASSUME NEW p \in Syncers,
               \/ Commit(p) \/ Inspect(p) \/ DeleteCollection(p) \/ CreateCollection(p)
               \/ Upsert(p) \/ UpsertFails(p) \/ RemoveStale(p) \/ Complete(p) \/ IndexFails(p) \/ Die(p)
        PROVE  CorpusInv'
    <3>1. sync[p].step # "idle"
      BY <2>2 DEF Commit, Inspect, DeleteCollection, CreateCollection, Upsert, UpsertFails,
                  RemoveStale, Complete, IndexFails, Die
    <3>2. PICK s \in Scopes : s = sync[p].scope
      BY <1>1, <3>1, Acting
    <3> QED
      BY <1>1, <2>2, <3>2, CommitKeeps, InspectKeeps, DeleteCollectionKeeps,
         CreateCollectionKeeps, UpsertKeeps, UpsertFailsKeeps, RemoveStaleKeeps, CompleteKeeps,
         FailKeeps
  <2> QED BY <1>1, <2>1, <2>2, EditKeeps DEF CorpusNext
<1> QED BY <1>1, CorpusInitially, PTL DEF CorpusSpec

\* The variables of the corpus model keep their types.
THEOREM CorpusTypeCorrect == CorpusSpec => []CorpusTypeOK
<1>1. CorpusInv => CorpusTypeOK
  BY DEF CorpusInv
<1> QED BY <1>1, CorpusInvariance, PTL

\* A corpus whose newest sync says "completed" is searched as a whole, whoever
\* embedded its documents and the query, Gemini or the hash, and whatever ingests
\* of other scopes, failures, crashes and edits of the files came in between,
\* unless another scope's rebuild took its points or two of its own ingests
\* overlapped.
THEOREM CompletedStaysSearched == CorpusSpec => []CompletedIsSearched
<1>1. ASSUME CorpusInv, NEW s \in Scopes, synced[s] = "completed", s \notin dropped \cup overtaken
      PROVE  VectorHits(s) = ActiveDocs(s)
  <2>1. CorpusTypeOK /\ NewestIsActive(s) /\ Placed(s)
    BY <1>1 DEF CorpusInv, CompletedKept
  <2>2. /\ LatestGen(s) \in Generations(s) /\ LatestGen(s) \in Nat
        /\ \A h \in Generations(s) : h <= LatestGen(s)
    BY <2>1, Latest DEF NewestIsActive
  <2>3. ASSUME NEW d \in ActiveDocs(s) PROVE table[s][d].gen = LatestGen(s)
    <3>1. d \in Docs /\ table[s][d].gen \in Nat /\ table[s][d].gen <= LatestGen(s)
      BY <2>1, <2>2, ScopeTypes DEF ActiveDocs, Generations
    <3>2. \A h \in Generations(s) : h <= table[s][d].gen
      BY <2>1, <3>1 DEF NewestIsActive, Generations
    <3> QED BY <2>2, <3>1, <3>2
  <2> QED BY <2>1, <2>3 DEF VectorHits, Placed
<1>2. CorpusInv => CompletedIsSearched
  BY <1>1 DEF CompletedIsSearched, SearchedIn
<1> QED BY <1>2, CorpusInvariance, PTL
=============================================================================
