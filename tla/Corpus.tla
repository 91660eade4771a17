------------------------------- MODULE Corpus -------------------------------
(***************************************************************************)
(* The document corpus (apps/agent/app/retrieval/store.py, chunk.py): files  *)
(* on disk, the table corpus_documents that is the truth, and the vectors in *)
(* Qdrant that follow it.  A scope is the global corpus or one organisation; *)
(* the documents of two scopes never have an id in common.                   *)
(***************************************************************************)
EXTENDS Naturals

CONSTANTS Scopes,     \* "__global__" and the organisations
          Docs,       \* document ids within a scope
          Models,     \* labels of embedding models: hash:256, gemini:<model>
          Hash,       \* the hash, which also stands in for a Gemini that fails
          Dim,        \* the length of each model's vectors
          Syncers,    \* ingests that may run at the same time
          MaxEdits,   \* BOUND on changes of files and of the model
          MaxGen      \* BOUND on generations, so on ingests, of each scope

ASSUME CorpusAssumption ==
    /\ "none" \notin Scopes /\ "none" \notin Models
    /\ Hash \in Models /\ Dim \in [Models -> Nat \ {0}]
    /\ MaxEdits \in Nat /\ MaxGen \in [Scopes -> Nat]

VARIABLES
    disk,       \* files of each scope
    model,      \* the label of the embedding model in use
    table,      \* per scope and document: its row
    points,     \* per scope and document: its point in Qdrant
    collection, \* the length of the vectors the collection takes, or 0: there is none
    synced,     \* per scope: status of its newest corpus_sync_runs row
    sync,       \* the ingests under way
    dropped,    \* history: scopes whose points went with another scope's rebuild
    overtaken,  \* history: scopes of which two ingests were under way at a time
    edits

corpusVars == <<disk, model, table, points, collection, synced, sync, dropped, overtaken, edits>>

NoDocument == [active |-> FALSE, gen |-> 0, model |-> "none"]
NoPoint == [gen |-> 0, model |-> "none"]
Idle == [step |-> "idle", scope |-> "none", docs |-> {}, gen |-> 0, model |-> "none",
         rebuild |-> FALSE, size |-> 0, fit |-> {}]
Indexed(s) == [Idle EXCEPT !.step = "indexed", !.scope = s]   \* the rest is not read again

CorpusInit ==
    /\ disk \in [Scopes -> SUBSET Docs] /\ model \in Models
    /\ table = [s \in Scopes |-> [d \in Docs |-> NoDocument]]
    /\ points = [s \in Scopes |-> [d \in Docs |-> NoPoint]]
    /\ collection = 0 /\ dropped = {} /\ overtaken = {} /\ edits = 0
    /\ synced = [s \in Scopes |-> "none"] /\ sync = [p \in Syncers |-> Idle]

ActiveDocs(s) == {d \in Docs : table[s][d].active}
Generations(s) == {table[s][d].gen : d \in Docs} \cup {0}
LatestGen(s) == CHOOSE g \in Generations(s) : \A h \in Generations(s) : h <= g

------------------------------------------------------------------------------

\* Files come and go, and the process may be restarted with another model.
Edit ==
    /\ edits < MaxEdits /\ edits' = edits + 1
    /\ \/ \E s \in Scopes, files \in SUBSET Docs :
             disk' = [disk EXCEPT ![s] = files] /\ UNCHANGED model
       \/ model' \in Models \ {model} /\ UNCHANGED disk
    /\ UNCHANGED <<table, points, collection, synced, sync, dropped, overtaken>>

Alone(p, s) == \A q \in Syncers \ {p} : sync[q].scope # s

\* ingest_corpus: the files are read before the transaction.  At boot, on a
\* refresh and when docs_node finds nothing, so that nothing keeps two of one
\* scope from overtaking each other.
ReadFiles(p, s) ==
    /\ sync[p].step = "idle" /\ LatestGen(s) < MaxGen[s]
    /\ overtaken' = IF Alone(p, s) THEN overtaken ELSE overtaken \cup {s}
    /\ sync' = [sync EXCEPT ![p] = [Idle EXCEPT !.step = "read", !.scope = s, !.docs = disk[s]]]
    /\ UNCHANGED <<disk, model, table, points, collection, synced, dropped, edits>>

\* The first transaction: a new generation takes the place of the active rows.
Commit(p) ==
    LET c == sync[p]  s == c.scope  gen == LatestGen(s) + 1
        models == {table[s][d].model : d \in ActiveDocs(s)}
    IN  /\ c.step = "read" /\ gen <= MaxGen[s]
        /\ table' = [table EXCEPT ![s] = [d \in Docs |->
              IF d \in c.docs THEN [active |-> TRUE, gen |-> gen, model |-> model]
              ELSE [@[d] EXCEPT !.active = FALSE]]]
        /\ synced' = [synced EXCEPT ![s] = "running"]
        /\ sync' = [sync EXCEPT ![p] = IF c.docs = {} THEN Indexed(s)
              ELSE [c EXCEPT !.step = "committed", !.gen = gen, !.model = model,
                             !.rebuild = models \notin {{}, {model}}]]
        /\ overtaken' = IF Alone(p, s) THEN overtaken \ {s} ELSE overtaken
        /\ UNCHANGED <<disk, model, points, collection, dropped, edits>>

\* _index_qdrant, first half.  Under a Gemini label each vector is Gemini's, or the
\* hash of a text that Gemini failed for, now or when it was cached (see Embedding).
\* The collection has to take vectors like the first; "fit" are the documents whose
\* vectors are as long.  One for other lengths is replaced, be it that the model
\* changed or that Gemini failed.
Inspect(p) ==
    LET c == sync[p] IN
    /\ c.step = "committed"
    /\ \E first \in c.docs, by \in [c.docs -> {c.model, Hash}] :
          LET size == Dim[by[first]]
              rebuild == c.rebuild \/ collection # size
          IN  sync' = [sync EXCEPT ![p] = [c EXCEPT
                  !.step = IF ~rebuild THEN "upsert" ELSE IF collection = 0 THEN "create" ELSE "delete",
                  !.rebuild = FALSE, !.size = size,
                  !.fit = {d \in c.docs : Dim[by[d]] = size}]]
    /\ UNCHANGED <<disk, model, table, points, collection, synced, dropped, overtaken, edits>>

NoPoints == [s \in Scopes |-> [d \in Docs |-> NoPoint]]

\* With the collection go the points of every scope.
DeleteCollection(p) ==
    LET c == sync[p] IN
    /\ c.step = "delete"
    /\ collection' = 0 /\ points' = NoPoints
    /\ dropped' = dropped \cup {t \in Scopes \ {c.scope} : \E d \in Docs : points[t][d] # NoPoint}
    /\ sync' = [sync EXCEPT ![p].step = "create"]
    /\ UNCHANGED <<disk, model, table, synced, overtaken, edits>>

\* An error when another ingest was faster.
CreateCollection(p) ==
    LET c == sync[p] IN
    /\ c.step = "create" /\ collection = 0
    /\ collection' = c.size
    /\ sync' = [sync EXCEPT ![p].step = "upsert"]
    /\ UNCHANGED <<disk, model, table, points, synced, dropped, overtaken, edits>>

\* The points of some documents of an ingest, under its label whoever embedded them.
Put(c, docs) == [points EXCEPT ![c.scope] = [d \in Docs |->
                    IF d \in docs THEN [gen |-> c.gen, model |-> c.model] ELSE @[d]]]

Upsert(p) ==
    LET c == sync[p] IN
    /\ c.step = "upsert" /\ collection = c.size /\ c.fit = c.docs
    /\ points' = Put(c, c.docs)
    /\ sync' = [sync EXCEPT ![p] = [c EXCEPT !.step = "upserted", !.size = 0, !.fit = {}]]
    /\ dropped' = dropped \ {c.scope}
    /\ UNCHANGED <<disk, model, table, collection, synced, overtaken, edits>>

\* Qdrant fails, or refuses a vector of another length and may have taken others.
UpsertFails(p) ==
    LET c == sync[p] IN
    /\ c.step = "upsert"
    /\ \E docs \in SUBSET (IF collection = c.size /\ c.fit # c.docs THEN c.fit ELSE {}) : points' = Put(c, docs)
    /\ synced' = [synced EXCEPT ![c.scope] = "failed"]
    /\ sync' = [sync EXCEPT ![p] = Idle]
    /\ UNCHANGED <<disk, model, table, collection, dropped, overtaken, edits>>

\* Mutant: what is stale is sought in all scopes.
RemoveStaleOfAll(p) ==
    LET c == sync[p] IN
    /\ c.step = "upserted" /\ collection # 0
    /\ points' = [s \in Scopes |-> [d \in Docs |->
          IF s = c.scope /\ d \in c.docs THEN points[s][d] ELSE NoPoint]]
    /\ sync' = [sync EXCEPT ![p] = Indexed(c.scope)]
    /\ UNCHANGED <<disk, model, table, collection, synced, dropped, overtaken, edits>>

\* The scope's other points go; without a collection there is nothing to scroll.
RemoveStale(p) ==
    LET c == sync[p] IN
    /\ c.step = "upserted" /\ collection # 0
    /\ points' = [points EXCEPT ![c.scope] = [d \in Docs |->
          IF d \in c.docs THEN @[d] ELSE NoPoint]]
    /\ sync' = [sync EXCEPT ![p] = Indexed(c.scope)]
    /\ UNCHANGED <<disk, model, table, collection, synced, dropped, overtaken, edits>>

Complete(p) ==
    LET s == sync[p].scope IN
    /\ sync[p].step = "indexed"
    /\ synced' = [synced EXCEPT ![s] = "completed"]
    /\ sync' = [sync EXCEPT ![p] = Idle]
    /\ UNCHANGED <<disk, model, table, points, collection, dropped, overtaken, edits>>

\* Qdrant or the last transaction fails; the rows stay as committed.
IndexFails(p) ==
    /\ sync[p].step \in {"committed", "delete", "create", "upserted", "indexed"}
    /\ synced' = [synced EXCEPT ![sync[p].scope] = "failed"]
    /\ sync' = [sync EXCEPT ![p] = Idle]
    /\ UNCHANGED <<disk, model, table, points, collection, dropped, overtaken, edits>>

\* The process dies: "running" is all that is left of its ingests.
Die(p) ==
    /\ sync[p].step # "idle"
    /\ sync' = [sync EXCEPT ![p] = Idle]
    /\ UNCHANGED <<disk, model, table, points, collection, synced, dropped, overtaken, edits>>

CorpusNext ==
    \/ \E p \in Syncers : \/ \E s \in Scopes : ReadFiles(p, s)
                           \/ Commit(p) \/ Inspect(p)
                           \/ DeleteCollection(p) \/ CreateCollection(p)
                           \/ Upsert(p) \/ UpsertFails(p) \/ RemoveStale(p) \/ Complete(p) \/ IndexFails(p) \/ Die(p)
    \/ Edit

CorpusSpec == CorpusInit /\ [][CorpusNext]_corpusVars
------------------------------------------------------------------------------

Ingest == [step : {"idle", "read", "committed", "delete", "create",
                   "upsert", "upserted", "indexed"},
           scope : Scopes \cup {"none"}, docs : SUBSET Docs, gen : Nat,
           model : Models \cup {"none"}, rebuild : BOOLEAN,
           size : Nat, fit : SUBSET Docs]

CorpusTypeOK ==
    /\ disk \in [Scopes -> SUBSET Docs] /\ model \in Models
    /\ table \in [Scopes -> [Docs -> [active : BOOLEAN, gen : Nat,
                                     model : Models \cup {"none"}]]]
    /\ points \in [Scopes -> [Docs -> [gen : Nat, model : Models \cup {"none"}]]]
    /\ collection \in Nat
    /\ synced \in [Scopes -> {"none", "running", "completed", "failed"}]
    /\ dropped \subseteq Scopes /\ overtaken \subseteq Scopes /\ edits \in Nat
    /\ sync \in [Syncers -> Ingest]

\* search_qdrant: points of the scope's newest generation and its label whose rows,
\* read afterwards, are active ...
VectorHits(s) ==
    {d \in ActiveDocs(s) : \E e \in ActiveDocs(s) :
        /\ table[s][e].gen = LatestGen(s)
        /\ points[s][d] = [gen |-> table[s][e].gen, model |-> table[s][e].model]}

\* ... for a query embedded by q.  Qdrant refuses one that is longer or shorter
\* than the collection's vectors, and then the rows are ranked instead.
SearchedIn(s, q) == IF collection = Dim[q] THEN VectorHits(s) ELSE ActiveDocs(s)

\* A sync that says "completed" has put every active document where a search
\* considers it, whoever embedded the documents and the query, and no ingest of
\* another scope takes it away again, after any failures and crashes in between,
\* but one: a rebuild of the collection, for another model or because Gemini
\* failed and the hash of the text is of another length.  Nothing is promised of a
\* scope that lost its points so ("dropped"), nor after two ingests of one scope
\* at the same time.  That a point of a Gemini label is Gemini's is not promised
\* either: the code does not see to it.
CompletedIsSearched ==
    \A s \in Scopes, q \in Models : synced[s] = "completed" /\ s \notin dropped \cup overtaken
                                     => SearchedIn(s, q) = ActiveDocs(s)

\* What makes it inductive.  The active rows of a scope are of its newest
\* generation ...
NewestIsActive(s) ==
    /\ \E g \in Generations(s) : \A h \in Generations(s) : h <= g
    /\ \A d \in ActiveDocs(s), e \in Docs :
          1 <= table[s][d].gen /\ table[s][e].gen <= table[s][d].gen

\* ... two ingests of a scope are known to overlap, and one that nobody has
\* overtaken finds the rows as it committed them, and its vectors as it wrote
\* them unless another scope's rebuild took them away ...
Placed(s) ==
    \A d \in ActiveDocs(s) :
        points[s][d] = [gen |-> table[s][d].gen, model |-> table[s][d].model]
Ingesting(p, steps) == sync[p].step \in steps /\ sync[p].scope \notin overtaken
Prepared == {"committed", "delete", "create", "upsert", "upserted"}
IngestKept(p) ==
    LET c == sync[p]  s == c.scope IN
    /\ IF c.step = "idle" THEN s = "none"
       ELSE s \in Scopes /\ (Alone(p, s) \/ s \in overtaken)
    /\ c.step \in Prepared => c.model \in Models /\ 1 <= c.gen
    /\ Ingesting(p, Prepared) =>
          ActiveDocs(s) = c.docs /\ \A d \in c.docs : table[s][d].gen = c.gen
                                                   /\ table[s][d].model = c.model
    /\ Ingesting(p, Prepared \cup {"indexed"}) => synced[s] = "running"
    /\ Ingesting(p, {"upserted", "indexed"}) /\ s \notin dropped => Placed(s)
CompletedKept(s) == synced[s] = "completed" /\ s \notin dropped \cup overtaken => Placed(s)

\* ... and so does a scope whose newest sync says "completed".
CorpusInv ==
    /\ CorpusTypeOK
    /\ \A s \in Scopes : NewestIsActive(s) /\ CompletedKept(s)
    /\ \A p \in Syncers : IngestKept(p)
=============================================================================
