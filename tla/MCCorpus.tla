------------------------------ MODULE MCCorpus ------------------------------
(* The corpus and the embedding of texts, on a small instance: two documents  *)
(* in each of two scopes, two ingests at a time, and four lists of texts for  *)
(* two threads and a cache of two.  Each is explored on its own: an ingest    *)
(* takes from the embedding any vectors that it may return.                   *)
EXTENDS Corpus, Embedding
CONSTANTS global, org, d1, d2, p1, p2

VARIABLE stock
stockVars == <<corpusVars, embeddingVars, stock>>

(* The shared corpus is ingested twice, that of an organisation once.         *)
(* Gemini's vectors are longer than the hash's.                               *)
VectorLength == [m \in Models |-> IF m = "hash" THEN 256 ELSE 3072]
Ingests == [s \in Scopes |-> IF s = global THEN 2 ELSE 1]

(* A text alone, two that overlap with others, more than the cache holds.     *)
TheAsks == {<<"a">>, <<"b", "a">>, <<"c">>, <<"a", "b", "c">>}

----------------------------------------------------------------------------
(* A part that is not explored has one initial state.                         *)
StockInit ==
    /\ stock \in {"corpus", "embedding"}
    /\ disk = [s \in Scopes |-> IF stock = "corpus" THEN Docs ELSE {}]
    /\ model \in IF stock = "corpus" THEN Models ELSE {"hash"}
    /\ keyed \in IF stock = "embedding" THEN BOOLEAN ELSE {FALSE}
    /\ CorpusInit /\ EmbeddingInit

(* BOUND: of the files, only those of the corpus that is ingested twice change, *)
(* and no edit is spent on changing nothing.                                   *)
EditsMatter ==
    /\ disk'[org] = disk[org]
    /\ edits' # edits => <<disk, model>>' # <<disk, model>>

StockNext ==
    \/ stock = "corpus" /\ CorpusNext /\ EditsMatter /\ UNCHANGED <<embeddingVars, stock>>
    \/ stock = "embedding" /\ EmbeddingNext /\ UNCHANGED <<corpusVars, stock>>
=============================================================================
