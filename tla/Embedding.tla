------------------------------ MODULE Embedding ------------------------------
(***************************************************************************)
(* The embedding of texts (apps/agent/app/retrieval/embed.py): the vectors *)
(* that the corpus, the ranking and the store of runs are made with.  One  *)
(* cache per process, shared by the threads of all runs; the lock is held  *)
(* to look up and to store, never while Gemini is asked.                   *)
(***************************************************************************)
EXTENDS Naturals, Sequences

CONSTANTS Callers,   \* calls of embed_texts that may be under way at a time
          Asks,      \* lists of texts that are embedded together, none twice
          CacheMax,  \* _CACHE_MAX
          MaxAsks    \* BOUND on calls

ASSUME EmbeddingAssumption == CacheMax \in Nat \ {0} /\ MaxAsks \in Nat

VARIABLES
    keyed,     \* is a Google key set?  The provider in the cache's keys; never changes
    cached,    \* the cache: texts and who embedded each, the longest unused first
    embeds,    \* the calls
    asks       \* how many there were

embeddingVars == <<keyed, cached, embeds, asks>>

Quiet == [step |-> "quiet", ask |-> <<>>, by |-> <<>>, fresh |-> "none"]

EmbeddingInit ==
    /\ keyed \in BOOLEAN /\ cached = <<>> /\ asks = 0
    /\ embeds = [t \in Callers |-> Quiet]

InCache(ask) == {i \in 1..Len(ask) : \E k \in 1..Len(cached) : cached[k].text = ask[i]}
HitBy(x) == (CHOOSE k \in 1..Len(cached) : cached[k].text = x)
Misses(c) == SelectSeq(c.ask, LAMBDA x : \E i \in 1..Len(c.ask) : c.ask[i] = x /\ c.by[i] = "none")

\* move_to_end, one after the other ...
Used(q, entries) ==
    SelectSeq(q, LAMBDA e : \A i \in 1..Len(entries) : entries[i].text # e.text) \o entries
\* ... and popitem from the front while there are too many.
Newest(q) == IF Len(q) <= CacheMax THEN q ELSE SubSeq(q, Len(q) - CacheMax + 1, Len(q))

------------------------------------------------------------------------------

\* embed_texts, under the lock: what the cache holds is used, whoever embedded it.
LookUp(t, ask) ==
    LET hits == InCache(ask)
        c == [step |-> IF hits = 1..Len(ask) THEN "done" ELSE "missing", ask |-> ask,
              by |-> [i \in 1..Len(ask) |->
                        IF i \in hits THEN cached[HitBy(ask[i])].by ELSE "none"],
              fresh |-> "none"]
        touched == SelectSeq(ask, LAMBDA x : \E i \in hits : ask[i] = x)
    IN  /\ embeds[t].step \in {"quiet", "done"} /\ asks < MaxAsks
        /\ embeds' = [embeds EXCEPT ![t] = c]
        /\ cached' = Used(cached, [i \in 1..Len(touched) |-> cached[HitBy(touched[i])]])
        /\ asks' = asks + 1 /\ UNCHANGED keyed

\* _embed_uncached, without the lock: Gemini for all that is missing, with whichever
\* of the keys answers, or else the hash for all.
Compute(t) ==
    /\ embeds[t].step = "missing"
    /\ \E by \in IF keyed THEN {"gemini", "hash"} ELSE {"hash"} :
          embeds' = [embeds EXCEPT ![t].step = "computed", ![t].fresh = by]
    /\ UNCHANGED <<keyed, cached, asks>>

Stored(c) == LET missing == Misses(c) IN
    Newest(Used(cached, [i \in 1..Len(missing) |-> [text |-> missing[i], by |-> c.fresh]]))

\* Mutant: the call takes what is missing from the cache, where all should be by now.
StoreAndLookUp(t) ==
    LET c == embeds[t]  q == Stored(c) IN
    /\ c.step = "computed"
    /\ cached' = q
    /\ embeds' = [embeds EXCEPT ![t] = [c EXCEPT !.step = "done",
          !.by = [i \in 1..Len(c.ask) |->
                    IF \E k \in 1..Len(q) : q[k].text = c.ask[i]
                    THEN q[CHOOSE k \in 1..Len(q) : q[k].text = c.ask[i]].by ELSE c.by[i]]]]
    /\ UNCHANGED <<keyed, asks>>

\* The lock again: the cache takes the new vectors, and the call its own.
Store(t) ==
    LET c == embeds[t] IN
    /\ c.step = "computed"
    /\ cached' = Stored(c)
    /\ embeds' = [embeds EXCEPT ![t] = [c EXCEPT !.step = "done",
          !.by = [i \in 1..Len(c.ask) |-> IF c.by[i] = "none" THEN c.fresh ELSE c.by[i]]]]
    /\ UNCHANGED <<keyed, asks>>

EmbeddingNext == \E t \in Callers : (\E ask \in Asks : LookUp(t, ask)) \/ Compute(t) \/ Store(t)

EmbeddingSpec == EmbeddingInit /\ [][EmbeddingNext]_embeddingVars
------------------------------------------------------------------------------

\* A call returns a vector for every text, though a batch larger than the cache, or
\* another thread, may have pushed out what it found or stored before it returns;
\* and without a key no vector is Gemini's.
EveryTextEmbedded ==
    \A t \in Callers : embeds[t].step = "done" =>
        \A i \in 1..Len(embeds[t].ask) :
            embeds[t].by[i] \in IF keyed THEN {"gemini", "hash"} ELSE {"hash"}

\* embed.py:25-26: "The provider/model is part of the key, so switching from the
\* deterministic fallback to Gemini cannot return vectors from a different embedding
\* space."  It does: the hash of a text that Gemini failed for is cached under
\* Gemini's key, and a call that Gemini answers returns it among Gemini's vectors.
FallbackStaysApart ==
    \A t \in Callers : embeds[t].step = "done" /\ embeds[t].fresh = "gemini" =>
        \A i \in 1..Len(embeds[t].ask) : embeds[t].by[i] = "gemini"
=============================================================================
