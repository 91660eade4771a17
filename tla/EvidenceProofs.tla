--------------------------- MODULE EvidenceProofs ---------------------------
(***************************************************************************)
(* Proofs about the evidence of a run: what its research passes keep of it,  *)
(* and what the judges of a run make of it.                                 *)
(***************************************************************************)
EXTENDS Retrieval, QualityLoop, FiniteSetTheorems, WellFoundedInduction, NaturalsInduction, TLAPS

(* The working set. *)

RowsOK == {evidence, retrieved} \subseteq [Pages -> 0..2]

LEMMA PageFacts ==
    ASSUME NEW p \in Pages
    PROVE  /\ p.work \in Works /\ p.form \in {"page", "abs", "html"}
           /\ p.form = "page" <=> p.work \notin ArXiv
           /\ \A q \in Pages : q.work = p.work /\ q.form = p.form => q = p
<1>1. CASE p \in [work : Works \ ArXiv, form : {"page"}]
  BY <1>1 DEF Pages
<1>2. CASE p \in [work : ArXiv, form : {"abs", "html"}]
  BY <1>2, RetrievalAssumption DEF Pages
<1> QED BY <1>1, <1>2 DEF Pages

LEMMA LargerText ==
    ASSUME NEW a \in 0..2, NEW b \in 0..2
    PROVE  Max({a, b}) = IF a >= b THEN a ELSE b
<1>1. \A x \in {a, b} : (IF a >= b THEN a ELSE b) >= x
  OBVIOUS
<1>2. \A y \in {a, b} : (\A x \in {a, b} : y >= x) => y = IF a >= b THEN a ELSE b
  OBVIOUS
<1> QED BY <1>1, <1>2 DEF Max

LEMMA MergedRows ==
    ASSUME NEW left \in [Pages -> 0..2], NEW right \in [Pages -> 0..2]
    PROVE  /\ MergeUnique(left, right) \in [Pages -> 0..2]
           /\ Found(MergeUnique(left, right)) = Found(left) \cup Found(right)
<1>1. \A p \in Pages : MergeUnique(left, right)[p] = IF left[p] >= right[p] THEN left[p] ELSE right[p]
  BY LargerText DEF MergeUnique
<1>2. MergeUnique(left, right) \in [Pages -> 0..2]
  BY <1>1 DEF MergeUnique
<1> QED BY <1>1, <1>2 DEF Found

LEMMA RowsOfPages ==
    ASSUME NEW pages \in SUBSET Pages, NEW text \in {1, 2}
    PROVE  RowsOf(pages, text) \in [Pages -> 0..2] /\ Found(RowsOf(pages, text)) = pages
  BY DEF RowsOf, Found

LEMMA OnlyRows ==
    ASSUME NEW rows \in [Pages -> 0..2], NEW pages
    PROVE  /\ Only(rows, pages) \in [Pages -> 0..2]
           /\ Found(Only(rows, pages)) = Found(rows) \cap pages
           /\ \A p \in Found(rows) \cap pages : Only(rows, pages)[p] = rows[p]
  BY DEF Only, Found

\* Each work has one row after deduplication.
OnePerWork(rows) == \A p, q \in Found(rows) : p.work = q.work => p = q

LEMMA DedupedRows ==
    ASSUME NEW rows \in [Pages -> 0..2]
    PROVE  /\ Deduped(rows) \in [Pages -> 0..2] /\ Found(Deduped(rows)) \subseteq Found(rows)
           /\ OnePerWork(Deduped(rows))
           /\ OnePerWork(rows) => Deduped(rows) = rows
<1>1. Deduped(rows) \in [Pages -> 0..2] /\ Found(Deduped(rows)) \subseteq Found(rows)
  BY DEF Deduped, Found
<1>2. ASSUME NEW p \in Found(Deduped(rows)), NEW q \in Found(Deduped(rows)), p.work = q.work
      PROVE  p = q
  <2>1. p \in Pages /\ q \in Pages /\ p \in Found(rows) /\ q \in Found(rows)
    BY <1>1, <1>2 DEF Found
  <2>2. ~PreferPrimary(p, q) /\ ~PreferPrimary(q, p)
    BY <1>2, <2>1 DEF Deduped, Found
  <2>3. p.form = q.form
    BY <1>2, <2>1, <2>2, PageFacts DEF PreferPrimary
  <2> QED BY <1>2, <2>1, <2>3, PageFacts
<1>3. ASSUME OnePerWork(rows) PROVE Deduped(rows) = rows
  <2>1. ASSUME NEW p \in Pages, NEW q \in Found(rows), q.work = p.work, PreferPrimary(q, p)
        PROVE  rows[p] = 0
    <3>1. p # q
      BY <2>1 DEF PreferPrimary
    <3> QED BY <1>3, <2>1, <3>1 DEF OnePerWork, Found
  <2>2. \A p \in Pages : Deduped(rows)[p] = rows[p]
    BY <2>1 DEF Deduped
  <2> QED BY <1>1, <2>2
<1> QED BY <1>1, <1>2, <1>3 DEF OnePerWork

LEMMA PartOfOne ==
    ASSUME NEW rows, NEW part, OnePerWork(rows), Found(part) \subseteq Found(rows)
    PROVE  OnePerWork(part)
  BY DEF OnePerWork

LEMMA PoolFacts ==
    ASSUME NEW rows \in [Pages -> 0..2]
    PROVE  /\ PoolOf(rows) \in [Pages -> 0..2] /\ OnePerWork(PoolOf(rows))
           /\ OnTopic(Deduped(rows)) \subseteq Found(PoolOf(rows))
<1> DEFINE d == Deduped(rows)
<1>1. d \in [Pages -> 0..2] /\ OnePerWork(d)
  BY DedupedRows
<1>2. OnTopic(d) \subseteq Found(d)
  BY DEF OnTopic
<1>3. PoolOf(rows) = IF OnTopic(d) # {} THEN Only(d, OnTopic(d)) ELSE d
  BY DEF PoolOf
<1> HIDE DEF d
<1>4. Only(d, OnTopic(d)) \in [Pages -> 0..2] /\ Found(Only(d, OnTopic(d))) = OnTopic(d)
  BY <1>1, <1>2, OnlyRows
<1>5. OnePerWork(Only(d, OnTopic(d)))
  BY <1>1, <1>2, <1>4, PartOfOne
<1> QED BY <1>1, <1>2, <1>3, <1>4, <1>5 DEF d

LEMMA WorkingFacts ==
    ASSUME NEW rows \in [Pages -> 0..2]
    PROVE  /\ WorkingOf(rows) \in [Pages -> 0..2] /\ OnePerWork(WorkingOf(rows))
           /\ OnTopic(Deduped(rows)) \subseteq Found(WorkingOf(rows))
           /\ Found(WorkingOf(rows)) \subseteq Found(rows)
<1> DEFINE d == Deduped(rows)
<1>1. d \in [Pages -> 0..2] /\ OnePerWork(d) /\ Found(d) \subseteq Found(rows)
  BY DedupedRows
<1>2. OnTopic(d) \subseteq Found(d)
  BY DEF OnTopic
<1>3. WorkingOf(rows) = IF Cardinality(OnTopic(d)) >= MinOnTopic THEN Only(d, OnTopic(d)) ELSE d
  BY DEF WorkingOf
<1> HIDE DEF d
<1>4. Only(d, OnTopic(d)) \in [Pages -> 0..2] /\ Found(Only(d, OnTopic(d))) = OnTopic(d)
  BY <1>1, <1>2, OnlyRows
<1>5. OnePerWork(Only(d, OnTopic(d)))
  BY <1>1, <1>2, <1>4, PartOfOne
<1> QED BY <1>1, <1>2, <1>3, <1>4, <1>5 DEF d

RetrievalInv == RowsOK /\ OneWorkOneVote

LEMMA FetchKeeps ==
    ASSUME RetrievalInv, FanOut \/ Collector \/ Enrich
    PROVE  RetrievalInv'
<1> USE DEF RetrievalInv, RowsOK
<1>1. UNCHANGED retrieved
  BY DEF FanOut, Collector, Enrich
<1>2. OneWorkOneVote'
  BY <1>1 DEF OneWorkOneVote
<1>3. PICK pages \in SUBSET Pages, text \in {1, 2} : evidence' = MergeUnique(evidence, RowsOf(pages, text))
  <2>1. CASE FanOut
    BY <2>1 DEF FanOut, WithinReach, Text
  <2>2. CASE Collector
    BY <2>2 DEF Collector, Missing, Text
  <2>3. CASE Enrich
    <3>1. PICK paid : /\ paid \in InLine(Min({FetchCap, RemainingEnrich(budget.enrich)}))
                         \/ \E backers : paid \in ForGaps(evidence, backers,
                                             Min({FetchCap, RemainingEnrich(budget.enrich)}))
                      /\ \E got \in SUBSET (paid \cup {HtmlOf(p) : p \in paid}) :
                           evidence' = MergeUnique(evidence, RowsOf(got, Text.full))
      BY <2>3 DEF Enrich
    <3>2. paid \subseteq Pages
      BY <3>1 DEF InLine, ForGaps, kSubset, Thin, Fetchable, Found
    <3>3. PICK got \in SUBSET (paid \cup {HtmlOf(p) : p \in paid}) :
              evidence' = MergeUnique(evidence, RowsOf(got, Text.full))
      BY <3>1
    <3>6. \A p \in paid : HtmlOf(p) \in Pages
      <4>1. ASSUME NEW p \in paid PROVE HtmlOf(p) \in Pages
        <5>1. p \in Pages
          BY <3>2
        <5>2. CASE p.form # "abs"
          BY <5>1, <5>2 DEF HtmlOf
        <5>3. CASE p.form = "abs"
          <6>1. p \in [work : ArXiv, form : {"abs", "html"}]
            BY <5>1, <5>3 DEF Pages
          <6>2. HtmlOf(p) = [p EXCEPT !.form = "html"]
            BY <5>3 DEF HtmlOf
          <6>3. [p EXCEPT !.form = "html"] \in [work : ArXiv, form : {"abs", "html"}]
            BY <6>1
          <6> QED BY <6>2, <6>3 DEF Pages
        <5> QED BY <5>2, <5>3
      <4> QED BY <4>1
    <3>7. got \subseteq Pages
      BY <3>2, <3>3, <3>6
    <3> QED BY <3>3, <3>7 DEF Text
  <2> QED BY <2>1, <2>2, <2>3
<1>4. evidence' \in [Pages -> 0..2]
  BY <1>3, RowsOfPages, MergedRows
<1> QED BY <1>1, <1>2, <1>4

\* What the working set becomes when it is drawn up from a pool.
Drawn(pool, kept, new) == [p \in Pages |-> IF p \in new THEN pool[p] ELSE kept[p]]

LEMMA DrawnRows ==
    ASSUME NEW pool \in [Pages -> 0..2], NEW kept \in [Pages -> 0..2],
           Found(kept) \subseteq Found(pool), NEW new, new \subseteq Found(pool)
    PROVE  /\ Drawn(pool, kept, new) \in [Pages -> 0..2]
           /\ Found(Drawn(pool, kept, new)) \subseteq Found(pool)
           /\ Found(kept) \subseteq Found(Drawn(pool, kept, new))
  BY DEF Drawn, Found

LEMMA NotesHaveRows ==
    ASSUME RowsOK, NEW notes \in SUBSET {p \in Pages : p.work \in Corpus}
    PROVE  /\ MergeUnique(evidence, RowsOf(notes, Text.thin)) \in [Pages -> 0..2]
           /\ Found(MergeUnique(evidence, RowsOf(notes, Text.thin))) = Found(evidence) \cup notes
<1>1. RowsOf(notes, 1) \in [Pages -> 0..2] /\ Found(RowsOf(notes, 1)) = notes
  BY RowsOfPages
<1> QED BY <1>1, MergedRows DEF RowsOK, Text

\* A working set drawn up for a pool has a row per work, and all it had of the pool.
LEMMA RetrieveFacts ==
    ASSUME RetrievalInv, Retrieve
    PROVE  /\ retrieved' \in [Pages -> 0..2] /\ OnePerWork(retrieved')
           /\ \E notes \in SUBSET {p \in Pages : p.work \in Corpus} :
                Found(retrieved) \cap Found(PoolOf(MergeUnique(evidence, RowsOf(notes, Text.thin))))
                  \subseteq Found(retrieved')
<1> USE DEF RetrievalInv, RowsOK
<1>1. PICK notes \in SUBSET {p \in Pages : p.work \in Corpus} :
       LET pool == PoolOf(MergeUnique(evidence, RowsOf(notes, Text.thin)))
           kept == Kept(pool)
       IN  \E new \in SUBSET (Found(pool) \ Found(kept)) :
             /\ Cardinality(new) <= SlotK * Cardinality(Gaps)
             /\ IF new # {} \/ Found(kept) # {}
                THEN retrieved' = [p \in Pages |-> IF p \in new THEN pool[p] ELSE kept[p]]
                ELSE \E any \in SUBSET Found(pool) : retrieved' = Only(pool, any)
  BY DEF Retrieve
<1>2. PICK pool : pool = PoolOf(MergeUnique(evidence, RowsOf(notes, Text.thin)))
  OBVIOUS
<1>3. pool \in [Pages -> 0..2] /\ OnePerWork(pool)
  BY <1>2, NotesHaveRows, PoolFacts
<1>4. PICK kept : kept = Kept(pool)
  OBVIOUS
<1>5. kept \in [Pages -> 0..2] /\ Found(kept) = Found(retrieved) \cap Found(pool)
  BY <1>4, OnlyRows DEF Kept
<1>6. PICK new \in SUBSET (Found(pool) \ Found(kept)) :
             IF new # {} \/ Found(kept) # {}
             THEN retrieved' = Drawn(pool, kept, new)
             ELSE \E any \in SUBSET Found(pool) : retrieved' = Only(pool, any)
  BY <1>1, <1>2, <1>4 DEF Drawn
<1>7. CASE new # {} \/ Found(kept) # {}
  <2>1. retrieved' = Drawn(pool, kept, new)
    BY <1>6, <1>7
  <2>2. /\ retrieved' \in [Pages -> 0..2] /\ Found(retrieved') \subseteq Found(pool)
        /\ Found(kept) \subseteq Found(retrieved')
    BY <1>3, <1>5, <1>6, <2>1, DrawnRows
  <2>3. OnePerWork(retrieved')
    BY <1>3, <2>2, PartOfOne
  <2> QED BY <1>2, <1>5, <2>2, <2>3
<1>8. CASE ~(new # {} \/ Found(kept) # {})
  <2>1. PICK any \in SUBSET Found(pool) : retrieved' = Only(pool, any)
    BY <1>6, <1>8
  <2>2. retrieved' \in [Pages -> 0..2] /\ Found(retrieved') \subseteq Found(pool)
    BY <1>3, <2>1, OnlyRows
  <2>3. OnePerWork(retrieved')
    BY <1>3, <2>2, PartOfOne
  <2> QED BY <1>2, <1>5, <1>8, <2>2, <2>3
<1> QED BY <1>7, <1>8

\* The rows a pass is about to read, and what is left of them.
Before == IF Found(retrieved) = {} THEN evidence ELSE retrieved

LEMMA ExtractFacts ==
    ASSUME RetrievalInv, Extract
    PROVE  /\ retrieved' \in [Pages -> 0..2] /\ OnePerWork(retrieved')
           /\ OnTopic(Deduped(Before)) \subseteq Found(retrieved')
<1> USE DEF RetrievalInv, RowsOK
<1>1. PICK w : w = WorkingOf(Before)
  OBVIOUS
<1>2. Before \in [Pages -> 0..2]
  BY DEF Before
<1>3. /\ w \in [Pages -> 0..2] /\ OnePerWork(w)
      /\ OnTopic(Deduped(Before)) \subseteq Found(w)
  BY <1>1, <1>2, WorkingFacts
<1>4. PICK paid : /\ \E first : paid \in MicroPaid(w, first)
                  /\ \E got \in SUBSET paid :
                       retrieved' = IF got = {} THEN w ELSE WorkingOf(MergeUnique(w, RowsOf(got, Text.full)))
  BY <1>1 DEF Extract, Before
<1>5. PICK got \in SUBSET paid :
           retrieved' = IF got = {} THEN w ELSE WorkingOf(MergeUnique(w, RowsOf(got, Text.full)))
  BY <1>4
<1>6. CASE got = {}
  BY <1>3, <1>5, <1>6
<1>7. CASE got # {}
  <2> DEFINE more == MergeUnique(w, RowsOf(got, Text.full))
  <2>1. got \subseteq Found(w) /\ got \subseteq Pages
    BY <1>4, <1>5, <1>7 DEF MicroPaid, ForGaps, kSubset, Thin, Fetchable, Found
  <2>2. RowsOf(got, 2) \in [Pages -> 0..2] /\ Found(RowsOf(got, 2)) = got
    BY <2>1, RowsOfPages
  <2>3. more \in [Pages -> 0..2] /\ Found(more) = Found(w)
    BY <1>3, <2>1, <2>2, MergedRows DEF Text
  <2>4. retrieved' = WorkingOf(more)
    BY <1>5, <1>7
  <2> HIDE DEF more
  <2>5. OnePerWork(more)
    BY <1>3, <2>3, PartOfOne
  <2>6. Deduped(more) = more
    BY <2>3, <2>5, DedupedRows
  <2>7. OnTopic(Deduped(Before)) \subseteq OnTopic(more)
    BY <1>3, <2>3 DEF OnTopic
  <2> QED BY <2>3, <2>4, <2>6, <2>7, WorkingFacts
<1> QED BY <1>6, <1>7

LEMMA ReadingKeeps ==
    ASSUME RetrievalInv, Retrieve \/ Extract
    PROVE  RetrievalInv'
<1>1. retrieved' \in [Pages -> 0..2] /\ OnePerWork(retrieved')
  BY RetrieveFacts, ExtractFacts
<1>2. UNCHANGED evidence
  BY DEF Retrieve, Extract
<1> QED BY <1>1, <1>2 DEF RetrievalInv, RowsOK, OneWorkOneVote, OnePerWork

\* The working set has one row per work from the start, and every pass keeps it so.
THEOREM RetrievalInvariance == Spec => []RetrievalInv
<1>1. Init => RetrievalInv
  BY DEF Init, RetrievalInv, RowsOK, OneWorkOneVote, NoRows, Found
<1>2. ASSUME RetrievalInv, [Next]_vars PROVE RetrievalInv'
  <2>1. CASE UNCHANGED vars
    BY <1>2, <2>1 DEF vars, RetrievalInv, RowsOK, OneWorkOneVote
  <2>2. CASE Plan \/ Critic
    BY <1>2, <2>2 DEF Plan, Critic, RetrievalInv, RowsOK, OneWorkOneVote
  <2> QED
    BY <1>2, <2>1, <2>2, FetchKeeps, ReadingKeeps DEF Next
<1> QED BY <1>1, <1>2, PTL DEF Spec

\* A paper found at two addresses is one vote for a dimension, in every pass.
THEOREM WorksVoteOnce == Spec => []OneWorkOneVote
<1>1. RetrievalInv => OneWorkOneVote
  BY DEF RetrievalInv
<1> QED BY <1>1, RetrievalInvariance, PTL

\* A note has one page, so that no note stands in for a row of another work's page.
LEMMA NotesEvictNothing ==
    ASSUME RowsOK, NEW notes \in SUBSET {q \in Pages : q.work \in Corpus},
           NEW p \in OnTopic(Deduped(evidence))
    PROVE  p \in Found(PoolOf(MergeUnique(evidence, RowsOf(notes, Text.thin))))
<1> DEFINE rows == MergeUnique(evidence, RowsOf(notes, Text.thin))
<1>1. rows \in [Pages -> 0..2] /\ Found(rows) = Found(evidence) \cup notes
  BY NotesHaveRows
<1>2. p \in Pages /\ p.work \notin OffTopic /\ p \in Found(Deduped(evidence))
  BY DEF OnTopic, Found
<1>3. p \in Found(evidence) /\ ~\E q \in Found(evidence) : q.work = p.work /\ PreferPrimary(q, p)
  BY <1>2 DEF Deduped, Found
<1> HIDE DEF rows
<1>4. ASSUME NEW q \in notes PROVE ~PreferPrimary(q, p)
  BY <1>4, PageFacts, RetrievalAssumption DEF PreferPrimary
<1>5. Deduped(rows)[p] = rows[p] /\ rows[p] # 0
  BY <1>1, <1>2, <1>3, <1>4 DEF Deduped, Found
<1>6. p \in OnTopic(Deduped(rows))
  BY <1>2, <1>5 DEF OnTopic, Found
<1> QED BY <1>1, <1>6, PoolFacts DEF rows

\* No pass takes a row from a covered dimension while the pool still has it.
THEOREM CoveredRowsAreKept == Spec => WorkingSetKept
<1> DEFINE Kept1 == \A s \in Slots : slots[s] = "covered" =>
                      \A p \in Found(retrieved) \cap backing[s] :
                        p \in OnTopic(Deduped(evidence')) => p \in Found(retrieved')
<1>1. ASSUME RetrievalInv, [Next]_vars PROVE [Kept1]_vars
  <2> SUFFICES ASSUME NEW p \in Found(retrieved), p \in OnTopic(Deduped(evidence'))
               PROVE  p \in Found(retrieved')
    OBVIOUS
  <2>1. CASE retrieved' = retrieved
    BY <2>1
  <2>2. CASE Retrieve
    <3>1. UNCHANGED evidence
      BY <2>2 DEF Retrieve
    <3>2. p \in OnTopic(Deduped(evidence))
      BY <3>1
    <3>3. \A notes \in SUBSET {q \in Pages : q.work \in Corpus} :
            p \in Found(PoolOf(MergeUnique(evidence, RowsOf(notes, Text.thin))))
      BY <1>1, <3>2, NotesEvictNothing DEF RetrievalInv
    <3> QED BY <1>1, <2>2, <3>3, RetrieveFacts
  <2>3. CASE Extract
    <3>1. Before = retrieved
      BY DEF Before
    <3>2. Deduped(retrieved) = retrieved
      BY <1>1, DedupedRows DEF RetrievalInv, RowsOK, OneWorkOneVote, OnePerWork
    <3>3. p.work \notin OffTopic
      BY DEF OnTopic
    <3>4. p \in OnTopic(Deduped(Before))
      BY <3>1, <3>2, <3>3 DEF OnTopic
    <3> QED BY <1>1, <2>3, <3>4, ExtractFacts
  <2> QED
    BY <1>1, <2>1, <2>2, <2>3 DEF Next, Plan, FanOut, Collector, Enrich, Critic, vars
<1> QED BY <1>1, RetrievalInvariance, PTL DEF Spec, WorkingSetKept

-----------------------------------------------------------------------------
(* The judges. *)

\* Some numbers have a least one.
LEMMA NatMin == ASSUME NEW S \in SUBSET Nat, S # {} PROVE \E x \in S : \A y \in S : x <= y
<1>1. IsWellFoundedOn(OpToRel(<, Nat), Nat)
  BY NatLessThanWellFounded
<1>2. PICK x \in S : \A y \in S : ~(<<y, x>> \in OpToRel(<, Nat))
  BY <1>1, WFMin
<1>3. \A y \in S : ~(y < x)
  BY <1>2 DEF OpToRel
<1> QED BY <1>3
\* Division with a remainder.
LEMMA DivFacts == ASSUME NEW a \in Nat, NEW b \in Nat \ {0}
  PROVE a \div b \in Nat /\ a % b \in 0..b-1 /\ a = b * (a \div b) + (a % b)
 OBVIOUS
\* A share of something is at most the whole of it.
LEMMA PercentRange == ASSUME NEW n \in Nat, NEW d \in Nat \ {0}
  PROVE Percent(n, d) \in 0..100
<1> DEFINE a == 100 * (IF n < d THEN n ELSE d)
<1>1. a \in Nat /\ a <= 100 * d
  OBVIOUS
<1> HIDE DEF a
<1>2. PICK q \in Nat, r \in Nat : q = a \div d /\ r = a % d /\ r < d /\ a = d * q + r
  BY <1>1, DivFacts
<1>3. q <= 100
  <2> SUFFICES ASSUME q >= 101 PROVE FALSE
   BY <1>2
  <2>1. d * q >= d * 101
   BY <1>2
  <2> QED BY <1>1, <1>2, <2>1
<1>4. q = 100 => r = 0
  BY <1>1, <1>2
<1>5. Percent(n, d) = IF 2 * r > d \/ (2 * r = d /\ q % 2 = 1) THEN q + 1 ELSE q
  BY <1>2 DEF Percent, Rounded, a
<1> QED BY <1>2, <1>3, <1>4, <1>5

\* Counts of dimensions.
LEMMA CountFacts ==
    ASSUME NEW f \in Gradable
    PROVE  /\ \A st \in {"open", "weak", "covered"} :
                 IsFiniteSet(With(f, st)) /\ Cardinality(With(f, st)) \in Nat
           /\ Total(Dims) \in Nat \ {0} /\ Total(CriticalDims) \in Nat \ {0}
           /\ Cardinality(With(f, "covered")) <= Cardinality(Dims) /\ Cardinality(Dims) \in Nat
           /\ Cardinality(With(f, "open")) + Cardinality(With(f, "weak"))
                >= Cardinality(Dims) - Cardinality(With(f, "covered"))
<1>1. \A S \in SUBSET Dims : IsFiniteSet(S) /\ Cardinality(S) \in Nat /\ Cardinality(S) <= Cardinality(Dims)
  BY DimsAssumption, FS_Subset, FS_CardinalityType
<1>2. \A st : With(f, st) \in SUBSET Dims
  BY DEF With
<1>3. \A S \in SUBSET Dims : Total(S) \in Nat \ {0}
  BY <1>1, FS_EmptySet DEF Total
<1>4. Cardinality(With(f, "open")) + Cardinality(With(f, "weak"))
                >= Cardinality(Dims) - Cardinality(With(f, "covered"))
  <2> DEFINE o == With(f, "open")
             w == With(f, "weak")
             c == With(f, "covered")
  <2>1. Dims = (o \cup w) \cup c
    BY DEF Gradable, With
  <2>2. IsFiniteSet(o) /\ IsFiniteSet(w) /\ IsFiniteSet(c) /\ o \cup w \in SUBSET Dims
    BY <1>1, <1>2
  <2> HIDE DEF o, w, c
  <2>3. /\ Cardinality(o) \in Nat /\ Cardinality(w) \in Nat /\ Cardinality(c) \in Nat
        /\ Cardinality(o \cap w) \in Nat /\ IsFiniteSet(o \cup w)
        /\ Cardinality(o \cup w) = Cardinality(o) + Cardinality(w) - Cardinality(o \cap w)
    BY <1>1, <2>2, FS_CardinalityType, FS_Union, FS_Intersection
  <2>4. /\ Cardinality((o \cup w) \cap c) \in Nat
        /\ Cardinality(Dims) = Cardinality(o \cup w) + Cardinality(c) - Cardinality((o \cup w) \cap c)
    BY <2>1, <2>2, <2>3, FS_CardinalityType, FS_Union, FS_Intersection
  <2>5. Cardinality(o) + Cardinality(w) >= Cardinality(Dims) - Cardinality(c)
    BY <2>3, <2>4
  <2> QED BY <2>5 DEF o, w, c
<1> QED BY <1>1, <1>2, <1>3, <1>4, DimsAssumption

LEMMA PercentTypes ==
    ASSUME NEW f \in Gradable, NEW q \in Questions
    PROVE  /\ MustPct(f) \in 0..100 /\ CriticalPct(f) \in 0..100 /\ PrimaryPct(f) \in 0..100
           /\ FifthPct(f, q) \in 0..100 /\ QuantPct(f, q) \in 0..100
           /\ Percent(Cardinality(With(f, "covered")), 4) \in 0..100
<1>1. f.primary \in Nat /\ f.works \in Nat /\ f.measured \in Nat /\ f.rows \in Nat
  BY DEF Gradable
<1>2. MustPct(f) \in 0..100 /\ Percent(Cardinality(With(f, "covered")), 4) \in 0..100
  <2> DEFINE n == Cardinality(With(f, "covered"))
             t == Total(Dims)
  <2>1. n \in Nat /\ t \in Nat \ {0}
    BY CountFacts
  <2>2. MustPct(f) = Percent(n, t)
    BY DEF MustPct
  <2>3. 4 \in Nat \ {0}
    OBVIOUS
  <2> HIDE DEF n, t
  <2>4. Percent(n, t) \in 0..100
    BY ONLY <2>1, PercentRange
  <2>5. Percent(n, 4) \in 0..100
    BY ONLY <2>1, <2>3, PercentRange
  <2> QED BY <2>2, <2>4, <2>5 DEF n
<1>3. CriticalPct(f) \in 0..100
  <2>1. \A st \in {"covered", "weak"} : Cardinality(CriticalDims \cap With(f, st)) \in Nat
    BY DimsAssumption, FS_Subset, FS_CardinalityType DEF With
  <2>2. 2 * Cardinality(CriticalDims \cap With(f, "covered"))
          + Cardinality(CriticalDims \cap With(f, "weak")) \in Nat
    BY <2>1
  <2>3. 2 * Total(CriticalDims) \in Nat \ {0}
    BY CountFacts
  <2> QED BY <2>2, <2>3, PercentRange DEF CriticalPct
<1>4. PrimaryPct(f) \in 0..100
  <2>1. Cardinality(Dims) \div 2 \in Nat
    BY CountFacts, DivFacts
  <2> QED BY <1>1, <2>1, PercentRange DEF PrimaryPct
<1>5. FifthPct(f, q) \in 0..100
  <2>1. ImplementationPct(f, q) \in {0, 50, 100}
    BY DEF ImplementationPct
  <2>2. Percent(f.works, 4) \in 0..100
    BY <1>1, PercentRange
  <2> QED BY <2>1, <2>2 DEF FifthPct
<1>6. QuantPct(f, q) \in 0..100
  <2>1. Percent(f.measured, 3) \in 0..100
    BY <1>1, PercentRange
  <2> QED BY <2>1 DEF QuantPct
<1> QED BY <1>2, <1>3, <1>4, <1>5, <1>6

\* A weighted score of hundredths is rounded to a number of its size.
LEMMA RoundedPercent ==
    ASSUME NEW x \in Nat
    PROVE  Rounded(x, 100) \in Nat /\ (x <= 8740 => Rounded(x, 100) <= 87)
<1>1. PICK q \in Nat, r \in Nat : q = x \div 100 /\ r = x % 100 /\ r < 100 /\ x = 100 * q + r
  BY DivFacts
<1>2. Rounded(x, 100) = IF 2 * r > 100 \/ (2 * r = 100 /\ q % 2 = 1) THEN q + 1 ELSE q
  BY <1>1 DEF Rounded
<1>3. q + 1 \in Nat
  OBVIOUS
<1>4. ASSUME x <= 8740 PROVE Rounded(x, 100) <= 87
  <2>1. q <= 87 /\ (q = 87 => r <= 40)
    BY <1>1, <1>4
  <2> QED BY <1>1, <1>2, <2>1
<1> QED BY <1>2, <1>3, <1>4

LEMMA WeightedFacts ==
    ASSUME NEW f \in Gradable, NEW q \in Questions
    PROVE  Weighted(f, q) \in Nat /\ (MustPct(f) <= 64 => Weighted(f, q) <= 87)
<1>1. PICK m, c, p, x, h, n \in 0..100 :
        /\ m = MustPct(f) /\ c = CriticalPct(f) /\ p = PrimaryPct(f)
        /\ x = Percent(Cardinality(With(f, "covered")), 4)
        /\ h = FifthPct(f, q) /\ n = QuantPct(f, q)
  BY PercentTypes
<1>2. Weighted(f, q) = Rounded(35 * m + 30 * c + 15 * p + 5 * x + 5 * h + 10 * n, 100)
  BY <1>1 DEF Weighted
<1>3. 35 * m + 30 * c + 15 * p + 5 * x + 5 * h + 10 * n \in Nat
  OBVIOUS
<1>4. m <= 64 => 35 * m + 30 * c + 15 * p + 5 * x + 5 * h + 10 * n <= 8740
  OBVIOUS
<1> QED BY <1>1, <1>2, <1>3, <1>4, RoundedPercent

\* The least of some numbers is one of them and at most each.
LEMMA LeastFacts ==
    ASSUME NEW S \in SUBSET Nat, S # {}
    PROVE  Least(S) \in S /\ \A x \in S : Least(S) <= x
  BY NatMin DEF Least

LEMMA PenaltyFacts ==
    ASSUME NEW f \in Gradable
    PROVE  /\ Penalty(f) \in Nat
           /\ With(f, "weak") # {} => Penalty(f) >= 2
           /\ Cardinality(With(f, "open")) + Cardinality(With(f, "weak")) >= 2 => Penalty(f) >= 4
<1>1. PICK o \in Nat, w \in Nat : o = Cardinality(With(f, "open")) /\ w = Cardinality(With(f, "weak"))
  BY CountFacts
<1>2. With(f, "weak") # {} => w >= 1
  BY <1>1, CountFacts, FS_EmptySet
<1>3. PICK a \in Nat : a = Least({10, 3 * o}) /\ a = IF 3 * o < 10 THEN 3 * o ELSE 10
  <2>1. {10, 3 * o} \in SUBSET Nat
    OBVIOUS
  <2> QED BY <2>1, LeastFacts
<1>4. PICK b \in Nat : b = Least({5, 2 * w}) /\ b = IF 2 * w < 5 THEN 2 * w ELSE 5
  <2>1. {5, 2 * w} \in SUBSET Nat
    OBVIOUS
  <2> QED BY <2>1, LeastFacts
<1>5. PICK few \in {0, 8, 15, 25}, less \in {0, 5} : Penalty(f) = a + b + less + few
  <2> DEFINE few == CASE f.rows \in 1 .. 2 -> 25
                      [] f.rows \in 3 .. 4 -> 15
                      [] f.rows \in 5 .. 7 -> 8
                      [] OTHER -> 0
             less == IF f.primary \in 1 .. 2 THEN 5 ELSE 0
  <2>1. Penalty(f) = a + b + less + few
    BY <1>1, <1>3, <1>4 DEF Penalty
  <2>2. few \in {0, 8, 15, 25} /\ less \in {0, 5}
    OBVIOUS
  <2> QED BY <2>1, <2>2
<1>6. Penalty(f) \in Nat /\ Penalty(f) >= a + b
  BY <1>5
<1>7. (w >= 1 => b >= 2) /\ (o + w >= 2 => a + b >= 4)
  BY <1>3, <1>4
<1> QED BY <1>1, <1>2, <1>3, <1>4, <1>6, <1>7

\* Three in five dimensions answered, but not thirteen in twenty, leaves two.
LEMMA TwoUnanswered ==
    ASSUME NEW k \in Nat, NEW n \in Nat \ {0}, k <= n, Percent(k, n) \in 60..64
    PROVE  n - k >= 2
<1> SUFFICES ASSUME n - k < 2 PROVE FALSE
  OBVIOUS
<1> DEFINE a == 100 * (IF k < n THEN k ELSE n)
<1>1. a = 100 * k
  OBVIOUS
<1>2. a \in Nat
  BY <1>1
<1> HIDE DEF a
<1>3. PICK q \in Nat, r \in Nat : q = a \div n /\ r = a % n /\ r < n /\ a = n * q + r
  <2>1. a \div n \in Nat /\ a % n \in 0..n - 1 /\ a = n * (a \div n) + (a % n)
    BY <1>2, DivFacts
  <2>2. a % n \in Nat /\ a % n < n
    BY <2>1
  <2> QED BY <2>1, <2>2
<1>4. Percent(k, n) = IF 2 * r > n \/ (2 * r = n /\ q % 2 = 1) THEN q + 1 ELSE q
  BY <1>3 DEF Percent, Rounded, a
<1>5. q <= 64 /\ q >= 59
  BY <1>3, <1>4
<1>6. n * q <= n * 64
  BY <1>3, <1>5
<1>7. a < 65 * n
  BY <1>3, <1>6
<1>8. a >= 100 * n - 100
  BY <1>1
<1>9. n <= 2
  BY <1>7, <1>8, <1>2
<1>10. n * q >= n * 59
  BY <1>3, <1>5
<1>11. (n = 1 \/ n = 2) /\ (k = n \/ k = n - 1)
  BY <1>9
<1> QED BY <1>1, <1>3, <1>5, <1>7, <1>10, <1>11

\* What the score is capped by.
LEMMA ScoreFacts ==
    ASSUME NEW f \in Gradable, NEW q \in Questions
    PROVE  /\ DepthScore(f, q) \in Nat
           /\ \A c \in Ceilings(f, q) \cup {Weighted(f, q)} :
                DepthScore(f, q) <= c - Penalty(f) \/ DepthScore(f, q) = 0
           /\ \A c \in LateCeilings(f) : DepthScore(f, q) <= c
<1> DEFINE S == {Weighted(f, q)} \cup Ceilings(f, q)
           capped == Least(S) - Penalty(f)
           T == {IF capped > 0 THEN capped ELSE 0} \cup LateCeilings(f)
<1>1. S \in SUBSET Nat /\ S # {}
  BY WeightedFacts DEF Ceilings
<1>2. Least(S) \in Nat /\ \A c \in S : Least(S) <= c
  BY <1>1, LeastFacts
<1>3. DepthScore(f, q) = Least(T)
  BY DEF DepthScore
<1>4. PICK l \in Nat, p \in Nat : l = Least(S) /\ p = Penalty(f)
  BY <1>2, PenaltyFacts
<1>5. PICK z \in Nat : z = (IF capped > 0 THEN capped ELSE 0) /\ (z = l - p \/ z = 0)
  BY <1>4
<1>6. T \in SUBSET Nat /\ T # {} /\ z \in T
  BY <1>5 DEF LateCeilings
<1>7. Least(T) \in Nat /\ \A c \in T : Least(T) <= c
  BY <1>6, LeastFacts
<1> HIDE DEF S, capped
<1>8. PICK s \in Nat : s = Least(T) /\ s <= z
  BY <1>6, <1>7
<1>9. ASSUME NEW c \in S PROVE s <= c - p \/ s = 0
  <2>1. l <= c /\ c \in Nat
    BY <1>1, <1>2, <1>4
  <2> QED BY <1>5, <1>8, <2>1
<1> QED BY <1>3, <1>4, <1>7, <1>8, <1>9 DEF S

\* Evidence that is called deep or excellent is evidence the critic would pass.
LEMMA GradeFacts ==
    ASSUME NEW f \in Gradable, NEW q \in Questions,
           \/ DepthScore(f, q) >= 85 /\ CriticalGaps(f) = {}
           \/ DepthScore(f, q) >= 80 /\ MustPct(f) >= 75
    PROVE  CriticalGaps(f) = {} /\ f.primary > 0 /\ MustPct(f) >= 65
<1> DEFINE w == Weighted(f, q)
<1>1. PICK s \in Nat, p \in Nat, m \in 0..100 :
        s = DepthScore(f, q) /\ p = Penalty(f) /\ m = MustPct(f)
  BY ScoreFacts, PenaltyFacts, PercentTypes
<1>2. \A c \in Ceilings(f, q) \cup {w} : s <= c - p \/ s = 0
  BY <1>1, ScoreFacts
<1>3. \A c \in LateCeilings(f) : s <= c
  BY <1>1, ScoreFacts
<1>4. s >= 80
  BY <1>1
<1>5. \A c \in Ceilings(f, q) : c \in Nat /\ c >= 80 + p
  <2>1. \A c \in Ceilings(f, q) : c \in Nat
    BY DEF Ceilings
  <2> QED BY <1>1, <1>2, <1>4, <2>1
<1>6. f.primary > 0
  <2> SUFFICES ASSUME f.primary = 0 PROVE FALSE
    BY DEF Gradable
  <2>1. f.rows \in Nat
    BY DEF Gradable
  <2>2. f.rows < 3 \/ f.rows \in 3..4 \/ f.rows >= 5
    BY <2>1
  <2>3. \E c \in {35, 45, 55} : c \in Ceilings(f, q)
    BY <2>2 DEF Ceilings
  <2> QED BY <1>1, <1>5, <2>3
<1>7. CriticalGaps(f) = {}
  <2> SUFFICES ASSUME NEW d \in CriticalGaps(f) PROVE FALSE
    OBVIOUS
  <2>1. d \in CriticalDims /\ d \in Dims /\ f.status[d] \in {"open", "weak"}
    BY DimsAssumption DEF CriticalGaps, Gradable
  <2>2. CASE f.status[d] = "open"
    <3>1. 65 \in Ceilings(f, q)
      BY <2>1, <2>2 DEF Ceilings, With
    <3> QED BY <1>1, <1>5, <3>1
  <2>3. CASE f.status[d] = "weak"
    <3>1. 80 \in Ceilings(f, q) /\ With(f, "weak") # {}
      BY <2>1, <2>3 DEF Ceilings, With
    <3>2. p >= 2
      BY <1>1, <3>1, PenaltyFacts
    <3> QED BY <1>1, <1>5, <3>1, <3>2
  <2> QED BY <2>1, <2>2, <2>3
<1>8. m >= 65
  <2> SUFFICES ASSUME m <= 64 PROVE FALSE
    BY <1>1
  <2>1. s >= 85
    BY <1>1
  <2>2. m >= 60
    <3>1. \A c \in LateCeilings(f) : c >= 85
      BY <1>3, <2>1, <1>1 DEF LateCeilings
    <3>2. m < 50 => 45 \in LateCeilings(f)
      BY <1>1 DEF LateCeilings
    <3>3. m \in 50..59 => 52 \in LateCeilings(f)
      BY <1>1 DEF LateCeilings
    <3> QED BY <1>1, <3>1, <3>2, <3>3
  <2>3. w \in Nat /\ w <= 87
    BY <1>1, WeightedFacts
  <2>4. p <= 2
    BY <1>1, <1>2, <2>1, <2>3
  <2>5. PICK k \in Nat, n \in Nat \ {0} :
          k = Cardinality(With(f, "covered")) /\ n = Total(Dims) /\ k <= n /\ m = Percent(k, n)
    <3>1. Cardinality(Dims) \in Nat /\ Total(Dims) \in Nat \ {0} /\ Cardinality(Dims) <= Total(Dims)
      <4>1. CASE Dims = {}
        BY <4>1, FS_EmptySet DEF Total
      <4>2. CASE Dims # {}
        BY <4>2, CountFacts DEF Total
      <4> QED BY <4>1, <4>2
    <3>2. /\ Cardinality(With(f, "covered")) \in Nat
          /\ Cardinality(With(f, "covered")) <= Total(Dims)
      BY <3>1, CountFacts
    <3> QED BY <1>1, <3>1, <3>2 DEF MustPct
  <2>6. n - k >= 2
    BY <1>1, <2>2, <2>5, TwoUnanswered
  <2>7. n = Cardinality(Dims)
    <3>1. CASE Dims = {}
      <4>1. n = 1
        BY <2>5, <3>1 DEF Total
      <4> QED BY <2>5, <2>6, <4>1
    <3> QED BY <2>5, <3>1 DEF Total
  <2>8. Cardinality(With(f, "open")) + Cardinality(With(f, "weak")) >= 2
    <3>1. PICK o \in Nat, x \in Nat : o = Cardinality(With(f, "open")) /\ x = Cardinality(With(f, "weak"))
      BY CountFacts
    <3>2. o + x >= n - k
      BY <2>5, <2>7, <3>1, CountFacts
    <3> QED BY <2>5, <2>6, <3>1, <3>2
  <2> QED BY <1>1, <2>4, <2>8, PenaltyFacts
<1> QED BY <1>1, <1>6, <1>7, <1>8

\* The critic puts what was fruitless aside, and searches for what is not.
LEMMA CriticKeeps ==
    ASSUME QualityInv, CriticJudges
    PROVE  FruitlessAside' /\ FruitlessNotRepeated'
<1> USE DEF QualityInv, FruitlessAside
<1>1. /\ where = "critic" /\ where' = "edge" /\ unproductive' = Aside
      /\ UNCHANGED <<found, question, fruitless>>
      /\ history' = LastThree(Append(history, Snapshot(found, question)))
  BY DEF CriticJudges
<1>2. PICK now \in Snapshots : now = Snapshot(found, question)
  <2>1. Snapshot(found, question) \in Snapshots
    BY DEF Snapshots
  <2> QED BY <2>1
<1>3. history' \in Seq(Snapshots) /\ history' # <<>> /\ history'[Len(history')] = now
  <2>1. PICK h \in Seq(Snapshots) : h = Append(history, now)
    <3>1. Append(history, now) \in Seq(Snapshots)
      OBVIOUS
    <3> QED BY <3>1
  <2>2. PICK n \in Nat : n = Len(history) /\ Len(h) = n + 1 /\ h[n + 1] = now
    BY <2>1
  <2>3. history' = IF Len(h) > 3 THEN Tail(h) ELSE h
    BY <1>1, <1>2, <2>1 DEF LastThree
  <2>4. CASE Len(h) > 3
    <3>1. Tail(h) \in Seq(Snapshots) /\ Len(Tail(h)) = n
      BY <2>2, <2>4
    <3>2. Tail(h)[n] = h[n + 1]
      BY <2>2, <2>4
    <3>3. n > 0
      BY <2>2, <2>4
    <3> QED BY <2>2, <2>3, <2>4, <3>1, <3>2, <3>3
  <2>5. CASE ~(Len(h) > 3)
    <3>1. h # <<>>
      BY <2>2
    <3> QED BY <2>2, <2>3, <2>5, <3>1
  <2> QED BY <2>4, <2>5
<1>4. ASSUME verdict'.status = "insufficient"
      PROVE  followups' \subseteq attempted' /\ followups' \cap Aside = {}
  <2>1. PICK asked : asked = FollowupsForGaps(found, Aside, GapLimit)
    OBVIOUS
  <2>2. asked \cap Aside = {}
    BY <2>1 DEF FollowupsForGaps, First
  <2>3. ~ShouldPass(found, question)
    BY <1>4 DEF CriticJudges
  <2>4. attempted' = IF CanLoop2 THEN asked ELSE {}
    BY <2>1, <2>3 DEF CriticJudges
  <2>5. followups' = IF CanLoop2 THEN asked ELSE {}
    <3>1. CASE CanLoop2
      BY <2>1, <2>3, <3>1 DEF CriticJudges
    <3>2. CASE ~CanLoop2
      BY <3>2 DEF CriticJudges
    <3> QED BY <3>1, <3>2
  <2> QED BY <2>2, <2>4, <2>5
<1>5. fruitless \subseteq Aside
  BY <1>1
<1>6. FruitlessAside'
  <2>1. Unmoved'
    BY <1>1, <1>2, <1>3 DEF Unmoved
  <2> QED BY <1>1, <1>3, <1>4, <1>5, <2>1
<1> QED BY <1>1, <1>4, <1>5, <1>6 DEF FruitlessNotRepeated

\* What the critic said is kept by all others.
LEMMA VerdictsAreJudgements ==
    ASSUME QualityInv, CriticJudges
    PROVE  \E f \in Evidences, q \in Questions : JudgedBy(f, q)'
<1>1. PICK f \in Evidences, q \in Questions : f = found /\ q = question
  BY DEF QualityInv, FruitlessAside
<1>2. verdict'.must = MustPct(f) /\ verdict'.score = DepthScore(f, q)
  BY <1>1 DEF CriticJudges, Snapshot
<1>3. verdict'.label = DepthLabel(f, q) /\ verdict'.coverage = CoverageOf(f)
  BY <1>1 DEF CriticJudges
<1>4. JudgedBy(f, q)'
  BY <1>2, <1>3 DEF JudgedBy
<1> QED BY <1>4

LEMMA SearchKeeps ==
    ASSUME QualityInv, SearchAgain
    PROVE  QualityInv'
<1> USE DEF QualityInv, FruitlessAside
<1>1. /\ where = "search" /\ where' = "critic"
      /\ UNCHANGED <<question, verdict, followups, attempted, unproductive, history>>
  BY DEF SearchAgain
<1>2. found' \in Evidences
  BY DEF SearchAgain, Evidences
<1>3. fruitless' \subseteq Aside'
  <2>1. CASE verdict.status = "insufficient" /\ Snapshot(found', question) = Snapshot(found, question)
    <3>1. fruitless' = fruitless \cup (followups \ {OwnQuestion})
      BY <2>1 DEF SearchAgain
    <3>2. Unmoved'
      BY <1>1, <2>1 DEF Unmoved
    <3> QED BY <1>1, <2>1, <3>1, <3>2 DEF Aside
  <2>2. CASE ~(verdict.status = "insufficient" /\ Snapshot(found', question) = Snapshot(found, question))
    <3>1. fruitless' = fruitless
      BY <2>2 DEF SearchAgain
    <3> QED BY <1>1, <3>1 DEF Aside
  <2> QED BY <2>1, <2>2
<1> QED BY <1>1, <1>2, <1>3 DEF FruitlessNotRepeated, JudgedBy

LEMMA OthersKeep ==
    ASSUME QualityInv,
           \/ AfterCritic \/ ApproveEvidence \/ DigFurther \/ WriteReport
           \/ MandatoryPass \/ ReviewOrRewrite \/ PublishMemo \/ SendBack
    PROVE  QualityInv'
<1> USE DEF QualityInv, FruitlessAside
<1>1. /\ UNCHANGED <<question, found, verdict, attempted, unproductive, history, fruitless>>
      /\ where # "critic" /\ where' # "edge"
  BY DEF AfterCritic, ApproveEvidence, DigFurther, WriteReport,
         MandatoryPass, ReviewOrRewrite, PublishMemo, SendBack
<1>2. where' = "search" => followups' \subseteq {OwnQuestion} \/ (where = "edge" /\ UNCHANGED followups)
  BY DEF AfterCritic, ApproveEvidence, DigFurther, WriteReport,
         MandatoryPass, ReviewOrRewrite, PublishMemo, SendBack
<1>3. Unmoved' /\ fruitless' \subseteq unproductive'
  BY <1>1 DEF Unmoved
<1>4. FruitlessAside'
  BY <1>1, <1>2, <1>3 DEF Aside
<1> QED BY <1>1, <1>4 DEF FruitlessNotRepeated, JudgedBy

\* Fruitless gaps are put aside or about to be, and verdicts are those of some evidence.
THEOREM QualityInvariance == QualitySpec => []QualityInv
<1>1. QualityInit => QualityInv
  <2> SUFFICES ASSUME QualityInit PROVE QualityInv
    OBVIOUS
  <2>1. FruitlessAside
    BY DEF QualityInit, FruitlessAside, Evidences
  <2> QED BY <2>1 DEF QualityInit, QualityInv, FruitlessNotRepeated
<1>2. ASSUME QualityInv, [QualityNext]_qualityVars PROVE QualityInv'
  <2>1. CASE UNCHANGED qualityVars
    BY <1>2, <2>1 DEF qualityVars, QualityInv, FruitlessAside, FruitlessNotRepeated, JudgedBy,
                      Unmoved, Aside
  <2>2. CASE CriticJudges
    BY <1>2, <2>2, CriticKeeps, VerdictsAreJudgements DEF QualityInv
  <2> QED BY <1>2, <2>1, <2>2, SearchKeeps, OthersKeep DEF QualityNext
<1> QED BY <1>1, <1>2, PTL DEF QualitySpec

\* No insufficient round searches again for what a round searched for in vain,
\* however often a person or the memo gate sends the run back to the critic.
THEOREM FruitlessIsPutAside == QualitySpec => []FruitlessNotRepeated
<1>1. QualityInv => FruitlessNotRepeated
  BY DEF QualityInv
<1> QED BY <1>1, QualityInvariance, PTL

\* The grade, its early stop and the critic's gate agree, for any number of
\* dimensions and any evidence: nothing deep or excellent has a critical gap, no
\* primary source, or a third of its dimensions open.
THEOREM JudgesAgree == QualitySpec => []GradesAgree
<1>1. ASSUME QualityInv PROVE GradesAgree
  <2> SUFFICES ASSUME verdict.label = "deep" \/ Excellent
               PROVE  verdict.coverage.gaps = {} /\ verdict.coverage.primary > 0 /\ verdict.must >= 65
    BY DEF GradesAgree
  <2>1. verdict # NoVerdict
    BY DEF NoVerdict, Excellent
  <2>2. PICK f \in Evidences, q \in Questions : JudgedBy(f, q)
    BY <1>1, <2>1 DEF QualityInv
  <2>3. f \in Gradable
    BY DimsAssumption DEF Evidences
  <2>4. \/ DepthScore(f, q) >= 85 /\ CriticalGaps(f) = {}
        \/ DepthScore(f, q) >= 80 /\ MustPct(f) >= 75
    BY <2>2 DEF JudgedBy, Excellent, DepthLabel
  <2>5. CriticalGaps(f) = {} /\ f.primary > 0 /\ MustPct(f) >= 65
    BY <2>3, <2>4, GradeFacts
  <2> QED BY <2>2, <2>5 DEF JudgedBy, CoverageOf
<1> QED BY <1>1, QualityInvariance, PTL
=============================================================================
