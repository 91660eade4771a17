------------------------- MODULE LlmFailoverProofs -------------------------
(***************************************************************************)
(* Proofs about the model client, for any ring of keys.  The loop of         *)
(* _failover is a recursive function; what holds after each of its steps is  *)
(* shown by the least step after which it would not.                         *)
(***************************************************************************)
EXTENDS LlmFailover, FiniteSetTheorems, WellFoundedInduction, NaturalsInduction, TLAPS

\* Some numbers have a least one.
LEMMA LeastNumber ==
    ASSUME NEW S \in SUBSET Nat, S # {}
    PROVE  \E x \in S : \A y \in S : x <= y
<1>1. IsWellFoundedOn(OpToRel(<, Nat), Nat)
  BY NatLessThanWellFounded
<1>2. PICK x \in S : \A y \in S : ~(<<y, x>> \in OpToRel(<, Nat))
  BY <1>1, WFMin
<1>3. \A y \in S : ~(y < x)
  BY <1>2 DEF OpToRel
<1> QED BY <1>3

LEMMA RingFacts ==
    /\ Count \in Nat \ {0} /\ 0 \in Slots /\ IsFiniteSet(Slots) /\ Cardinality(Slots) = Count
    /\ \A i \in Slots : i \in Nat /\ i < Count /\ Provider(i) \in Models
<1>1. Count \in Nat \ {0}
  BY FailoverAssumption DEF Count
<1>2. Slots = 0..Count - 1 /\ 0 \in Slots
  BY <1>1 DEF Slots
<1>3. IsFiniteSet(Slots) /\ Cardinality(Slots) = Count
  BY <1>1, <1>2, FS_Interval
<1> QED BY <1>1, <1>2, <1>3 DEF Models

\* The slots k on from one, for each k up to the length of the ring, are all slots.
LEMMA RoundTheRing ==
    ASSUME NEW at \in Slots
    PROVE  /\ \A k \in Nat : (at + k) % Count \in Slots
           /\ \A i \in Slots : \E k \in 1..Count : (at + k) % Count = i
<1>1. PICK n \in Nat \ {0} : n = Count
  BY RingFacts
<1>2. at \in Nat /\ at < n
  BY <1>1, RingFacts
<1>3. ASSUME NEW k \in Nat PROVE (at + k) % n \in 0..n - 1
  BY <1>2
<1>4. ASSUME NEW i \in Slots PROVE \E k \in 1..n : (at + k) % n = i
  <2>1. i \in Nat /\ i < n
    BY <1>1, <1>4, RingFacts
  <2>2. CASE i > at
    <3>1. i - at \in 1..n /\ at + (i - at) = i /\ i % n = i
      BY <1>2, <2>1, <2>2
    <3> QED BY <3>1
  <2>3. CASE i <= at
    <3>1. i - at + n \in 1..n /\ at + (i - at + n) = i + n
      BY <1>2, <2>1, <2>3
    <3>2. (i + n) % n = i
      BY <2>1
    <3> QED BY <3>1, <3>2
  <2> QED BY <1>2, <2>1, <2>2, <2>3
<1> QED BY <1>1, <1>3, <1>4 DEF Slots

------------------------------------------------------------------------------
(* The loop.                                                               *)

\* Its recursion is well defined: each step has a result.
LEMMA SearchSteps ==
    ASSUME NEW permanent, NEW start
    PROVE  \E h : /\ h[0] = start
                  /\ \A k \in 1..Count : h[k] = TrySlot(permanent, h[k - 1], k)
                  /\ SearchAfter(Count, permanent, start) = h[Count]
<1> DEFINE Step(f, k) == IF k = 0 THEN start ELSE TrySlot(permanent, f[k - 1], k)
           F(f) == [k \in 0..Count |-> Step(f, k)]
           Partial(n) == \E g : g = [k \in 0..n |-> Step(g, k)]
<1>1. Count \in Nat \ {0}
  BY RingFacts
<1>2. ASSUME NEW n \in Nat PROVE Partial(n)
  <2> DEFINE S == {m \in Nat : ~Partial(m)}
  <2>1. SUFFICES ASSUME S # {} PROVE FALSE
    OBVIOUS
  <2>2. S \in SUBSET Nat
    OBVIOUS
  <2>3. PICK m \in S : \A y \in S : m <= y
    <3> HIDE DEF S
    <3> QED BY <2>1, <2>2, LeastNumber
  <2>4. m \in Nat /\ ~Partial(m)
    OBVIOUS
  <2>5. CASE m = 0
    <3> DEFINE g == [k \in 0..0 |-> start]
    <3>1. g = [k \in 0..0 |-> Step(g, k)]
      OBVIOUS
    <3> QED BY <2>4, <2>5, <3>1
  <2>6. CASE m # 0
    <3>1. m - 1 \in Nat /\ m - 1 \notin S
      BY <2>3, <2>4, <2>6
    <3>2. PICK g : g = [k \in 0..m - 1 |-> Step(g, k)]
      BY <3>1
    <3> DEFINE e == [k \in 0..m |-> IF k = m THEN TrySlot(permanent, g[m - 1], m) ELSE g[k]]
    <3>3. ASSUME NEW k \in 0..m PROVE e[k] = Step(e, k)
      <4>1. CASE k = m
        <5>1. e[k - 1] = g[m - 1]
          BY <2>4, <2>6, <4>1
        <5> QED BY <2>6, <4>1, <5>1
      <4>2. CASE k # m
        <5>1. k \in 0..m - 1 /\ e[k] = g[k] /\ g[k] = Step(g, k)
          BY <2>4, <3>2, <3>3, <4>2
        <5>2. k # 0 => e[k - 1] = g[k - 1]
          BY <2>4, <3>3, <4>2
        <5> QED BY <5>1, <5>2
      <4> QED BY <4>1, <4>2
    <3>4. e = [k \in 0..m |-> Step(e, k)]
      BY <3>3
    <3> QED BY <2>4, <3>4
  <2> QED BY <2>5, <2>6
<1>3. PICK g : g = F(g)
  BY <1>1, <1>2
<1> DEFINE h == CHOOSE f : f = F(f)
<1>4. h = F(h)
  BY <1>3
<1>5. SearchAfter(Count, permanent, start) = h[Count]
  BY DEF SearchAfter
<1> HIDE DEF h
<1>6. h[0] = start /\ \A k \in 1..Count : h[k] = TrySlot(permanent, h[k - 1], k)
  BY <1>1, <1>4
<1> QED BY <1>5, <1>6

Search == [ok : BOOLEAN, at : Slots, tried : SUBSET Slots, dead : SUBSET Slots]

\* After k steps: slots were left out because they were tried or benched, and only
\* those without a client were added to either.
SearchInv(k, start, st) ==
    /\ st \in Search
    /\ start.tried \subseteq st.tried /\ st.tried \subseteq start.tried \cup unusable
    /\ start.dead \subseteq st.dead /\ st.dead \subseteq start.dead \cup unusable
    /\ st.ok => st.at \notin st.tried
    /\ ~st.ok /\ unusable = {} =>
         st.at = start.at /\ \A j \in 1..k : (start.at + j) % Count \in st.tried \cup st.dead

LEMMA TrySlotKeeps ==
    ASSUME NEW permanent \in BOOLEAN, NEW start \in Search, NEW st, NEW k \in 1..Count,
           SearchInv(k - 1, start, st)
    PROVE  SearchInv(k, start, TrySlot(permanent, st, k))
<1> DEFINE nxt == (st.at + k) % Count
<1>1. k \in Nat /\ k - 1 \in Nat /\ Count \in Nat
  BY RingFacts
<1>2. st \in Search /\ st.at \in Slots /\ start.at \in Slots
  BY DEF SearchInv, Search
<1>3. nxt \in Slots
  BY <1>1, <1>2, RoundTheRing
<1>4. CASE st.ok \/ nxt \in st.tried \cup st.dead
  <2>1. TrySlot(permanent, st, k) = st
    BY <1>4 DEF TrySlot
  <2>2. ASSUME ~st.ok, unusable = {}
        PROVE  \A j \in 1..k : (start.at + j) % Count \in st.tried \cup st.dead
    <3>1. st.at = start.at /\ \A j \in 1..k - 1 : (start.at + j) % Count \in st.tried \cup st.dead
      BY <2>2 DEF SearchInv
    <3>2. \A j \in 1..k : j \in 1..k - 1 \/ j = k
      BY <1>1
    <3> QED BY <1>4, <2>2, <3>1, <3>2
  <2> QED BY <2>1, <2>2 DEF SearchInv
<1>5. CASE ~(st.ok \/ nxt \in st.tried \cup st.dead)
  <2> DEFINE new == TrySlot(permanent, st, k)
  <2>1. new = [ok    |-> Activated(nxt), at |-> nxt,
               tried |-> IF Activated(nxt) THEN st.tried ELSE st.tried \cup {nxt},
               dead  |-> IF permanent /\ ~Activated(nxt) THEN st.dead \cup {nxt} ELSE st.dead]
    BY <1>5 DEF TrySlot
  <2> HIDE DEF nxt
  <2>2. CASE nxt \notin unusable
    <3>1. new = [ok |-> TRUE, at |-> nxt, tried |-> st.tried, dead |-> st.dead]
      BY <2>1, <2>2 DEF Activated
    <3> HIDE DEF new
    <3>2. new \in Search /\ new.ok /\ new.at = nxt /\ new.tried = st.tried /\ new.dead = st.dead
      BY <1>2, <1>3, <3>1 DEF Search
    <3> QED BY <1>5, <3>2 DEF SearchInv, nxt, new
  <2>3. CASE nxt \in unusable
    <3> DEFINE d == IF permanent THEN st.dead \cup {nxt} ELSE st.dead
    <3>1. new = [ok |-> FALSE, at |-> nxt, tried |-> st.tried \cup {nxt}, dead |-> d]
      BY <2>1, <2>3 DEF Activated
    <3>2. d \in SUBSET Slots /\ st.dead \subseteq d /\ d \subseteq st.dead \cup {nxt}
      BY <1>2, <1>3 DEF Search
    <3> HIDE DEF new, d
    <3>3. new \in Search /\ ~new.ok /\ new.tried = st.tried \cup {nxt} /\ new.dead = d
      BY <1>2, <1>3, <3>1, <3>2 DEF Search
    <3> QED BY <2>3, <3>2, <3>3 DEF SearchInv, new
  <2> QED BY <2>2, <2>3
<1> QED BY <1>4, <1>5

\* What a failover leaves: the next slot that was neither tried nor benched, or,
\* with a client for every key, none that was not.
LEMMA FailoverFacts ==
    ASSUME NEW r \in Ring, NEW tried \in SUBSET Slots, NEW permanent \in BOOLEAN
    PROVE  LET f == Failover(r, tried, permanent) IN
           /\ f \in Search
           /\ tried \cup {r.at} \subseteq f.tried /\ f.tried \subseteq tried \cup {r.at} \cup unusable
           /\ f.dead \subseteq r.dead \cup (IF permanent THEN {r.at} ELSE {}) \cup unusable
           /\ f.ok => f.at \notin f.tried
           /\ ~f.ok /\ unusable = {} => Slots \subseteq f.tried \cup f.dead
<1> DEFINE s == SearchFrom(r, tried, permanent)
<1>1. /\ s \in Search /\ ~s.ok /\ s.at = r.at /\ s.tried = tried \cup {r.at}
      /\ s.dead = IF permanent THEN r.dead \cup {r.at} ELSE r.dead
  <2> DEFINE d == IF permanent THEN r.dead \cup {r.at} ELSE r.dead
  <2>1. d \in SUBSET Slots /\ r.at \in Slots
    BY DEF Ring
  <2>2. s = [ok |-> FALSE, at |-> r.at, tried |-> tried \cup {r.at}, dead |-> d]
    BY DEF SearchFrom
  <2> HIDE DEF s, d
  <2>3. s \in Search /\ ~s.ok /\ s.at = r.at /\ s.tried = tried \cup {r.at} /\ s.dead = d
    BY <2>1, <2>2 DEF Search
  <2> QED BY <2>3 DEF d
<1> HIDE DEF s
<1>2. PICK h : /\ h[0] = s /\ \A k \in 1..Count : h[k] = TrySlot(permanent, h[k - 1], k)
               /\ SearchAfter(Count, permanent, s) = h[Count]
  BY SearchSteps
<1>3. Count \in Nat
  BY RingFacts
<1>4. \A k \in 0..Count : SearchInv(k, s, h[k])
  <2> DEFINE S == {k \in 0..Count : ~SearchInv(k, s, h[k])}
  <2>1. SUFFICES ASSUME S # {} PROVE FALSE
    OBVIOUS
  <2>2. S \in SUBSET Nat
    OBVIOUS
  <2>3. PICK m \in S : \A y \in S : m <= y
    <3> HIDE DEF S
    <3> QED BY <2>1, <2>2, LeastNumber
  <2>4. m \in 0..Count /\ ~SearchInv(m, s, h[m])
    OBVIOUS
  <2>5. CASE m = 0
    <3>1. SearchInv(0, s, s)
      BY <1>1 DEF SearchInv
    <3> QED BY <1>2, <2>4, <2>5, <3>1
  <2>6. CASE m # 0
    <3>1. m \in 1..Count /\ m - 1 \in 0..Count /\ ~(m <= m - 1)
      BY <1>3, <2>4, <2>6
    <3>2. SearchInv(m - 1, s, h[m - 1])
      BY <2>3, <3>1
    <3> QED BY <1>1, <1>2, <2>4, <3>1, <3>2, TrySlotKeeps
  <2> QED BY <2>5, <2>6
<1>5. PICK f : f = Failover(r, tried, permanent) /\ SearchInv(Count, s, f)
  <2>1. SearchInv(Count, s, h[Count])
    BY <1>3, <1>4
  <2> QED BY <1>2, <2>1 DEF Failover, s
<1>6. ~f.ok /\ unusable = {} => Slots \subseteq f.tried \cup f.dead
  <2>1. \A i \in Slots : \E k \in 1..Count : (r.at + k) % Count = i
    BY RoundTheRing DEF Ring
  <2> QED BY <1>1, <1>5, <2>1 DEF SearchInv
<1> QED BY <1>1, <1>5, <1>6 DEF SearchInv

------------------------------------------------------------------------------
(* Counting requests.                                                      *)

LEMMA FreshFacts ==
    ASSUME NEW tried \in SUBSET Slots, NEW more \in SUBSET Slots,
           NEW at \in Slots, NEW next \in Slots, tried \cup {at} \subseteq more
    PROVE  /\ Fresh(tried, at) \in Nat /\ Fresh(more, next) \in Nat /\ Cardinality(more) \in Nat
           /\ Fresh(tried, at) + 1 <= Cardinality(more) /\ Cardinality(more) <= Count
           /\ Fresh(tried, at) <= Fresh(more, next)
           /\ next \notin more => Fresh(more, next) = Cardinality(more)
<1>1. \A S \in SUBSET Slots : IsFiniteSet(S) /\ Cardinality(S) \in Nat /\ Cardinality(S) <= Count
  BY RingFacts, FS_Subset, FS_CardinalityType
<1>2. \A S \in SUBSET Slots : \A i \in S : Cardinality(S) >= 1
  BY <1>1, FS_EmptySet
<1>3. Cardinality(tried \cup {at}) = IF at \in tried THEN Cardinality(tried) ELSE Cardinality(tried) + 1
  BY <1>1, FS_AddElement
<1>4. Cardinality(tried \cup {at}) <= Cardinality(more)
  BY <1>1, FS_Subset
<1>5. PICK c \in Nat, m \in Nat, d \in Nat :
        c = Cardinality(tried) /\ m = Cardinality(more) /\ d = Cardinality(tried \cup {at})
  BY <1>1
<1>6. Fresh(tried, at) \in Nat /\ Fresh(tried, at) + 1 = d
  BY <1>2, <1>3, <1>5 DEF Fresh
<1>7. Fresh(more, next) \in Nat /\ Fresh(more, next) >= m - 1
      /\ (next \notin more => Fresh(more, next) = m)
  BY <1>2, <1>5 DEF Fresh
<1> QED BY <1>1, <1>4, <1>5, <1>6, <1>7

LEMMA NothingTried == \A at \in Slots : Fresh({}, at) = 0
  BY FS_EmptySet DEF Fresh

\* A pass over the ring is as many requests as it has slots.
LEMMA PassFacts ==
    ASSUME NEW p \in 0..BackoffPasses
    PROVE  /\ Count * (BackoffPasses - p) \in Nat /\ Count * (BackoffPasses + 1) \in Nat
           /\ Count * (BackoffPasses - p) + Count <= Count * (BackoffPasses + 1)
           /\ p > 0 => Count * (BackoffPasses - (p - 1)) = Count * (BackoffPasses - p) + Count
           /\ p = BackoffPasses => Count * (BackoffPasses - p) = 0
<1>1. PICK n \in Nat, b \in Nat : n = Count /\ b = BackoffPasses
  BY RingFacts, FailoverAssumption
<1>2. p \in Nat /\ p <= b /\ b - p \in Nat
  BY <1>1
<1>3. n * (b - p) \in Nat /\ n * (b + 1) \in Nat
  BY <1>2
<1>4. n * (b - p) + n = n * (b - p + 1) /\ n * (b - p + 1) <= n * (b + 1)
  BY <1>2
<1>5. p = b => n * (b - p) = 0
  BY <1>2
<1> QED BY <1>1, <1>3, <1>4, <1>5

LEMMA MovedFacts ==
    ASSUME FailoverTypeOK, ring.built <=> Activated(ring.at), UNCHANGED unusable,
           NEW f \in Search, Moved(f)
    PROVE  /\ ring' \in Ring /\ ring'.at = f.at /\ ring'.dead = f.dead
           /\ ring'.built <=> f.at \notin unusable
           /\ model' \in Models
<1>1. f.at \in Slots /\ f.dead \in SUBSET Slots
  BY DEF Search
<1>2. model' \in Models
  BY <1>1, RingFacts DEF Moved, FailoverTypeOK
<1>3. PICK b \in BOOLEAN : b <=> f.at \notin unusable
  OBVIOUS
<1>4. ring' = [at |-> f.at, dead |-> f.dead, built |-> b]
  <2>1. ring' = [at |-> f.at, dead |-> f.dead,
                 built |-> IF f.at = ring.at THEN ring.built ELSE Activated(f.at)]
    BY DEF Moved
  <2>2. ring.built \in BOOLEAN
    BY DEF FailoverTypeOK, Ring
  <2>3. (IF f.at = ring.at THEN ring.built ELSE Activated(f.at)) = b
    BY <1>3, <2>2 DEF Activated
  <2> QED BY <2>1, <2>3
<1>5. ring' \in Ring /\ ring'.at = f.at /\ ring'.dead = f.dead /\ ring'.built = b
  BY <1>1, <1>4 DEF Ring
<1> QED BY <1>2, <1>3, <1>5

------------------------------------------------------------------------------
(* The steps of a call.                                                    *)

LEMMA IdleIsCall == IdleCall \in Calls /\ IdleCall.step = "idle"
  BY FailoverAssumption DEF IdleCall, Calls, Models

LEMMA StartKeeps ==
    ASSUME CallInv, NEW role \in BOOLEAN, StartCall(role)
    PROVE  CallInv'
<1> USE DEF CallInv, FailoverTypeOK
<1>1. /\ calls' = calls + 1 /\ calls < MaxCalls /\ heard' = {} /\ requests' = 0
      /\ UNCHANGED <<unusable, ring, broke, cause>>
      /\ model' = IF role THEN RoleModel ELSE model
  BY DEF StartCall
<1>2. /\ call' \in Calls /\ call'.step = "select" /\ call'.tried = {} /\ call'.passes = BackoffPasses
  <2>1. call' = [IdleCall EXCEPT !.step = "select", !.role = role, !.before = model]
    BY DEF StartCall
  <2>2. call' = [step |-> "select", role |-> role, before |-> model, tried |-> {},
                 retryable |-> TRUE, passes |-> BackoffPasses]
    BY <2>1 DEF IdleCall
  <2> QED BY <2>2, FailoverAssumption DEF Calls
<1>3. FailoverTypeOK'
  BY <1>1, <1>2, FailoverAssumption DEF Models
<1>4. ring.at \in Slots /\ BackoffPasses \in 0..BackoffPasses
  BY FailoverAssumption DEF Ring
<1>5. requests' <= Count * (BackoffPasses - call'.passes) + Fresh(call'.tried, ring.at)
  BY <1>1, <1>2, <1>4, NothingTried, PassFacts
<1>6. BenchedForCause' /\ (ring.built <=> Activated(ring.at))'
  BY <1>1 DEF BenchedForCause, Activated
<1>7. requests' <= Count * (BackoffPasses + 1)
  BY <1>1, <1>4, PassFacts
<1> QED BY <1>1, <1>2, <1>3, <1>5, <1>6, <1>7 DEF EverySlotTried

LEMMA SelectKeeps ==
    ASSUME CallInv, Select
    PROVE  CallInv'
<1> USE DEF CallInv, FailoverTypeOK
<1>1. call.step = "select" /\ UNCHANGED <<unusable, broke, cause, heard, requests, calls>>
  BY DEF Select
<1>2. /\ ring \in Ring /\ ring.at \in Slots /\ ring.dead \in SUBSET Slots /\ call \in Calls
      /\ call.tried \in SUBSET Slots /\ call.passes \in 0..BackoffPasses
  BY DEF Ring, Calls
<1>3. CASE ~(ring.at \in ring.dead \/ ~ring.built)
  <2>1. UNCHANGED <<ring, model>> /\ call' = [call EXCEPT !.step = "request"]
    BY <1>3 DEF Select
  <2>2. call' \in Calls /\ call'.step = "request" /\ call'.tried = call.tried /\ call'.passes = call.passes
    BY <1>2, <2>1 DEF Calls
  <2> QED BY <1>1, <2>1, <2>2 DEF BenchedForCause, EverySlotTried, Activated
<1>4. CASE ring.at \in ring.dead \/ ~ring.built
  <2>1. PICK f \in Search : /\ f = Failover(ring, call.tried, TRUE)
           /\ call.tried \cup {ring.at} \subseteq f.tried
           /\ f.tried \subseteq call.tried \cup {ring.at} \cup unusable
           /\ f.dead \subseteq ring.dead \cup {ring.at} \cup unusable
    <3> DEFINE g == Failover(ring, call.tried, TRUE)
    <3>1. /\ g \in Search /\ call.tried \cup {ring.at} \subseteq g.tried
          /\ g.tried \subseteq call.tried \cup {ring.at} \cup unusable
          /\ g.dead \subseteq ring.dead \cup (IF TRUE THEN {ring.at} ELSE {}) \cup unusable
      BY ONLY <1>2, FailoverFacts
    <3> HIDE DEF g
    <3>2. g.dead \subseteq ring.dead \cup {ring.at} \cup unusable
      BY <3>1
    <3> QED BY <3>1, <3>2 DEF g
  <2>2. Moved(f) /\ call' = [call EXCEPT !.tried = f.tried, !.step = IF f.ok THEN @ ELSE "request"]
    BY <1>4, <2>1 DEF Select
  <2>3. f.tried \in SUBSET Slots /\ f.at \in Slots
    BY DEF Search
  <2>4. /\ call' \in Calls /\ call'.step \in {"select", "request"} /\ call'.tried = f.tried
        /\ call'.passes = call.passes
    <3>1. PICK step \in {"select", "request"} : step = IF f.ok THEN call.step ELSE "request"
      BY <1>1
    <3>2. call' = [call EXCEPT !.tried = f.tried, !.step = step]
      BY <2>2, <3>1
    <3> QED BY <1>2, <2>3, <3>1, <3>2 DEF Calls
  <2>5. /\ ring' \in Ring /\ ring'.at = f.at /\ ring'.dead = f.dead
        /\ ring'.built <=> f.at \notin unusable
        /\ model' \in Models
    BY <1>1, <2>2, MovedFacts
  <2>6. FailoverTypeOK'
    BY <1>1, <2>4, <2>5
  <2>7. ring.at \in cause \cup unusable
    BY <1>4 DEF BenchedForCause, Activated
  <2>8. BenchedForCause'
    BY <1>1, <2>1, <2>5, <2>7 DEF BenchedForCause
  <2>9. Fresh(call.tried, ring.at) <= Fresh(f.tried, f.at)
        /\ Fresh(call.tried, ring.at) \in Nat /\ Fresh(f.tried, f.at) \in Nat
    BY <1>2, <2>1, <2>3, FreshFacts
  <2>10. requests <= Count * (BackoffPasses - call.passes) + Fresh(f.tried, f.at)
    <3>1. PICK b \in Nat : b = Count * (BackoffPasses - call.passes)
      BY <1>2, PassFacts
    <3>2. requests <= b + Fresh(call.tried, ring.at) /\ requests \in Nat
      BY <1>1, <3>1
    <3> QED BY <2>9, <3>1, <3>2
  <2>11. EverySlotTried'
    BY <2>4 DEF EverySlotTried
  <2>12. (ring.built <=> Activated(ring.at))'
    BY <1>1, <2>5 DEF Activated
  <2>13. unusable = {} => call'.tried \subseteq heard \cup cause
    BY <1>1, <2>1, <2>4, <2>7
  <2> QED BY <1>1, <2>4, <2>5, <2>6, <2>8, <2>10, <2>11, <2>12, <2>13
<1> QED BY <1>3, <1>4

\* A request takes a slot that was not tried in this pass.
LEMMA OneMoreRequest ==
    ASSUME CallInv, call.step \in {"select", "request"},
           NEW more \in SUBSET Slots, call.tried \cup {ring.at} \subseteq more
    PROVE  /\ requests + 1 <= Count * (BackoffPasses - call.passes) + Cardinality(more)
           /\ requests + 1 <= Count * (BackoffPasses - call.passes) + Count
           /\ requests + 1 <= Count * (BackoffPasses + 1)
<1>1. /\ requests <= Count * (BackoffPasses - call.passes) + Fresh(call.tried, ring.at)
      /\ requests \in Nat /\ ring.at \in Slots /\ call.tried \in SUBSET Slots
      /\ call.passes \in 0..BackoffPasses
  BY DEF CallInv, FailoverTypeOK, Ring, Calls
<1>2. /\ Fresh(call.tried, ring.at) \in Nat /\ Cardinality(more) \in Nat
      /\ Fresh(call.tried, ring.at) + 1 <= Cardinality(more) /\ Cardinality(more) <= Count
  BY <1>1, FreshFacts
<1>3. PICK b \in Nat, n \in Nat, t \in Nat :
        /\ b = Count * (BackoffPasses - call.passes) /\ n = Count /\ t = Count * (BackoffPasses + 1)
        /\ b + n <= t
  BY <1>1, RingFacts, PassFacts
<1> QED BY <1>1, <1>2, <1>3

LEMMA RequestKeeps ==
    ASSUME CallInv, NEW v \in Verdict, Request(v)
    PROVE  CallInv'
<1> USE DEF CallInv, FailoverTypeOK
<1>1. call.step = "request" /\ ring.built /\ requests' = requests + 1 /\ heard' = heard \cup {ring.at}
      /\ UNCHANGED <<unusable, broke, calls>>
      /\ cause' = IF Permanent(v) THEN cause \cup {ring.at} ELSE cause
  BY DEF Request, Permanent
<1>2. /\ ring \in Ring /\ ring.at \in Slots /\ call \in Calls /\ call.before \in Models
      /\ call.tried \in SUBSET Slots /\ call.passes \in 0..BackoffPasses /\ call.role \in BOOLEAN
      /\ call.retryable \in BOOLEAN
  BY DEF Ring, Calls
<1>3. heard' \subseteq Slots /\ cause' \subseteq Slots /\ requests' \in Nat
  BY <1>1, <1>2
<1>4. CASE v = "answer"
  <2>1. UNCHANGED ring /\ call' = IdleCall /\ model' = (IF call.role THEN call.before ELSE model)
    BY <1>4 DEF Request, Return
  <2>2. model' \in Models
    BY <1>2, <2>1
  <2>3. requests' <= Count * (BackoffPasses + 1)
    <3>1. call.tried \cup {ring.at} \in SUBSET Slots
      BY <1>2
    <3> QED BY <1>1, <3>1, OneMoreRequest
  <2>4. BenchedForCause' /\ (ring.built <=> Activated(ring.at))'
    BY <1>1, <2>1 DEF BenchedForCause, Activated
  <2> QED BY <1>1, <1>3, <2>1, <2>2, <2>3, <2>4, IdleIsCall DEF EverySlotTried
<1>5. CASE v # "answer"
  <2> DEFINE g == Failover(ring, call.tried, Permanent(v))
             more == (call.retryable /\ v = "retryable")
  <2>1. PICK p \in BOOLEAN : g = Failover(ring, call.tried, p) /\ (p => Permanent(v))
    <3>1. CASE Permanent(v)
      <4>1. Permanent(v) = TRUE
        BY <3>1, Zenon
      <4>2. g = Failover(ring, call.tried, TRUE)
        BY <4>1, Zenon
      <4> HIDE DEF g
      <4> QED BY <3>1, <4>2
    <3>2. CASE ~Permanent(v)
      <4>1. Permanent(v) = FALSE
        <5>1. Permanent(v) \in BOOLEAN
          BY DEF Permanent
        <5> QED BY <3>2, <5>1, SMT
      <4>2. g = Failover(ring, call.tried, FALSE)
        BY <4>1, Zenon
      <4> HIDE DEF g
      <4> QED BY <4>2
    <3> QED BY <3>1, <3>2, Zenon
  <2>2. PICK again \in BOOLEAN : again = more
    OBVIOUS
  <2>3. /\ Moved(g)
        /\ \/ g.ok /\ call' = [call EXCEPT !.tried = g.tried, !.retryable = again]
           \/ call.passes > 0 /\ call' = [call EXCEPT !.tried = {}, !.passes = @ - 1]
           \/ ~g.ok /\ call' = [call EXCEPT !.step = "exhausted"]
    <3>1. AfterFailure(v)
      BY <1>5, Zenon DEF Request
    <3> QED BY <2>2, <3>1, Zenon DEF AfterFailure, GiveUp
  <2> HIDE DEF g, more
  <2>4. /\ g \in Search /\ call.tried \cup {ring.at} \subseteq g.tried
        /\ g.tried \subseteq call.tried \cup {ring.at} \cup unusable
        /\ g.dead \subseteq ring.dead \cup cause' \cup unusable
        /\ g.ok => g.at \notin g.tried
        /\ ~g.ok /\ unusable = {} => Slots \subseteq g.tried \cup g.dead
    <3>1. /\ g \in Search /\ call.tried \cup {ring.at} \subseteq g.tried
          /\ g.tried \subseteq call.tried \cup {ring.at} \cup unusable
          /\ g.dead \subseteq ring.dead \cup (IF p THEN {ring.at} ELSE {}) \cup unusable
          /\ g.ok => g.at \notin g.tried
          /\ ~g.ok /\ unusable = {} => Slots \subseteq g.tried \cup g.dead
      <4> DEFINE h == Failover(ring, call.tried, p)
      <4>1. g = h
        BY <2>1
      <4>2. /\ h \in Search /\ call.tried \cup {ring.at} \subseteq h.tried
            /\ h.tried \subseteq call.tried \cup {ring.at} \cup unusable
            /\ h.dead \subseteq ring.dead \cup (IF p THEN {ring.at} ELSE {}) \cup unusable
            /\ h.ok => h.at \notin h.tried
            /\ ~h.ok /\ unusable = {} => Slots \subseteq h.tried \cup h.dead
        BY ONLY <1>2, FailoverFacts
      <4> HIDE DEF h
      <4> QED BY <4>1, <4>2
    <3>2. (IF p THEN {ring.at} ELSE {}) \subseteq cause'
      BY <1>1, <2>1
    <3>3. g.dead \subseteq ring.dead \cup cause' \cup unusable
      BY <3>1, <3>2
    <3> QED BY <3>1, <3>3
  <2>5. SUFFICES ASSUME
           NEW f \in Search,
           call.tried \cup {ring.at} \subseteq f.tried,
           f.tried \subseteq call.tried \cup {ring.at} \cup unusable,
           f.dead \subseteq ring.dead \cup cause' \cup unusable,
           f.ok => f.at \notin f.tried,
           ~f.ok /\ unusable = {} => Slots \subseteq f.tried \cup f.dead,
           Moved(f),
           \/ f.ok /\ call' = [call EXCEPT !.tried = f.tried, !.retryable = again]
           \/ call.passes > 0 /\ call' = [call EXCEPT !.tried = {}, !.passes = @ - 1]
           \/ ~f.ok /\ call' = [call EXCEPT !.step = "exhausted"]
         PROVE CallInv'
    BY <2>3, <2>4
  <2>7. f.tried \in SUBSET Slots /\ f.at \in Slots
    BY DEF Search
  <2>8. /\ ring' \in Ring /\ ring'.at = f.at /\ ring'.dead = f.dead
        /\ ring'.built <=> f.at \notin unusable
        /\ model' \in Models
    BY <1>1, <2>5, MovedFacts
  <2>9. BenchedForCause'
    BY <1>1, <2>5, <2>8 DEF BenchedForCause
  <2>10. (ring.built <=> Activated(ring.at))'
    BY <1>1, <2>8 DEF Activated
  <2>11. PICK b \in Nat, n \in Nat :
          /\ b = Count * (BackoffPasses - call.passes) /\ n = Count
          /\ requests' <= b + Cardinality(f.tried) /\ requests' <= b + n
          /\ requests' <= Count * (BackoffPasses + 1)
    BY <1>1, <1>2, <2>5, <2>7, RingFacts, PassFacts, OneMoreRequest
  <2>12. unusable = {} => f.tried \subseteq heard' \cup cause'
    BY <1>1, <2>5
  <2>13. CASE f.ok /\ call' = [call EXCEPT !.tried = f.tried, !.retryable = again]
    <3>1. /\ call' \in Calls /\ call'.step = "request" /\ call'.tried = f.tried
          /\ call'.passes = call.passes
      BY <1>1, <1>2, <2>7, <2>13 DEF Calls
    <3>2. /\ Fresh(f.tried, f.at) = Cardinality(f.tried) - (IF f.at \in f.tried THEN 1 ELSE 0)
          /\ f.at \notin f.tried
      BY <2>5, <2>13 DEF Fresh
    <3>3. Cardinality(f.tried) \in Nat
      BY <1>2, <2>5, <2>7, FreshFacts
    <3>4. requests' <= b + Fresh(f.tried, f.at)
      BY <2>11, <3>2, <3>3
    <3>5. FailoverTypeOK'
      BY <1>1, <1>3, <2>8, <3>1
    <3> QED BY <1>1, <2>8, <2>9, <2>10, <2>11, <2>12, <3>1, <3>4, <3>5 DEF EverySlotTried
  <2>14. CASE call.passes > 0 /\ call' = [call EXCEPT !.tried = {}, !.passes = @ - 1]
    <3>1. call.passes - 1 \in 0..BackoffPasses
      BY <1>2, <2>14, FailoverAssumption
    <3>2. /\ call' \in Calls /\ call'.step = "request" /\ call'.tried = {}
          /\ call'.passes = call.passes - 1
      BY <1>1, <1>2, <2>14, <3>1 DEF Calls
    <3>3. Count * (BackoffPasses - call'.passes) = b + n
      BY <1>2, <2>11, <2>14, <3>2, PassFacts
    <3>4. requests' <= Count * (BackoffPasses - call'.passes) + Fresh(call'.tried, f.at)
      BY <1>3, <2>7, <2>11, <3>2, <3>3, NothingTried
    <3>5. FailoverTypeOK'
      BY <1>1, <1>3, <2>8, <3>2
    <3> QED BY <1>1, <2>8, <2>9, <2>10, <2>11, <3>2, <3>4, <3>5 DEF EverySlotTried
  <2>15. CASE ~f.ok /\ call' = [call EXCEPT !.step = "exhausted"]
    <3>1. call' \in Calls /\ call'.step = "exhausted"
      BY <1>2, <2>15 DEF Calls
    <3>2. ASSUME unusable = {} PROVE Slots \subseteq heard' \cup cause'
      <4>1. f.dead \subseteq cause'
        BY <2>8, <2>9, <1>1, <3>2 DEF BenchedForCause
      <4> QED BY <2>5, <2>12, <2>15, <3>2, <4>1
    <3>3. FailoverTypeOK'
      BY <1>1, <1>3, <2>8, <3>1
    <3> QED BY <1>1, <2>9, <2>10, <2>11, <3>1, <3>2, <3>3 DEF EverySlotTried
  <2> QED BY <2>5, <2>13, <2>14, <2>15
<1> QED BY <1>4, <1>5

LEMMA NoClientKeeps ==
    ASSUME CallInv, NoClient
    PROVE  CallInv'
<1> USE DEF CallInv, FailoverTypeOK
<1>1. call.step = "request" /\ ~ring.built /\ UNCHANGED <<unusable, broke, cause, heard, requests, calls>>
  BY DEF NoClient
<1>2. /\ ring \in Ring /\ ring.at \in Slots /\ call \in Calls
      /\ call.tried \in SUBSET Slots /\ call.passes \in 0..BackoffPasses
  BY DEF Ring, Calls
<1>3. ring.at \in unusable
  BY <1>1 DEF Activated
<1>4. PICK f \in Search : /\ f = Failover(ring, call.tried, TRUE)
           /\ call.tried \cup {ring.at} \subseteq f.tried
           /\ f.dead \subseteq ring.dead \cup {ring.at} \cup unusable
  <2> DEFINE g == Failover(ring, call.tried, TRUE)
  <2>1. /\ g \in Search /\ call.tried \cup {ring.at} \subseteq g.tried
        /\ g.dead \subseteq ring.dead \cup (IF TRUE THEN {ring.at} ELSE {}) \cup unusable
    BY ONLY <1>2, FailoverFacts
  <2> HIDE DEF g
  <2>2. g.dead \subseteq ring.dead \cup {ring.at} \cup unusable
    BY <2>1
  <2> QED BY <2>1, <2>2 DEF g
<1>5. Moved(f) /\ (\/ call' = [call EXCEPT !.tried = f.tried]
                  \/ call' = [call EXCEPT !.step = "exhausted"])
  BY <1>4 DEF NoClient, GiveUp
<1>6. f.tried \in SUBSET Slots /\ f.at \in Slots
  BY DEF Search
<1>7. /\ ring' \in Ring /\ ring'.at = f.at /\ ring'.dead = f.dead
      /\ ring'.built <=> f.at \notin unusable
      /\ model' \in Models
  BY <1>1, <1>5, MovedFacts
<1>8. BenchedForCause' /\ (ring.built <=> Activated(ring.at))'
  <2>1. ring.dead \subseteq cause \cup unusable
    BY DEF BenchedForCause
  <2>2. BenchedForCause'
    BY <1>1, <1>3, <1>4, <1>7, <2>1 DEF BenchedForCause
  <2>3. (ring.built <=> Activated(ring.at))'
    BY <1>1, <1>7 DEF Activated
  <2> QED BY <2>2, <2>3
<1>9. CASE call' = [call EXCEPT !.tried = f.tried]
  <2>1. /\ call' \in Calls /\ call'.step = "request" /\ call'.tried = f.tried
        /\ call'.passes = call.passes
    BY <1>1, <1>2, <1>6, <1>9 DEF Calls
  <2>2. /\ Fresh(call.tried, ring.at) <= Fresh(f.tried, f.at)
        /\ Fresh(call.tried, ring.at) \in Nat /\ Fresh(f.tried, f.at) \in Nat
    BY <1>2, <1>4, <1>6, FreshFacts
  <2>3. requests <= Count * (BackoffPasses - call.passes) + Fresh(f.tried, f.at)
    <3>1. PICK b \in Nat : b = Count * (BackoffPasses - call.passes)
      BY <1>2, PassFacts
    <3>2. requests <= b + Fresh(call.tried, ring.at) /\ requests \in Nat
      BY <1>1, <3>1
    <3> QED BY <2>2, <3>1, <3>2
  <2>4. FailoverTypeOK'
    BY <1>1, <1>7, <2>1
  <2> QED BY <1>1, <1>3, <1>7, <1>8, <2>1, <2>3, <2>4 DEF EverySlotTried
<1>10. CASE call' = [call EXCEPT !.step = "exhausted"]
  <2>1. call' \in Calls /\ call'.step = "exhausted"
    BY <1>2, <1>10 DEF Calls
  <2>2. FailoverTypeOK'
    BY <1>1, <1>7, <2>1
  <2> QED BY <1>1, <1>3, <1>8, <2>1, <2>2 DEF EverySlotTried
<1> QED BY <1>5, <1>9, <1>10

LEMMA CreditsKeep ==
    ASSUME CallInv, Park \/ Raise \/ Continue \/ \E i \in Slots : RunsDry(i)
    PROVE  CallInv'
<1> USE DEF CallInv, FailoverTypeOK
<1>1. CASE Park
  <2>1. call' \in Calls /\ call'.step = "parked" /\ call.step = "exhausted"
    <3>1. call' = [call EXCEPT !.step = "parked"] /\ call.step = "exhausted"
      BY <1>1 DEF Park
    <3> QED BY <3>1 DEF Calls
  <2> QED BY <1>1, <2>1 DEF Park, BenchedForCause, EverySlotTried, Activated
<1>2. CASE Raise
  <2>1. call' = IdleCall /\ model' = (IF call.role THEN call.before ELSE model)
        /\ UNCHANGED <<unusable, ring, broke, cause, heard, requests, calls>>
    BY <1>2 DEF Raise, Return
  <2>2. model' \in Models
    BY <2>1 DEF Calls
  <2> QED BY <2>1, <2>2, IdleIsCall DEF BenchedForCause, EverySlotTried, Activated
<1>3. CASE Continue
  <2>1. /\ broke' \in SUBSET broke /\ cause' = {} /\ heard' = {} /\ requests' = 0
        /\ ring' = FreshRing /\ UNCHANGED <<unusable, calls>>
        /\ model' \in Models
    BY <1>3, RingFacts DEF Continue, Models
  <2>2. /\ ring' \in Ring /\ ring'.at = 0 /\ ring'.dead = {}
        /\ ring'.built <=> 0 \notin unusable
    <3>1. PICK b \in BOOLEAN : b = (0 \notin unusable)
      OBVIOUS
    <3>2. ring' = [at |-> 0, built |-> b, dead |-> {}]
      BY <2>1, <3>1 DEF FreshRing, Activated
    <3> QED BY <3>1, <3>2, RingFacts DEF Ring
  <2>3. /\ call' \in Calls /\ call'.step = "select" /\ call'.tried = {}
        /\ call'.passes = BackoffPasses
    <3>1. call' = [call EXCEPT !.step = "select", !.tried = {}, !.retryable = TRUE,
                               !.passes = BackoffPasses, !.before = Provider(0)]
      BY <1>3 DEF Continue
    <3>2. Provider(0) \in Models /\ BackoffPasses \in 0..BackoffPasses
      BY RingFacts, FailoverAssumption
    <3> QED BY <3>1, <3>2 DEF Calls
  <2>4. FailoverTypeOK'
    BY <2>1, <2>2, <2>3
  <2>5. BackoffPasses \in 0..BackoffPasses
    BY FailoverAssumption
  <2>6. /\ requests' <= Count * (BackoffPasses - call'.passes) + Fresh(call'.tried, 0)
        /\ requests' <= Count * (BackoffPasses + 1)
    BY <2>1, <2>3, <2>5, RingFacts, NothingTried, PassFacts
  <2> QED BY <2>1, <2>2, <2>3, <2>4, <2>6 DEF BenchedForCause, EverySlotTried, Activated
<1>4. CASE \E i \in Slots : RunsDry(i)
  BY <1>4 DEF RunsDry, BenchedForCause, EverySlotTried, Activated
<1> QED BY <1>1, <1>2, <1>3, <1>4

------------------------------------------------------------------------------
(* The theorems.                                                           *)

\* Every call keeps an account of its slots: who was asked, who is benched and why.
THEOREM CallInvariance == FailoverSpec => []CallInv
<1>1. FailoverInit => CallInv
  <2> SUFFICES ASSUME FailoverInit PROVE CallInv
    OBVIOUS
  <2>1. /\ unusable \in SUBSET MayBeUnusable /\ ring = FreshRing /\ model = Provider(0)
        /\ call = IdleCall /\ broke \in SUBSET Slots /\ cause = {} /\ heard = {}
        /\ requests = 0 /\ calls = 0
    BY DEF FailoverInit
  <2>2. ring \in Ring /\ ring.at = 0 /\ ring.dead = {} /\ (ring.built <=> Activated(0))
    <3>1. PICK b \in BOOLEAN : b = (0 \notin unusable)
      OBVIOUS
    <3>2. ring = [at |-> 0, built |-> b, dead |-> {}]
      BY <2>1, <3>1 DEF FreshRing, Activated
    <3> QED BY <3>1, <3>2, RingFacts DEF Ring, Activated
  <2>3. FailoverTypeOK
    BY <2>1, <2>2, RingFacts, IdleIsCall, FailoverAssumption DEF FailoverTypeOK
  <2>4. requests <= Count * (BackoffPasses + 1)
    <3>1. BackoffPasses \in 0..BackoffPasses
      BY FailoverAssumption
    <3> QED BY <2>1, <3>1, PassFacts
  <2> QED BY <2>1, <2>2, <2>3, <2>4, IdleIsCall DEF CallInv, BenchedForCause, EverySlotTried
<1>2. ASSUME CallInv, [FailoverNext]_failoverVars PROVE CallInv'
  <2>1. CASE UNCHANGED failoverVars
    BY <1>2, <2>1 DEF failoverVars, CallInv, FailoverTypeOK, BenchedForCause, EverySlotTried, Activated
  <2>2. CASE \E role \in {FALSE, RoleModel # "none"} : StartCall(role)
    <3>1. PICK role \in {FALSE, RoleModel # "none"} : StartCall(role)
      BY <2>2
    <3>2. role \in BOOLEAN
      OBVIOUS
    <3> QED BY <1>2, <3>1, <3>2, StartKeeps
  <2> QED
    BY <1>2, <2>1, <2>2, SelectKeeps, RequestKeeps, NoClientKeeps, CreditsKeep DEF FailoverNext
<1> QED BY <1>1, <1>2, PTL DEF FailoverSpec

\* The client, its call and its history have their types.
THEOREM FailoverTypeCorrect == FailoverSpec => []FailoverTypeOK
<1>1. CallInv => FailoverTypeOK
  BY DEF CallInv
<1> QED BY <1>1, CallInvariance, PTL

\* No key is benched for a throttled or an empty answer, whatever the ring.
THEOREM KeysAreBenchedForCause == FailoverSpec => []BenchedForCause
<1>1. CallInv => BenchedForCause
  BY DEF CallInv
<1> QED BY <1>1, CallInvariance, PTL

\* A run is parked for credits only when every key was asked or benched, as long as
\* each key has a client (_failover: "Tries every slot before giving up").
THEOREM CreditsPausesAreDue == FailoverSpec => []EverySlotTried
<1>1. CallInv => EverySlotTried
  BY DEF CallInv
<1> QED BY <1>1, CallInvariance, PTL

\* A call ends after as many requests as there are keys and passes.
THEOREM CallsAreBounded == FailoverSpec => []RequestsBounded
<1>1. CallInv => RequestsBounded
  BY DEF CallInv, RequestsBounded
<1> QED BY <1>1, CallInvariance, PTL
=============================================================================
