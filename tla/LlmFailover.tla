---------------------------- MODULE LlmFailover ----------------------------
(***************************************************************************)
(* The model client of one stream (apps/agent/app/llm): a ring of slots,   *)
(* each a key of some provider; a call goes round them, benches keys that  *)
(* cannot serve, waits when all of them are only throttled, and in the end *)
(* parks the run for credits.  A role block (roles.py) sets another model  *)
(* on the client for the calls made inside it.                             *)
(*                                                                         *)
(* Slots are numbered from 0 as in the code.  A call made by a node is one *)
(* prompt; what a provider says to a request is chosen freely, except that *)
(* a key whose wallet is empty never answers.                              *)
(***************************************************************************)
EXTENDS Integers, Sequences, FiniteSets

CONSTANTS ProviderOf,     \* provider of each slot: a sequence, in ring order
          MayBeUnusable,  \* slots whose client may turn out not to be constructible
          BackoffPasses,  \* _MAX_RETRYABLE_BACKOFF_PASSES (2)
          MaxCalls,       \* BOUND on calls
          RoleModel       \* provider the role overrides belong to, or "none"

Count == Len(ProviderOf)
Slots == 0..(Count - 1)
Provider(i) == ProviderOf[i + 1]

ASSUME FailoverAssumption ==
    /\ ProviderOf \in Seq(STRING) /\ Count > 0
    /\ MayBeUnusable \subseteq Slots
    /\ BackoffPasses \in Nat /\ MaxCalls \in Nat

VARIABLES
    ring,      \* the client: active slot, whether its client is built, benched slots
    model,     \* the provider whose model name the client holds
    call,      \* the call being made
    unusable,  \* slots whose client cannot be constructed: _init_gemini raises
    broke,     \* keys whose wallet is empty
    cause,     \* history: slots that gave a reason to be benched
    heard,     \* history: slots asked since the call began or was resumed
    requests,  \* history: requests of this call since then
    calls      \* calls begun

failoverVars == <<ring, model, call, unusable, broke, cause, heard, requests, calls>>

Ring == [at : Slots, built : BOOLEAN, dead : SUBSET Slots]
Verdict == {"answer", "credits", "dead_key", "retryable", "generate_failed", "other"}

\* _activate: the provider's own model comes with the slot, whatever was set.
Activated(i) == i \notin unusable

FreshRing == [at |-> 0, built |-> Activated(0), dead |-> {}]
IdleCall == [step |-> "idle", role |-> FALSE, before |-> "none", tried |-> {},
             retryable |-> TRUE, passes |-> BackoffPasses]

FailoverInit ==
    /\ unusable \in SUBSET MayBeUnusable /\ ring = FreshRing /\ model = Provider(0) /\ call = IdleCall
    /\ broke \in SUBSET Slots /\ cause = {} /\ heard = {}
    /\ requests = 0 /\ calls = 0

------------------------------------------------------------------------------
(* _failover.                                                              *)

\* One step of the loop: k slots on from the one that is active by now.
TrySlot(permanent, st, k) ==
    LET nxt == (st.at + k) % Count IN
    IF st.ok \/ nxt \in st.tried \cup st.dead THEN st
    ELSE [ok    |-> Activated(nxt), at |-> nxt,
          tried |-> IF Activated(nxt) THEN st.tried ELSE st.tried \cup {nxt},
          dead  |-> IF permanent /\ ~Activated(nxt) THEN st.dead \cup {nxt} ELSE st.dead]

\* The loop after some of its steps.
SearchAfter(steps, permanent, start) ==
    LET found[k \in 0..Count] == IF k = 0 THEN start ELSE TrySlot(permanent, found[k - 1], k)
    IN  found[steps]
SearchFrom(r, tried, permanent) ==
    [ok |-> FALSE, at |-> r.at, tried |-> tried \cup {r.at},
     dead |-> IF permanent THEN r.dead \cup {r.at} ELSE r.dead]

\* Mutant: the search stops one slot before it has gone round.
FailoverShort(r, tried, permanent) ==
    SearchAfter(Count - 2, permanent, SearchFrom(r, tried, permanent))

Failover(r, tried, permanent) == SearchAfter(Count, permanent, SearchFrom(r, tried, permanent))

\* The client after a failover: the active slot changes its model with it.
Moved(f) ==
    /\ ring' = [at |-> f.at, dead |-> f.dead,
                built |-> IF f.at = ring.at THEN ring.built ELSE Activated(f.at)]
    /\ model' = IF f.at = ring.at THEN model ELSE Provider(f.at)

------------------------------------------------------------------------------
(* One call.                                                               *)

\* use_role_model sets the override and remembers the model it replaces.
StartCall(role) ==
    /\ call.step = "idle" /\ calls < MaxCalls
    /\ calls' = calls + 1 /\ heard' = {} /\ requests' = 0
    /\ call' = [IdleCall EXCEPT !.step = "select", !.role = role, !.before = model]
    /\ model' = IF role THEN RoleModel ELSE model
    /\ UNCHANGED <<unusable, ring, broke, cause>>

\* Benched slots are left behind before the first request, if another is left.
Select ==
    /\ call.step = "select"
    /\ IF ring.at \in ring.dead \/ ~ring.built
       THEN LET f == Failover(ring, call.tried, TRUE) IN
            /\ Moved(f)
            /\ call' = [call EXCEPT !.tried = f.tried, !.step = IF f.ok THEN @ ELSE "request"]
       ELSE call' = [call EXCEPT !.step = "request"] /\ UNCHANGED <<ring, model>>
    /\ UNCHANGED <<unusable, broke, cause, heard, requests, calls>>

\* Leaving the role block puts the remembered model back.
Return(step) ==
    /\ call' = IF step = "idle" THEN IdleCall ELSE [call EXCEPT !.step = step]
    /\ model' = IF call.role /\ step = "idle" THEN call.before ELSE model

\* Mutant: a one-off empty answer benches the key.
PermanentAny(v) == v # "retryable"

Permanent(v) == v \in {"credits", "dead_key", "generate_failed"}

GiveUp == call' = [call EXCEPT !.step = "exhausted"]

\* Mutant: the passes are not counted.
AfterFailureUncounted(v) ==
    LET f == Failover(ring, call.tried, Permanent(v))
        retryable == call.retryable /\ v = "retryable"
    IN  /\ Moved(f)
        /\ \/ f.ok /\ call' = [call EXCEPT !.tried = f.tried, !.retryable = retryable]
           \/ ~f.ok /\ retryable /\ call.passes > 0 /\ call' = [call EXCEPT !.tried = {}]
           \/ ~f.ok /\ ~(retryable /\ call.passes > 0) /\ GiveUp

\* A slot failed: another one, another pass after a wait, or nothing is left.
AfterFailure(v) ==
    LET f == Failover(ring, call.tried, Permanent(v))
        retryable == call.retryable /\ v = "retryable"
    IN  /\ Moved(f)
        /\ \/ f.ok /\ call' = [call EXCEPT !.tried = f.tried, !.retryable = retryable]
           \/ /\ ~f.ok /\ retryable /\ call.passes > 0
              /\ call' = [call EXCEPT !.tried = {}, !.passes = @ - 1]
           \/ ~f.ok /\ ~(retryable /\ call.passes > 0) /\ GiveUp

\* What a provider may answer: a status, an empty text or nothing at all is not
\* an answer, and a key without money gets none.
MayHear(v) == ring.at \in broke => v # "answer"

\* A visit of the slot; one that refuses json mode is posted to once more without it.
Request(v) ==
    /\ call.step = "request" /\ ring.built /\ MayHear(v)
    /\ heard' = heard \cup {ring.at} /\ requests' = requests + 1
    /\ cause' = IF v \in {"credits", "dead_key", "generate_failed"}
                THEN cause \cup {ring.at} ELSE cause
    /\ IF v = "answer" THEN Return("idle") /\ UNCHANGED ring ELSE AfterFailure(v)
    /\ UNCHANGED <<unusable, broke, calls>>

\* No client to ask with: the slot is benched and the next one tried.
NoClient ==
    /\ call.step = "request" /\ ~ring.built
    /\ LET f == Failover(ring, call.tried, TRUE) IN
          /\ Moved(f)
          /\ IF f.ok THEN call' = [call EXCEPT !.tried = f.tried] ELSE GiveUp
    /\ UNCHANGED <<unusable, broke, cause, heard, requests, calls>>

------------------------------------------------------------------------------
(* Credits.                                                                *)

\* interrupt() parks the run; outside a graph node, or answered "cancel", the
\* exception leaves the call and with it the role block.
Park  == call.step = "exhausted" /\ call' = [call EXCEPT !.step = "parked"]
         /\ UNCHANGED <<unusable, ring, model, broke, cause, heard, requests, calls>>
Raise == /\ call.step \in {"exhausted", "parked"} /\ Return("idle")
         /\ UNCHANGED <<unusable, ring, broke, cause, heard, requests, calls>>

\* "Continue": the human may have filled wallets; every slot is tried afresh, by
\* the node run again with a new client, or by that client when it fails once more.
Continue ==
    /\ call.step = "parked"
    /\ broke' \in SUBSET broke /\ cause' = {} /\ heard' = {} /\ requests' = 0
    /\ ring' = FreshRing
    /\ model' \in {Provider(0), IF call.role THEN RoleModel ELSE Provider(0)}
    /\ call' = [call EXCEPT !.step = "select", !.tried = {}, !.retryable = TRUE,
                            !.passes = BackoffPasses, !.before = Provider(0)]
    /\ UNCHANGED <<unusable, calls>>

\* A wallet runs dry while the client is in use.
RunsDry(i) == /\ i \notin broke /\ broke' = broke \cup {i}
              /\ UNCHANGED <<unusable, ring, model, call, cause, heard, requests, calls>>

FailoverNext == \/ \E role \in {FALSE, RoleModel # "none"} : StartCall(role)
        \/ Select \/ (\E v \in Verdict : Request(v)) \/ NoClient
        \/ Park \/ Raise \/ Continue \/ \E i \in Slots : RunsDry(i)

FailoverSpec == FailoverInit /\ [][FailoverNext]_failoverVars
------------------------------------------------------------------------------

Models == {Provider(i) : i \in Slots} \cup {RoleModel, "none"}
Calls == [step : {"idle", "select", "request", "exhausted", "parked"}, role : BOOLEAN,
          before : Models, tried : SUBSET Slots, retryable : BOOLEAN, passes : 0..BackoffPasses]
FailoverTypeOK ==
    /\ ring \in Ring /\ model \in Models /\ call \in Calls
    /\ unusable \subseteq Slots /\ broke \subseteq Slots /\ cause \subseteq Slots /\ heard \subseteq Slots
    /\ requests \in Nat /\ calls \in 0..MaxCalls

\* "Tries every slot before giving up" (_failover): when the run is parked for
\* credits, each key has been asked in this call or is known to be useless.  It
\* holds while every client can be constructed: a slot that cannot makes the
\* search start over from it and step over others.
EverySlotTried ==
    call.step \in {"exhausted", "parked"} /\ unusable = {} => Slots \subseteq heard \cup cause

\* A key is benched for what it said, never for a throttled or empty answer
\* ("one key never fully utilized").
BenchedForCause == ring.dead \subseteq cause \cup unusable

\* A call ends: it asks each key at most once for every pass.
RequestsBounded == requests <= Count * (BackoffPasses + 1)

------------------------------------------------------------------------------
(* What makes them inductive.  While every client can be constructed, what a *)
(* call has tried was asked or benched, and the slot it asks next was not     *)
(* tried, so that each request of a pass takes a slot more.                   *)

Fresh(tried, at) == Cardinality(tried) - (IF at \in tried THEN 1 ELSE 0)
CallInv ==
    /\ FailoverTypeOK /\ BenchedForCause /\ EverySlotTried
    /\ ring.built <=> Activated(ring.at)
    /\ unusable = {} /\ call.step \in {"select", "request"} => call.tried \subseteq heard \cup cause
    /\ requests <= Count * (BackoffPasses + 1)
    /\ call.step \in {"select", "request"} =>
         requests <= Count * (BackoffPasses - call.passes) + Fresh(call.tried, ring.at)
=============================================================================
