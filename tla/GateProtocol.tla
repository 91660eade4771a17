---------------------------- MODULE GateProtocol ----------------------------
(***************************************************************************)
(* What a gate promises the human: its question is shown, then answered,   *)
(* and the answer given to that question is applied to it, once.  Nothing  *)
(* is said of how many streams, retries and restarts it takes.             *)
(***************************************************************************)
CONSTANT Questions

VARIABLE stage   \* of each question

Stages == {"ahead", "asked", "answered", "applied"}

Init == stage = [q \in Questions |-> "ahead"]

Move(q, from, to) == stage[q] = from /\ stage' = [stage EXCEPT ![q] = to]

Ask(q)    == Move(q, "ahead", "asked")
Answer(q) == Move(q, "asked", "answered")
Apply(q)  == Move(q, "answered", "applied")

Next == \E q \in Questions : Ask(q) \/ Answer(q) \/ Apply(q)

Spec == Init /\ [][Next]_stage
=============================================================================
