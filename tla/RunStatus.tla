------------------------------ MODULE RunStatus ------------------------------
(***************************************************************************)
(* What the API promises of a run, whatever queue, workers and crashes lie *)
(* behind it: a status and a version that only move along the edges below. *)
(* A settled run stays settled, except that one that failed for want of    *)
(* credits may be continued; every answer to a gate opens a new version,   *)
(* and a gate is only ever raised by a running execution.                  *)
(***************************************************************************)
EXTENDS Integers

CONSTANTS Runs, MaxVersion

VARIABLES status, version

vars == <<status, version>>

TypeOK ==
    /\ status \in [Runs -> {"absent", "queued", "running", "awaiting_human",
                            "completed", "failed", "out_of_scope", "cancelled"}]
    /\ version \in [Runs -> 0..MaxVersion]

Init == /\ status = [r \in Runs |-> "absent"]
        /\ version = [r \in Runs |-> 0]

Move(r, from, to) == /\ status[r] \in from
                     /\ status' = [status EXCEPT ![r] = to]
                     /\ UNCHANGED version

Open(r, from) == /\ status[r] \in from
                 /\ version[r] < MaxVersion
                 /\ status' = [status EXCEPT ![r] = "queued"]
                 /\ version' = [version EXCEPT ![r] = @ + 1]

Create(r) == version[r] = 0 /\ Open(r, {"absent"})
Answer(r) == Open(r, {"awaiting_human", "failed"})
Begin(r)  == Move(r, {"queued"}, "running")
Park(r)   == Move(r, {"running"}, "awaiting_human")
Finish(r) == \E s \in {"completed", "out_of_scope"} : Move(r, {"running"}, s)
Fail(r)   == Move(r, {"queued", "running", "awaiting_human"}, "failed")
Cancel(r) == Move(r, {"queued", "running", "awaiting_human"}, "cancelled")

Next == \E r \in Runs : \/ Create(r) \/ Answer(r) \/ Begin(r) \/ Park(r)
                        \/ Finish(r) \/ Fail(r) \/ Cancel(r)

Spec == Init /\ [][Next]_vars

=============================================================================
