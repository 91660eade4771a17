------------------------------- MODULE RunRow -------------------------------
(***************************************************************************)
(* One row of the table research_runs, and the guarded SQL statements of   *)
(* ResearchRepository that write it.  Each statement is a pair: the WHERE  *)
(* clause (or the early return after SELECT .. FOR UPDATE) as a predicate  *)
(* on the row, and the row it leaves as a function of the old one.         *)
(*                                                                         *)
(* Every version bump draws a fresh execution_id, and every statement that *)
(* compares one compares the other, so the version stands for the pair.    *)
(* Columns no statement reads back (timestamps, current_job_id, metrics,   *)
(* the snapshot) are left out.                                             *)
(***************************************************************************)
EXTENDS Integers

CONSTANT MaxVersion      \* bound on execution_version, i.e. on resumes

ASSUME VersionAssumption == MaxVersion \in Nat \ {0}

Version == 1..MaxVersion

Settled == {"completed", "failed", "out_of_scope", "cancelled"}
Executing == {"queued", "running"}
Status == {"absent", "awaiting_human"} \cup Executing \cup Settled

\* What the error column says, as far as anything tells two texts apart:
\* the credits pattern of createResumeWithOutbox matches "credits" only.
Error == {"none", "missing_key", "credits", "other", "cancelled"}

\* interrupt_payload: the version of the execution that stored the gate the
\* row still carries, 0 when the column is NULL.
Row == [status : Status, version : 0..MaxVersion, gate : 0..MaxVersion,
        error : Error, deleted : BOOLEAN]

NoRow == [status |-> "absent", version |-> 0, gate |-> 0,
          error |-> "none", deleted |-> FALSE]

-----------------------------------------------------------------------------
(* What an agent stream tells the row.  "progress" is a heartbeat or update *)
(* whose snapshot is at a gate node or not plainly running; "research" is   *)
(* one whose snapshot is running in an active research node; a terminal     *)
(* frame is named by the status it carries.                                 *)

TerminalFrame == {"completed", "out_of_scope", "cancelled"}
ProgressFrame == {"progress", "research"}
FinalFrame == {"interrupt"} \cup TerminalFrame
Frame == ProgressFrame \cup FinalFrame

-----------------------------------------------------------------------------

CreatedRow == [NoRow EXCEPT !.status = "queued", !.version = 1]

\* Slips of these statements, for the mutation runs, each named for what it
\* forgets.
OwnedByRun(row, v) == row.status # "absent" /\ v > 0
ClaimableOnce(row, v) == row.version = v /\ row.status = "queued"
ClaimableUnfenced(row, v) == row.status \in Executing /\ v > 0
FrameAcceptedBlind(row, v) == row.status # "absent" /\ row.version = v
FrameStatusFromSnapshot(f) ==
    IF f = "research" THEN "running"
    ELSE IF f \in {"progress", "interrupt"} THEN "awaiting_human" ELSE f
FailableAlways(row, v) == row.status # "absent" /\ row.version = v
ResumableAnytime(row, action) == ~row.deleted /\ row.status \notin {"absent"} \cup Settled
                                 /\ action \in STRING
ResumedRowKeepsGate(row) == [row EXCEPT !.status = "queued", !.version = @ + 1,
                                        !.error = "none"]

\* WHERE id=$1 AND execution_version=$2 AND execution_id=$3
OwnedBy(row, v) == row.status # "absent" /\ row.version = v

Claimable(row, v) == OwnedBy(row, v) /\ row.status \in Executing
ClaimedRow(row) == [row EXCEPT !.status = "running"]

FrameAccepted(row, v) == OwnedBy(row, v) /\ row.status # "cancelled"

FrameStatus(f) == IF f \in ProgressFrame THEN "running"
                  ELSE IF f = "interrupt" THEN "awaiting_human" ELSE f

FrameGate(row, v, f) == CASE f = "progress"  -> row.gate
                          [] f = "interrupt" -> v
                          [] OTHER           -> 0

FramedRow(row, v, f) == [row EXCEPT !.status = FrameStatus(f),
                                    !.gate = FrameGate(row, v, f)]

Failable(row, v) == OwnedBy(row, v) /\ row.status \notin Settled
FailedRow(row, e) == [row EXCEPT !.status = "failed", !.error = e]

Cancellable(row) == /\ row.status \notin {"absent"} \cup Settled
                    /\ ~row.deleted
CancelledRow(row) == [row EXCEPT !.status = "cancelled", !.error = "cancelled"]

\* "continue" reopens a run that failed for want of credits; any action
\* answers a parked gate.
Resumable(row, action) ==
    /\ ~row.deleted
    /\ \/ row.status = "awaiting_human"
       \/ action = "continue" /\ row.status = "failed" /\ row.error = "credits"

ResumedRow(row) == [row EXCEPT !.status = "queued", !.version = @ + 1,
                               !.error = "none", !.gate = 0]

Deletable(row) == row.status # "absent" /\ ~row.deleted
DeletedRow(row) == [row EXCEPT !.deleted = TRUE]

-----------------------------------------------------------------------------
(* How a row is shown: presentRun in the API.                               *)

PresentedParked(row) ==
    row.status = "awaiting_human" \/ (row.status = "running" /\ row.gate # 0)

=============================================================================
