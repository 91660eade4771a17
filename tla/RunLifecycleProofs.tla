------------------------- MODULE RunLifecycleProofs -------------------------
(***************************************************************************)
(* Proofs about RunLifecycle, for any number of runs, API processes,       *)
(* attempts, stalls and crashes, with or without keys.  Where a theorem    *)
(* says ~LiveStalls, no worker that is alive loses its job lock: a worker  *)
(* that goes on without its lock does write next to its successor.         *)
(***************************************************************************)
EXTENDS RunLifecycle, SequenceTheorems, TLAPS

-----------------------------------------------------------------------------
(* The statements on a row leave a row.                                     *)

LEMMA VersionBounds == 0 \in 0..MaxVersion /\ 1 \in Version /\ Version \subseteq 0..MaxVersion
  BY VersionAssumption DEF Version

LEMMA StatusMembers == Executing \cup Settled \cup {"absent", "awaiting_human"} = Status
  BY DEF Status

LEMMA CreatedRowType == NoRow \in Row /\ CreatedRow \in Row
<1>1. NoRow \in Row
  BY VersionBounds DEF NoRow, Row, Status, Error
<1>2. CreatedRow \in Row
  BY <1>1, VersionBounds DEF CreatedRow, Row, Status, Executing, Version
<1> QED BY <1>1, <1>2

LEMMA ClaimedRowType == ASSUME NEW row \in Row PROVE ClaimedRow(row) \in Row
  BY DEF ClaimedRow, Row, Status, Executing

LEMMA CancelledRowType == ASSUME NEW row \in Row PROVE CancelledRow(row) \in Row
  BY DEF CancelledRow, Row, Status, Settled, Error

LEMMA DeletedRowType == ASSUME NEW row \in Row PROVE DeletedRow(row) \in Row
  BY DEF DeletedRow, Row

LEMMA FailedRowType ==
    ASSUME NEW row \in Row, NEW e \in Error PROVE FailedRow(row, e) \in Row
  BY DEF FailedRow, Row, Status, Settled

LEMMA FramedRowType ==
    ASSUME NEW row \in Row, NEW v \in Version, NEW f \in Frame
    PROVE  FramedRow(row, v, f) \in Row
<1>1. FrameStatus(f) \in Status
  BY DEF FrameStatus, Frame, FinalFrame, ProgressFrame, TerminalFrame, Status,
         Executing, Settled
<1>2. FrameGate(row, v, f) \in 0..MaxVersion
  BY VersionBounds DEF FrameGate, Row
<1> QED BY <1>1, <1>2 DEF FramedRow, Row

LEMMA ResumedRowType ==
    ASSUME NEW row \in Row, row.version < MaxVersion PROVE ResumedRow(row) \in Row
<1>1. ASSUME NEW n \in 0..MaxVersion
      PROVE  [row EXCEPT !.status = "queued", !.version = n,
                         !.error = "none", !.gate = 0] \in Row
  BY VersionBounds DEF Row, Status, Executing, Error
<1>2. row.version + 1 \in 0..MaxVersion
  BY VersionAssumption DEF Row
<1> QED BY <1>1, <1>2 DEF ResumedRow

-----------------------------------------------------------------------------
(* What the statements do to the gate: GateIsCurrent and ParkedHasGate, row *)
(* by row.                                                                  *)

GateFits(row) == /\ row.gate \in {0, row.version}
                 /\ row.status = "awaiting_human" => row.gate = row.version

LEMMA CreatedRowGate == GateFits(NoRow) /\ GateFits(CreatedRow)
  BY DEF GateFits, NoRow, CreatedRow

LEMMA RewrittenRowGate ==
    ASSUME NEW row \in Row, GateFits(row)
    PROVE  /\ GateFits(ClaimedRow(row)) /\ GateFits(CancelledRow(row))
           /\ GateFits(DeletedRow(row)) /\ GateFits(ResumedRow(row))
           /\ \A e \in Error : GateFits(FailedRow(row, e))
<1>1. GateFits(ClaimedRow(row))
  BY DEF GateFits, ClaimedRow, Row
<1>2. GateFits(CancelledRow(row))
  BY DEF GateFits, CancelledRow, Row
<1>3. GateFits(DeletedRow(row))
  BY DEF GateFits, DeletedRow, Row
<1>4. GateFits(ResumedRow(row))
  BY DEF GateFits, ResumedRow, Row
<1>5. \A e \in Error : GateFits(FailedRow(row, e))
  BY DEF GateFits, FailedRow, Row
<1> QED BY <1>1, <1>2, <1>3, <1>4, <1>5

\* Where the fencing matters: the gate a frame stores is the current one
\* because the frame is applied to the row of its own version only.
LEMMA FramedRowGate ==
    ASSUME NEW row \in Row, GateFits(row), NEW v \in Version, NEW f \in Frame,
           FrameAccepted(row, v)
    PROVE  GateFits(FramedRow(row, v, f))
<1>1. row.version = v
  BY DEF FrameAccepted, OwnedBy
<1>2. CASE f \in ProgressFrame
  BY <1>1, <1>2 DEF GateFits, FramedRow, FrameStatus, FrameGate, ProgressFrame, Row
<1>3. CASE f = "interrupt"
  BY <1>1, <1>3 DEF GateFits, FramedRow, FrameStatus, FrameGate, ProgressFrame, Row
<1>4. CASE f \in TerminalFrame
  BY <1>1, <1>4 DEF GateFits, FramedRow, FrameStatus, FrameGate, ProgressFrame,
                    TerminalFrame, Row
<1> QED BY <1>2, <1>3, <1>4 DEF Frame, FinalFrame
-----------------------------------------------------------------------------
(* IInv by the variable it speaks of, so that the proof of an action looks  *)
(* at the variables the action writes and no others.                        *)

RowsInv     == rows \in [Runs -> Row] /\ \A r \in Runs : GateFits(rows[r])
DispatchInv == /\ outbox \in Seq([job : Job, dispatched : BOOLEAN])
               /\ publishing \in [Apis -> Nat]
JobsInv     == jobs \in [Job -> JobRecord] /\ JobsOK
WorkerInv   == worker \in [Apis -> Worker] /\ WorkersOK
FailedInv   == exhausted \in [Apis -> SUBSET Job]
KeyInv      == keyRequests \in [Apis -> SUBSET Job] /\ vault \in [Apis -> SUBSET Job]
CrashInv    == crashes \in 0..MaxCrashes

Parts == /\ RowsInv /\ DispatchInv /\ JobsInv /\ WorkerInv
         /\ FailedInv /\ KeyInv /\ CrashInv

LEMMA IInvIsParts == IInv <=> Parts
<1>1. rows \in [Runs -> Row] =>
        (GateIsCurrent /\ ParkedHasGate <=> \A r \in Runs : GateFits(rows[r]))
  BY DEF GateIsCurrent, ParkedHasGate, GateFits
<1> QED BY <1>1 DEF IInv, TypeOK, Parts, RowsInv, DispatchInv, JobsInv, WorkerInv,
                    FailedInv, KeyInv, CrashInv

LEMMA RowsStep ==
    ASSUME RowsInv, NEW r \in Runs, NEW row \in Row, GateFits(row),
           rows' = [rows EXCEPT ![r] = row]
    PROVE  RowsInv'
  BY DEF RowsInv, GateFits

LEMMA JobsStep ==
    ASSUME JobsInv, NEW j \in Job, NEW new \in JobRecord,
           new.state \in {"none", "waiting", "active"} => new.made < MaxAttempts,
           new.state = "active" => new.stalls <= MaxStalled /\ new.owner \in Apis,
           jobs' = [jobs EXCEPT ![j] = new]
    PROVE  JobsInv'
  BY DEF JobsInv, JobsOK

LEMMA GotoStep ==
    ASSUME WorkerInv, NEW a \in Apis, worker[a].step # "idle",
           NEW step \in WorkerStep, Goto(a, step)
    PROVE  WorkerInv'
  BY DEF WorkerInv, WorkersOK, Goto, Worker

LEMMA BusyJob ==
    ASSUME WorkerInv, NEW a \in Apis, worker[a].step # "idle"
    PROVE  worker[a].job \in Job
  BY DEF WorkerInv, WorkersOK

LEMMA JobFields == ASSUME NEW j \in Job PROVE j.run \in Runs /\ j.version \in Version
  BY DEF Job

LEMMA FailExecutionStep ==
    ASSUME RowsInv, NEW j \in Job, NEW e \in Error, FailExecution(j, e)
    PROVE  RowsInv'
<1>1. CASE Failable(rows[j.run], j.version)
  <2>1. rows[j.run] \in Row /\ GateFits(rows[j.run])
    BY JobFields DEF RowsInv
  <2>2. FailedRow(rows[j.run], e) \in Row /\ GateFits(FailedRow(rows[j.run], e))
    BY <2>1, FailedRowType, RewrittenRowGate
  <2> QED BY <1>1, <2>2, RowsStep, JobFields DEF FailExecution
<1>2. CASE ~Failable(rows[j.run], j.version)
  BY <1>2 DEF FailExecution, RowsInv
<1> QED BY <1>1, <1>2

LEMMA MoveToFailedStep ==
    ASSUME JobsInv, FailedInv, NEW a \in Apis, NEW j \in Job, NEW retry \in BOOLEAN,
           jobs[j].state \in {"waiting", "active"}, MoveToFailed(a, j, retry)
    PROVE  JobsInv' /\ FailedInv'
<1> DEFINE made == jobs[j].made + 1
           state == IF retry /\ made < MaxAttempts THEN "waiting" ELSE "failed"
           new == [jobs[j] EXCEPT !.state = state, !.made = made, !.owner = NoApi]
<1>1. jobs[j] \in JobRecord /\ made \in 0..MaxAttempts
  BY LifecycleAssumption DEF JobsInv, JobsOK, JobRecord
<1>2. jobs' = [jobs EXCEPT ![j] = new]
  BY <1>1 DEF MoveToFailed, JobsInv
<1>3. /\ new \in JobRecord /\ new.state # "active"
      /\ new.state \in {"none", "waiting", "active"} => new.made < MaxAttempts
  BY <1>1 DEF JobRecord, JobState
<1>4. JobsInv'
  BY <1>2, <1>3, JobsStep
<1>5. FailedInv'
  BY DEF MoveToFailed, FailedInv
<1> QED BY <1>4, <1>5
-----------------------------------------------------------------------------
(* Initially, and along every step.                                         *)

LEMMA InitIInv == Init => IInv
<1> SUFFICES ASSUME Init PROVE Parts
  BY IInvIsParts
<1>1. RowsInv
  BY CreatedRowType, CreatedRowGate DEF Init, RowsInv
<1>2. DispatchInv
  BY EmptySeq DEF Init, DispatchInv
<1>3. JobsInv
  BY LifecycleAssumption DEF Init, JobsInv, JobsOK, NewJob, JobRecord, JobState
<1>4. WorkerInv
  BY DEF Init, WorkerInv, WorkersOK, Worker, IdleWorker, WorkerStep
<1>5. FailedInv /\ KeyInv
  BY DEF Init, FailedInv, KeyInv
<1>6. CrashInv
  BY LifecycleAssumption DEF Init, CrashInv
<1> QED BY <1>1, <1>2, <1>3, <1>4, <1>5, <1>6 DEF Parts

\* Requests.
LEMMA OpenExecutionStep ==
    ASSUME Parts, NEW a \in Apis, NEW r \in Runs, NEW row \in Row, GateFits(row),
           row.version \in Version, OpenExecution(a, r, row)
    PROVE  Parts'
<1> DEFINE j == [run |-> r, version |-> row.version]
<1>1. j \in Job
  BY DEF Job
<1>2. RowsInv'
  BY RowsStep DEF Parts, OpenExecution
<1>3. DispatchInv'
  <2>1. [job |-> j, dispatched |-> FALSE] \in [job : Job, dispatched : BOOLEAN]
    BY <1>1
  <2>2. outbox' \in Seq([job : Job, dispatched : BOOLEAN])
    BY <2>1 DEF Parts, DispatchInv, OpenExecution
  <2> QED BY <2>2 DEF Parts, DispatchInv, OpenExecution
<1>4. KeyInv'
  BY <1>1 DEF Parts, KeyInv, OpenExecution
<1>5. JobsInv' /\ WorkerInv' /\ FailedInv' /\ CrashInv'
  BY DEF Parts, OpenExecution, JobsInv, JobsOK, WorkerInv, WorkersOK, FailedInv, CrashInv
<1> QED BY <1>2, <1>3, <1>4, <1>5 DEF Parts

LEMMA RewriteRowStep ==
    ASSUME Parts, NEW r \in Runs, NEW row \in Row, GateFits(row), RewriteRow(r, row)
    PROVE  Parts'
<1>1. RowsInv'
  BY RowsStep DEF Parts, RewriteRow
<1>2. DispatchInv' /\ JobsInv' /\ WorkerInv' /\ FailedInv' /\ KeyInv' /\ CrashInv'
  BY DEF Parts, RewriteRow, DispatchInv, JobsInv, JobsOK, WorkerInv, WorkersOK,
         FailedInv, KeyInv, CrashInv
<1> QED BY <1>1, <1>2 DEF Parts

LEMMA RequestStep ==
    ASSUME Parts, NEW a \in Apis, Request(a) PROVE Parts'
<1>1. ASSUME NEW r \in Runs, CreateRun(a, r) PROVE Parts'
  <2>1. CreatedRow.version = 1
    BY DEF CreatedRow, NoRow
  <2> QED BY <1>1, <2>1, OpenExecutionStep, CreatedRowType, CreatedRowGate, VersionBounds
          DEF CreateRun
<1>2. ASSUME NEW r \in Runs, NEW act \in {"answer", "continue"}, ResumeRun(a, r, act)
      PROVE Parts'
  <2>1. rows[r] \in Row /\ GateFits(rows[r]) /\ rows[r].version < MaxVersion
    BY <1>2 DEF Parts, RowsInv, ResumeRun
  <2>2. ResumedRow(rows[r]) \in Row /\ GateFits(ResumedRow(rows[r]))
    BY <2>1, ResumedRowType, RewrittenRowGate
  <2>3. ResumedRow(rows[r]).version \in Version
    BY <2>1, VersionAssumption DEF ResumedRow, Row, Version
  <2> QED BY <1>2, <2>2, <2>3, OpenExecutionStep DEF ResumeRun
<1>3. ASSUME NEW j \in Job, PutKey(a, j) \/ RequestFails(a, j) \/ KeyExpires(a, j)
      PROVE Parts'
  <2>1. KeyInv'
    BY <1>3 DEF Parts, KeyInv, PutKey, RequestFails, KeyExpires
  <2>2. UNCHANGED <<rows, outbox, publishing, jobs, worker, exhausted, crashes>>
    BY <1>3 DEF PutKey, RequestFails, KeyExpires
  <2> QED BY <2>1, <2>2 DEF Parts, RowsInv, DispatchInv, JobsInv, JobsOK, WorkerInv,
                            WorkersOK, FailedInv, CrashInv
<1> QED BY <1>1, <1>2, <1>3 DEF Request

\* The dispatcher.
LEMMA DispatchStep ==
    ASSUME Parts, NEW a \in Apis, Publish(a) \/ CommitDispatch(a) PROVE Parts'
<1>1. ASSUME Publish(a) PROVE Parts'
  <2>1. PICK i \in 1..Len(outbox) :
          /\ publishing' = [publishing EXCEPT ![a] = i]
          /\ jobs' = IF jobs[outbox[i].job].state = "none"
                     THEN [jobs EXCEPT ![outbox[i].job].state = "waiting"]
                     ELSE jobs
    BY <1>1 DEF Publish
  <2>2. outbox[i].job \in Job
    <3>1. outbox \in Seq([job : Job, dispatched : BOOLEAN])
      BY DEF Parts, DispatchInv
    <3>2. outbox[i] \in [job : Job, dispatched : BOOLEAN]
      BY <3>1, ElementOfSeq
    <3> QED BY <3>2
  <2>3. DispatchInv'
    <3>1. i \in Nat
      OBVIOUS
    <3> QED BY <1>1, <2>1, <3>1 DEF Parts, DispatchInv, Publish
  <2>4. JobsInv'
    BY <2>1, <2>2 DEF Parts, JobsInv, JobsOK, JobRecord, JobState
  <2>5. RowsInv' /\ WorkerInv' /\ FailedInv' /\ KeyInv' /\ CrashInv'
    BY <1>1 DEF Parts, Publish, RowsInv, WorkerInv, WorkersOK, FailedInv, KeyInv, CrashInv
  <2> QED BY <2>3, <2>4, <2>5 DEF Parts
<1>2. ASSUME CommitDispatch(a) PROVE Parts'
  <2> DEFINE i == publishing[a]
             Entry == [job : Job, dispatched : BOOLEAN]
             new == [outbox[i] EXCEPT !.dispatched = TRUE]
  <2>1. i \in 1..Len(outbox) /\ outbox \in Seq(Entry)
    BY <1>2 DEF Parts, DispatchInv, CommitDispatch
  <2>2. outbox[i] \in Entry
    BY <2>1, ElementOfSeq
  <2>3. new \in Entry
    BY <2>2
  <2>4. outbox' = [outbox EXCEPT ![i] = new]
    BY <1>2 DEF CommitDispatch
  <2>5. outbox' \in Seq(Entry)
    BY <2>1, <2>3, <2>4, ExceptSeq
  <2>6. DispatchInv'
    BY <1>2, <2>5 DEF Parts, DispatchInv, CommitDispatch
  <2>7. RowsInv' /\ JobsInv' /\ WorkerInv' /\ FailedInv' /\ KeyInv' /\ CrashInv'
    BY <1>2 DEF Parts, CommitDispatch, RowsInv, JobsInv, JobsOK, WorkerInv, WorkersOK,
                FailedInv, KeyInv, CrashInv
  <2> QED BY <2>6, <2>7 DEF Parts
<1> QED BY <1>1, <1>2
\* BullMQ.
LEMMA QueueStep ==
    ASSUME Parts, NEW a \in Apis, NEW j \in Job, TakeJob(a, j) \/ RejectStalledJob(a, j)
    PROVE  Parts'
<1> USE DEF Parts
<1>1. ASSUME TakeJob(a, j) PROVE Parts'
  <2> DEFINE new == [jobs[j] EXCEPT !.state = "active", !.owner = a]
  <2>1. jobs[j] \in JobRecord /\ jobs[j].made < MaxAttempts /\ jobs[j].stalls <= MaxStalled
    BY <1>1 DEF TakeJob, JobsInv, JobsOK
  <2>2. /\ new \in JobRecord /\ new.state = "active" /\ new.made = jobs[j].made
        /\ new.stalls = jobs[j].stalls /\ new.owner = a
    BY <2>1 DEF JobRecord, JobState
  <2>3. jobs' = [jobs EXCEPT ![j] = new]
    BY <1>1 DEF TakeJob, JobsInv
  <2>4. JobsInv'
    BY <2>1, <2>2, <2>3, JobsStep
  <2>5. WorkerInv'
    BY <1>1 DEF TakeJob, WorkerInv, WorkersOK, Worker, WorkerStep
  <2>6. RowsInv' /\ DispatchInv' /\ FailedInv' /\ KeyInv' /\ CrashInv'
    BY <1>1 DEF TakeJob, RowsInv, DispatchInv, FailedInv, KeyInv, CrashInv
  <2> QED BY <2>4, <2>5, <2>6
<1>2. ASSUME RejectStalledJob(a, j) PROVE Parts'
  <2>1. JobsInv' /\ FailedInv'
    BY <1>2, MoveToFailedStep DEF RejectStalledJob
  <2>2. RowsInv' /\ DispatchInv' /\ WorkerInv' /\ KeyInv' /\ CrashInv'
    BY <1>2 DEF RejectStalledJob, RowsInv, DispatchInv, WorkerInv, WorkersOK, KeyInv, CrashInv
  <2> QED BY <2>1, <2>2
<1> QED BY <1>1, <1>2

LEMMA StalledCheckStep ==
    ASSUME Parts, NEW j \in Job, StalledCheck(j) PROVE Parts'
<1> USE DEF Parts
<1> DEFINE new == [jobs[j] EXCEPT !.state = "waiting", !.owner = NoApi, !.stalls = @ + 1]
<1>1. /\ jobs[j] \in JobRecord /\ jobs[j].made < MaxAttempts
      /\ jobs[j].stalls + 1 \in 0..(MaxStalled + 1)
  BY LifecycleAssumption DEF StalledCheck, JobsInv, JobsOK, JobRecord
<1>2. new \in JobRecord /\ new.state = "waiting" /\ new.made = jobs[j].made
  BY <1>1 DEF JobRecord, JobState
<1>3. jobs' = [jobs EXCEPT ![j] = new]
  BY DEF StalledCheck, JobsInv
<1>4. JobsInv'
  BY <1>1, <1>2, <1>3, JobsStep
<1>5. RowsInv' /\ DispatchInv' /\ WorkerInv' /\ FailedInv' /\ KeyInv' /\ CrashInv'
  BY DEF StalledCheck, RowsInv, DispatchInv, WorkerInv, WorkersOK, FailedInv, KeyInv, CrashInv
<1> QED BY <1>4, <1>5

LEMMA EndJobStep ==
    ASSUME Parts, NEW a \in Apis, CompleteJob(a) \/ FailAttempt(a)
    PROVE  Parts'
<1> USE DEF Parts
<1> DEFINE j == worker[a].job
<1>1. j \in Job
  BY BusyJob DEF CompleteJob, FailAttempt
<1>2. WorkerInv'
  <2>1. worker' = [worker EXCEPT ![a] = IdleWorker]
    BY DEF CompleteJob, FailAttempt
  <2> QED BY <2>1 DEF WorkerInv, WorkersOK, Worker, IdleWorker, WorkerStep
<1>3. JobsInv' /\ FailedInv'
  <2>1. CASE CompleteJob(a) /\ Owns(a, j)
    <3> DEFINE new == [jobs[j] EXCEPT !.state = "completed", !.owner = NoApi]
    <3>1. jobs[j] \in JobRecord
      BY <1>1 DEF JobsInv
    <3>2. new \in JobRecord /\ new.state = "completed"
      BY <3>1 DEF JobRecord, JobState
    <3>3. jobs' = [jobs EXCEPT ![j] = new]
      BY <2>1, <1>1 DEF CompleteJob, JobsInv
    <3>4. JobsInv'
      BY <1>1, <3>2, <3>3, JobsStep
    <3> QED BY <2>1, <3>4 DEF CompleteJob, FailedInv
  <2>2. CASE FailAttempt(a) /\ Owns(a, j)
    BY <2>2, <1>1, MoveToFailedStep DEF FailAttempt, Owns
  <2>3. CASE ~Owns(a, j)
    BY <2>3 DEF CompleteJob, FailAttempt, JobsInv, JobsOK, FailedInv
  <2> QED BY <2>1, <2>2, <2>3
<1>4. RowsInv' /\ DispatchInv' /\ KeyInv' /\ CrashInv'
  BY DEF CompleteJob, FailAttempt, RowsInv, DispatchInv, KeyInv, CrashInv
<1> QED BY <1>2, <1>3, <1>4

\* ResearchProcessor.
LEMMA ClaimStep ==
    ASSUME Parts, NEW a \in Apis, ClaimRow(a) \/ PeekKey(a) \/ Throw(a)
    PROVE  Parts'
<1> USE DEF Parts
<1> DEFINE j == worker[a].job
<1>1. worker[a].step # "idle" /\ j \in Job
  BY BusyJob DEF ClaimRow, PeekKey, Throw
<1>2. WorkerInv'
  <2>1. \E step \in WorkerStep : Goto(a, step)
    BY DEF ClaimRow, PeekKey, Throw, WorkerStep
  <2> QED BY <1>1, <2>1, GotoStep
<1>3. RowsInv'
  <2>1. rows[j.run] \in Row /\ GateFits(rows[j.run])
    BY <1>1, JobFields DEF RowsInv
  <2>2. ClaimedRow(rows[j.run]) \in Row /\ GateFits(ClaimedRow(rows[j.run]))
    BY <2>1, ClaimedRowType, RewrittenRowGate
  <2>3. \/ rows' = [rows EXCEPT ![j.run] = ClaimedRow(rows[j.run])]
        \/ UNCHANGED rows
    BY DEF ClaimRow, PeekKey, Throw
  <2> QED BY <1>1, <2>2, <2>3, RowsStep, JobFields DEF RowsInv
<1>4. DispatchInv' /\ JobsInv' /\ FailedInv' /\ KeyInv' /\ CrashInv'
  BY DEF ClaimRow, PeekKey, Throw, DispatchInv, JobsInv, JobsOK, FailedInv, KeyInv, CrashInv
<1> QED BY <1>2, <1>3, <1>4

LEMMA FrameStep ==
    ASSUME Parts, NEW a \in Apis, NEW f \in Frame, ReceiveFrame(a, f)
    PROVE  Parts'
<1> USE DEF Parts
<1> DEFINE j == worker[a].job
<1>1. worker[a].step # "idle" /\ j \in Job
  BY BusyJob DEF ReceiveFrame
<1>2. WorkerInv'
  <2>1. Goto(a, "return") \/ UNCHANGED worker
    BY DEF ReceiveFrame
  <2> QED BY <1>1, <2>1, GotoStep DEF WorkerInv, WorkersOK, WorkerStep
<1>3. RowsInv'
  <2>1. CASE FrameAccepted(rows[j.run], j.version)
    <3>1. rows[j.run] \in Row /\ GateFits(rows[j.run]) /\ j.version \in Version
      BY <1>1, JobFields DEF RowsInv
    <3>2. /\ FramedRow(rows[j.run], j.version, f) \in Row
          /\ GateFits(FramedRow(rows[j.run], j.version, f))
      BY <2>1, <3>1, FramedRowType, FramedRowGate
    <3>3. rows' = [rows EXCEPT ![j.run] = FramedRow(rows[j.run], j.version, f)]
      BY <2>1 DEF ReceiveFrame
    <3> QED BY <1>1, <3>2, <3>3, RowsStep, JobFields
  <2>2. CASE ~FrameAccepted(rows[j.run], j.version)
    BY <2>2 DEF ReceiveFrame, RowsInv
  <2> QED BY <2>1, <2>2
<1>4. KeyInv'
  BY DEF ReceiveFrame, ReleaseKey, KeyInv
<1>5. DispatchInv' /\ JobsInv' /\ FailedInv' /\ CrashInv'
  BY DEF ReceiveFrame, DispatchInv, JobsInv, JobsOK, FailedInv, CrashInv
<1> QED BY <1>2, <1>3, <1>4, <1>5

LEMMA FailStep ==
    ASSUME Parts, NEW a \in Apis,
           \/ FailForMissingKey(a)
           \/ \E e \in ErrorText : ReceiveFatalError(a, e)
           \/ \E j \in Job, e \in ErrorText : OnFailed(a, j, e)
    PROVE  Parts'
<1> USE DEF Parts
<1>1. ErrorText \subseteq Error /\ "missing_key" \in Error
  BY DEF ErrorText, Error
<1>2. RowsInv'
  <2>1. ASSUME worker[a].step # "idle" PROVE worker[a].job \in Job
    BY <2>1, BusyJob
  <2>2. \/ \E j \in Job, e \in Error : FailExecution(j, e)
        \/ UNCHANGED rows
    BY <1>1, <2>1 DEF FailForMissingKey, ReceiveFatalError, OnFailed
  <2> QED BY <2>2, FailExecutionStep DEF RowsInv
<1>3. WorkerInv'
  <2>1. \/ worker[a].step # "idle" /\ (Goto(a, "return") \/ Goto(a, "throw"))
        \/ UNCHANGED worker
    BY DEF FailForMissingKey, ReceiveFatalError, OnFailed
  <2> QED BY <2>1, GotoStep DEF WorkerInv, WorkersOK, WorkerStep
<1>4. KeyInv' /\ FailedInv'
  BY DEF FailForMissingKey, ReceiveFatalError, OnFailed, ReleaseKey, KeyInv, FailedInv
<1>5. DispatchInv' /\ JobsInv' /\ CrashInv'
  BY DEF FailForMissingKey, ReceiveFatalError, OnFailed, DispatchInv, JobsInv, JobsOK, CrashInv
<1> QED BY <1>2, <1>3, <1>4, <1>5

LEMMA CrashStep == ASSUME Parts, NEW a \in Apis, Crash(a) PROVE Parts'
<1> USE DEF Parts
<1>1. DispatchInv' /\ FailedInv' /\ KeyInv'
  BY DEF Crash, DispatchInv, FailedInv, KeyInv
<1>2. WorkerInv'
  BY DEF Crash, WorkerInv, WorkersOK, Worker, IdleWorker, WorkerStep
<1>3. CrashInv'
  BY LifecycleAssumption DEF Crash, CrashInv
<1>4. RowsInv' /\ JobsInv'
  BY DEF Crash, RowsInv, JobsInv, JobsOK
<1> QED BY <1>1, <1>2, <1>3, <1>4

\* IInv, in its parts, is inductive.
LEMMA NextParts == Parts /\ [Next]_vars => Parts'
<1> SUFFICES ASSUME Parts, [Next]_vars PROVE Parts'
  OBVIOUS
<1>1. ASSUME NEW a \in Apis, WorkerNext(a) PROVE Parts'
  BY <1>1, QueueStep, EndJobStep, ClaimStep, FrameStep, FailStep DEF WorkerNext
<1>2. ASSUME NEW a \in Apis, Request(a) \/ Publish(a) \/ CommitDispatch(a) \/ Crash(a)
      PROVE Parts'
  BY <1>2, RequestStep, DispatchStep, CrashStep
<1>3. ASSUME NEW r \in Runs, CancelRun(r) \/ DeleteRun(r) PROVE Parts'
  <2>1. rows[r] \in Row /\ GateFits(rows[r])
    BY DEF Parts, RowsInv
  <2>2. /\ CancelledRow(rows[r]) \in Row /\ GateFits(CancelledRow(rows[r]))
        /\ DeletedRow(rows[r]) \in Row /\ GateFits(DeletedRow(rows[r]))
    BY <2>1, CancelledRowType, DeletedRowType, RewrittenRowGate
  <2> QED BY <1>3, <2>2, RewriteRowStep DEF CancelRun, DeleteRun
<1>4. ASSUME NEW j \in Job, StalledCheck(j) PROVE Parts'
  BY <1>4, StalledCheckStep
<1>5. CASE UNCHANGED vars
  BY <1>5 DEF vars, Parts, RowsInv, DispatchInv, JobsInv, JobsOK, WorkerInv, WorkersOK,
              FailedInv, KeyInv, CrashInv
<1> QED BY <1>1, <1>2, <1>3, <1>4, <1>5 DEF Next

\* The strengthened invariant holds of every reachable state.
THEOREM Invariance == Spec => []IInv
BY InitIInv, IInvIsParts, NextParts, PTL DEF Spec

\* Type correctness, for every instance.
THEOREM TypeCorrect == Spec => []TypeOK
<1>1. IInv => TypeOK
  BY DEF IInv
<1> QED BY <1>1, Invariance, PTL

\* A gate on display was raised by the current execution.
THEOREM GatesAreCurrent == Spec => []GateIsCurrent
<1>1. IInv => GateIsCurrent
  BY DEF IInv
<1> QED BY <1>1, Invariance, PTL

\* A parked run carries the question of its current execution.
THEOREM ParkedRunsHaveGates == Spec => []ParkedHasGate
<1>1. IInv => ParkedHasGate
  BY DEF IInv
<1> QED BY <1>1, Invariance, PTL
-----------------------------------------------------------------------------
(* What a step may write into a row, for the two action properties.         *)

UserWrites(r) ==
    \/ rows[r].status = "absent" /\ rows'[r] = CreatedRow
    \/ \E act \in {"answer", "continue"} :
          /\ Resumable(rows[r], act) /\ rows[r].version < MaxVersion
          /\ rows'[r] = ResumedRow(rows[r])
    \/ Cancellable(rows[r]) /\ rows'[r] = CancelledRow(rows[r])
    \/ Deletable(rows[r]) /\ rows'[r] = DeletedRow(rows[r])

Streams(r, v) == \E a \in Apis : /\ worker[a].step = "stream"
                                 /\ worker[a].job.run = r /\ worker[a].job.version = v

Holds(j) == \E a \in Apis : worker[a].job = j \/ j \in exhausted[a]

ExecutionWrites(r, v) ==
    \/ Claimable(rows[r], v) /\ rows'[r] = ClaimedRow(rows[r])
    \/ /\ FrameAccepted(rows[r], v) /\ Streams(r, v)
       /\ \E f \in Frame : rows'[r] = FramedRow(rows[r], v, f)
    \/ \E e \in Error : Failable(rows[r], v) /\ rows'[r] = FailedRow(rows[r], e)

WorkerMove(r) ==
    \/ rows'[r] = rows[r]
    \/ \E j \in Job : j.run = r /\ Holds(j) /\ ExecutionWrites(r, j.version)

RowMove(r) == UserWrites(r) \/ WorkerMove(r)

\* At most one run is written.
OneRow == \E s \in Runs : \A r \in Runs \ {s} : rows'[r] = rows[r]

LEMMA UserMoves ==
    ASSUME RowsInv, NEW r \in Runs,
           \/ \E a \in Apis, s \in Runs : CreateRun(a, s)
           \/ \E a \in Apis, s \in Runs, act \in {"answer", "continue"} : ResumeRun(a, s, act)
           \/ \E s \in Runs : CancelRun(s) \/ DeleteRun(s)
    PROVE  RowMove(r) /\ OneRow
<1>1. PICK s \in Runs :
        \/ rows[s].status = "absent" /\ rows' = [rows EXCEPT ![s] = CreatedRow]
        \/ \E act \in {"answer", "continue"} :
              /\ Resumable(rows[s], act) /\ rows[s].version < MaxVersion
              /\ rows' = [rows EXCEPT ![s] = ResumedRow(rows[s])]
        \/ Cancellable(rows[s]) /\ rows' = [rows EXCEPT ![s] = CancelledRow(rows[s])]
        \/ Deletable(rows[s]) /\ rows' = [rows EXCEPT ![s] = DeletedRow(rows[s])]
  BY DEF CreateRun, ResumeRun, CancelRun, DeleteRun, OpenExecution, RewriteRow
<1>2. ASSUME r = s PROVE RowMove(r)
  BY <1>1, <1>2 DEF RowsInv, RowMove, UserWrites
<1>3. ASSUME r # s PROVE RowMove(r)
  BY <1>1, <1>3 DEF RowsInv, RowMove, WorkerMove
<1>4. OneRow
  BY <1>1 DEF RowsInv, OneRow
<1> QED BY <1>2, <1>3, <1>4

LEMMA ExecutionMoves ==
    ASSUME RowsInv, WorkerInv, NEW r \in Runs, NEW a \in Apis,
           \/ ClaimRow(a) \/ FailForMissingKey(a)
           \/ \E f \in Frame : ReceiveFrame(a, f)
           \/ \E e \in ErrorText : ReceiveFatalError(a, e)
           \/ \E j \in Job, e \in ErrorText : OnFailed(a, j, e)
    PROVE  WorkerMove(r) /\ OneRow
<1>1. ErrorText \subseteq Error /\ "missing_key" \in Error
  BY DEF ErrorText, Error
<1>2. ASSUME worker[a].step # "idle" PROVE worker[a].job \in Job /\ Holds(worker[a].job)
  BY <1>2, BusyJob DEF Holds
<1>3. \/ UNCHANGED rows
      \/ \E j \in Job :
           /\ Holds(j)
           /\ \/ /\ Claimable(rows[j.run], j.version)
                 /\ rows' = [rows EXCEPT ![j.run] = ClaimedRow(rows[j.run])]
              \/ \E f \in Frame :
                   /\ FrameAccepted(rows[j.run], j.version) /\ Streams(j.run, j.version)
                   /\ rows' = [rows EXCEPT ![j.run] = FramedRow(rows[j.run], j.version, f)]
              \/ \E e \in Error :
                   /\ Failable(rows[j.run], j.version)
                   /\ rows' = [rows EXCEPT ![j.run] = FailedRow(rows[j.run], e)]
  <2>1. CASE ClaimRow(a)
    BY <2>1, <1>2 DEF ClaimRow
  <2>2. CASE FailForMissingKey(a)
    BY <2>2, <1>1, <1>2 DEF FailForMissingKey, FailExecution
  <2>3. CASE \E f \in Frame : ReceiveFrame(a, f)
    BY <2>3, <1>2 DEF ReceiveFrame, Streams
  <2>4. CASE \E e \in ErrorText : ReceiveFatalError(a, e)
    BY <2>4, <1>1, <1>2 DEF ReceiveFatalError, FailExecution
  <2>5. CASE \E j \in Job, e \in ErrorText : OnFailed(a, j, e)
    BY <2>5, <1>1 DEF OnFailed, FailExecution, Holds
  <2> QED BY <2>1, <2>2, <2>3, <2>4, <2>5
<1>4. CASE UNCHANGED rows
  BY <1>4 DEF WorkerMove, OneRow
<1>5. CASE ~UNCHANGED rows
  <2>1. PICK j \in Job :
           /\ Holds(j)
           /\ \/ /\ Claimable(rows[j.run], j.version)
                 /\ rows' = [rows EXCEPT ![j.run] = ClaimedRow(rows[j.run])]
              \/ \E f \in Frame :
                   /\ FrameAccepted(rows[j.run], j.version) /\ Streams(j.run, j.version)
                   /\ rows' = [rows EXCEPT ![j.run] = FramedRow(rows[j.run], j.version, f)]
              \/ \E e \in Error :
                   /\ Failable(rows[j.run], j.version)
                   /\ rows' = [rows EXCEPT ![j.run] = FailedRow(rows[j.run], e)]
    BY <1>3, <1>5
  <2>2. ASSUME j.run = r PROVE WorkerMove(r)
    BY <2>1, <2>2 DEF RowsInv, WorkerMove, ExecutionWrites
  <2>3. ASSUME j.run # r PROVE WorkerMove(r)
    BY <2>1, <2>3, JobFields DEF RowsInv, WorkerMove
  <2>4. OneRow
    BY <2>1, JobFields DEF RowsInv, OneRow
  <2> QED BY <2>2, <2>3, <2>4
<1> QED BY <1>4, <1>5

LEMMA NextRows ==
    ASSUME Parts, [Next]_vars, NEW r \in Runs PROVE RowMove(r) /\ OneRow
<1>1. ASSUME UNCHANGED rows PROVE RowMove(r) /\ OneRow
  BY <1>1 DEF RowMove, WorkerMove, OneRow
<1>2. ASSUME NEW a \in Apis, Request(a) PROVE RowMove(r) /\ OneRow
  BY <1>1, <1>2, UserMoves DEF Parts, Request, PutKey, RequestFails, KeyExpires
<1>3. ASSUME NEW a \in Apis, Publish(a) \/ CommitDispatch(a) \/ Crash(a) PROVE RowMove(r) /\ OneRow
  BY <1>1, <1>3 DEF Publish, CommitDispatch, Crash
<1>4. ASSUME NEW a \in Apis, WorkerNext(a) PROVE RowMove(r) /\ OneRow
  BY <1>1, <1>4, ExecutionMoves DEF Parts, WorkerNext, RowMove, TakeJob, RejectStalledJob,
        CompleteJob, FailAttempt, PeekKey, Throw
<1>5. ASSUME NEW s \in Runs, CancelRun(s) \/ DeleteRun(s) PROVE RowMove(r) /\ OneRow
  BY <1>5, UserMoves DEF Parts
<1>6. ASSUME NEW j \in Job, StalledCheck(j) PROVE RowMove(r) /\ OneRow
  BY <1>1, <1>6 DEF StalledCheck
<1>7. CASE UNCHANGED vars
  BY <1>1, <1>7 DEF vars
<1> QED BY <1>2, <1>3, <1>4, <1>5, <1>6, <1>7 DEF Next

\* No request, worker, retry or late frame revives a cancelled run.
THEOREM CancelledStaysCancelled == Spec => CancelledForever
<1>1. ASSUME Parts, [Next]_vars, NEW r \in Runs, rows[r].status = "cancelled"
      PROVE  rows'[r].status = "cancelled"
  <2>1. rows[r] \in Row
    BY <1>1 DEF Parts, RowsInv
  <2>2. RowMove(r)
    BY <1>1, NextRows
  <2>3. CASE UserWrites(r)
    BY <1>1, <2>1, <2>3 DEF UserWrites, Resumable, Cancellable, CancelledRow, DeletedRow, Row
  <2>4. ASSUME NEW v \in Version PROVE ~ExecutionWrites(r, v)
    BY <1>1 DEF ExecutionWrites, Claimable, FrameAccepted, Failable, Executing, Settled
  <2> QED BY <1>1, <2>2, <2>3, <2>4, JobFields DEF RowMove, WorkerMove
<1>2. Parts /\ [Next]_vars =>
        [\A r \in Runs : rows[r].status = "cancelled" => rows'[r].status = "cancelled"]_rows
  BY <1>1
<1> QED BY <1>2, Invariance, IInvIsParts, PTL DEF Spec, CancelledForever

\* A worker or failure handler of an earlier version writes nothing.
THEOREM WritesAreFenced == Spec => FencedWrites
<1> DEFINE Fenced ==
       \A r \in Runs : rows'[r] # rows[r] =>
          \/ rows'[r] \in {CreatedRow, CancelledRow(rows[r]),
                           DeletedRow(rows[r]), ResumedRow(rows[r])}
          \/ \E a \in Apis : \/ worker[a].job = CurrentJob(r)
                            \/ CurrentJob(r) \in exhausted[a]
<1>1. ASSUME Parts, [Next]_vars, NEW r \in Runs, rows'[r] # rows[r], ~UserWrites(r)
      PROVE  Holds(CurrentJob(r))
  <2>1. PICK j \in Job : j.run = r /\ Holds(j) /\ ExecutionWrites(r, j.version)
    BY <1>1, NextRows DEF RowMove, WorkerMove
  <2>2. rows[r].version = j.version
    BY <2>1 DEF ExecutionWrites, Claimable, FrameAccepted, Failable, OwnedBy
  <2>3. CurrentJob(r) = j
    BY <2>1, <2>2 DEF CurrentJob, Job
  <2> QED BY <2>1, <2>3
<1>2. ASSUME Parts, [Next]_vars PROVE Fenced
  BY <1>1, <1>2 DEF UserWrites, Holds
<1>3. Parts /\ [Next]_vars => [Fenced]_vars
  BY <1>2
<1> QED BY <1>3, Invariance, IInvIsParts, PTL DEF Spec, FencedWrites

-----------------------------------------------------------------------------
(* Every execution that was opened is accounted for, in the outbox and in    *)
(* the queue.                                                                *)

LEMMA RowTypes ==
    ASSUME Parts, NEW r \in Runs
    PROVE  rows[r] \in Row /\ rows[r].version \in Nat /\ rows[r].version \in 0..MaxVersion
  BY VersionAssumption DEF Parts, RowsInv, Row

LEMMA JobVersions == \A j \in Job : j.run \in Runs /\ j.version \in Nat \ {0} /\ j.version \in Version
  BY VersionAssumption DEF Job, Version

LEMMA OutboxJobs ==
    ASSUME Parts
    PROVE  /\ Len(outbox) \in Nat
           /\ \A i \in 1..Len(outbox) : outbox[i] \in [job : Job, dispatched : BOOLEAN] /\ outbox[i].job \in Job
<1>1. outbox \in Seq([job : Job, dispatched : BOOLEAN])
  BY DEF Parts, DispatchInv
<1>2. \A i \in 1..Len(outbox) : outbox[i] \in [job : Job, dispatched : BOOLEAN]
  BY <1>1, ElementOfSeq
<1> QED BY <1>1, <1>2

\* What the statements leave alone.
LEMMA RowFields ==
    ASSUME NEW row \in Row
    PROVE  /\ ClaimedRow(row).version = row.version /\ ClaimedRow(row).gate = row.gate
           /\ ClaimedRow(row).status = "running"
           /\ CancelledRow(row).version = row.version /\ CancelledRow(row).status = "cancelled"
           /\ DeletedRow(row).version = row.version /\ DeletedRow(row).status = row.status
           /\ DeletedRow(row).gate = row.gate
           /\ \A e \in Error : FailedRow(row, e).version = row.version /\ FailedRow(row, e).status = "failed"
           /\ \A v \in Version, f \in Frame : /\ FramedRow(row, v, f).version = row.version
                                              /\ FramedRow(row, v, f).status = FrameStatus(f)
                                              /\ FramedRow(row, v, f).gate = FrameGate(row, v, f)
           /\ ResumedRow(row).version = row.version + 1 /\ ResumedRow(row).gate = 0
           /\ ResumedRow(row).status = "queued"
<1>1. ASSUME NEW v \in Version, NEW f \in Frame
      PROVE  /\ FramedRow(row, v, f).version = row.version
             /\ FramedRow(row, v, f).status = FrameStatus(f)
             /\ FramedRow(row, v, f).gate = FrameGate(row, v, f)
  BY DEF FramedRow, Row
<1>2. /\ ResumedRow(row).version = row.version + 1 /\ ResumedRow(row).gate = 0
      /\ ResumedRow(row).status = "queued"
  BY DEF ResumedRow, Row
<1> QED BY <1>1, <1>2 DEF ClaimedRow, CancelledRow, DeletedRow, FailedRow, Row

LEMMA CreatedFields == CreatedRow.version = 1 /\ CreatedRow.status = "queued" /\ CreatedRow.gate = 0
  BY DEF CreatedRow, NoRow

LEMMA FrameStatuses == \A f \in Frame : /\ FrameStatus(f) \in Status \ {"absent", "queued", "failed"}
                                        /\ FrameStatus(f) = "running" <=> f \in ProgressFrame
  BY DEF FrameStatus, Frame, FinalFrame, ProgressFrame, TerminalFrame, Status, Executing, Settled

\* A step that opens no execution.
KeptRows == \A r \in Runs : /\ rows'[r].version = rows[r].version
                            /\ rows'[r].status = "absent" <=> rows[r].status = "absent"

LEMMA WorkerKeeps ==
    ASSUME Parts, NEW r \in Runs, WorkerMove(r)
    PROVE  /\ rows'[r].version = rows[r].version
           /\ rows'[r].status = "absent" <=> rows[r].status = "absent"
<1>1. CASE rows'[r] = rows[r]
  BY <1>1
<1>2. ASSUME NEW j \in Job, j.run = r, ExecutionWrites(r, j.version)
      PROVE  /\ rows'[r].version = rows[r].version
             /\ rows'[r].status = "absent" <=> rows[r].status = "absent"
  BY <1>2, RowTypes, RowFields, FrameStatuses, JobVersions
     DEF ExecutionWrites, Claimable, FrameAccepted, Failable, OwnedBy
<1> QED BY <1>1, <1>2 DEF WorkerMove

LEMMA AccountedKept ==
    ASSUME Parts, Accounted, KeptRows, outbox' = outbox,
           \A a \in Apis : publishing'[a] \in {0, publishing[a]},
           \A j \in Job : /\ jobs'[j].state = "none" <=> jobs[j].state = "none"
                          /\ jobs[j].state = "failed" => jobs'[j].state = "failed",
           \A a \in Apis : \A j \in exhausted'[a] : j \in exhausted[a] \/ jobs'[j].state = "failed"
    PROVE  Accounted'
<1>1. \A r \in Runs : CurrentJob(r)' = CurrentJob(r)
  BY DEF KeptRows, CurrentJob
<1>2. \A r \in Runs :
          /\ rows'[r].status = "absent" <=> rows'[r].version = 0
          /\ rows'[r].version # 0 => \E i \in 1..Len(outbox') : outbox'[i].job = CurrentJob(r)'
  BY <1>1 DEF Accounted, KeptRows
<1>3. \A i \in 1..Len(outbox') :
          /\ outbox'[i].job.version <= rows'[outbox'[i].job.run].version
          /\ outbox'[i].dispatched \/ (\E a \in Apis : publishing'[a] = i)
               => jobs'[outbox'[i].job].state # "none"
  <2> SUFFICES ASSUME NEW i \in 1..Len(outbox)
               PROVE /\ outbox[i].job.version <= rows'[outbox[i].job.run].version
                     /\ outbox[i].dispatched \/ (\E a \in Apis : publishing'[a] = i)
                          => jobs'[outbox[i].job].state # "none"
    OBVIOUS
  <2>1. outbox[i].job \in Job /\ i # 0
    BY OutboxJobs
  <2>2. outbox[i].job.version <= rows[outbox[i].job.run].version
    BY DEF Accounted
  <2>3. outbox[i].dispatched \/ (\E a \in Apis : publishing[a] = i)
           => jobs[outbox[i].job].state # "none"
    BY DEF Accounted
  <2>4. (\E a \in Apis : publishing'[a] = i) => \E a \in Apis : publishing[a] = i
    BY <2>1
  <2> QED BY <2>1, <2>2, <2>3, <2>4, JobVersions DEF KeptRows
<1>4. \A j \in Job : jobs'[j].state # "none" => j.version <= rows'[j.run].version
  BY JobVersions DEF Accounted, KeptRows
<1>5. \A a \in Apis : publishing'[a] \in 0..Len(outbox')
  BY OutboxJobs DEF Accounted
<1>6. \A a \in Apis : \A j \in exhausted'[a] : jobs'[j].state = "failed"
  BY DEF Accounted, Parts, FailedInv
<1> QED BY <1>2, <1>3, <1>4, <1>5, <1>6 DEF Accounted

LEMMA OpenAccounted ==
    ASSUME Parts, Accounted, NEW a \in Apis, NEW r \in Runs, NEW row \in Row,
           row.version = rows[r].version + 1, row.status = "queued", OpenExecution(a, r, row)
    PROVE  Accounted'
<1> DEFINE j == [run |-> r, version |-> row.version]
           e == [job |-> j, dispatched |-> FALSE]
           n == Len(outbox) + 1
<1>1. /\ rows' = [rows EXCEPT ![r] = row] /\ outbox' = Append(outbox, e)
      /\ publishing' = publishing /\ jobs' = jobs /\ exhausted' = exhausted
  BY DEF OpenExecution
<1>2. row.version \in Nat \ {0} /\ rows[r].version \in Nat
  BY RowTypes
<1>3. /\ Len(outbox') = n /\ n \in Nat /\ outbox'[n] = e
      /\ \A i \in 1..Len(outbox) : outbox'[i] = outbox[i]
  BY <1>1, OutboxJobs DEF Parts, DispatchInv
<1>4. rows'[r] = row /\ \A s \in Runs \ {r} : rows'[s] = rows[s]
  BY <1>1 DEF Parts, RowsInv
<1>5. \A s \in Runs : rows[s].version <= rows'[s].version /\ rows'[s].version \in Nat
  BY <1>2, <1>4, RowTypes
<1>6. \A s \in Runs :
          /\ rows'[s].status = "absent" <=> rows'[s].version = 0
          /\ rows'[s].version # 0 => \E i \in 1..Len(outbox') : outbox'[i].job = CurrentJob(s)'
  <2> SUFFICES ASSUME NEW s \in Runs
               PROVE  /\ rows'[s].status = "absent" <=> rows'[s].version = 0
                      /\ rows'[s].version # 0 => \E i \in 1..Len(outbox') : outbox'[i].job = CurrentJob(s)'
    OBVIOUS
  <2>1. CASE s = r
    <3>1. CurrentJob(s)' = j /\ n \in 1..Len(outbox')
      BY <1>3, <1>4, <2>1, OutboxJobs DEF CurrentJob
    <3> QED BY <1>2, <1>3, <1>4, <2>1, <3>1
  <2>2. CASE s # r
    <3>1. rows'[s] = rows[s] /\ CurrentJob(s)' = CurrentJob(s)
      BY <1>4, <2>2 DEF CurrentJob
    <3>2. rows[s].version # 0 => \E i \in 1..Len(outbox) : outbox[i].job = CurrentJob(s)
      BY DEF Accounted
    <3>3. rows[s].status = "absent" <=> rows[s].version = 0
      BY DEF Accounted
    <3> QED BY <1>3, <3>1, <3>2, <3>3, OutboxJobs
  <2> QED BY <2>1, <2>2
<1>7. \A i \in 1..Len(outbox') :
          /\ outbox'[i].job.version <= rows'[outbox'[i].job.run].version
          /\ outbox'[i].dispatched \/ (\E b \in Apis : publishing'[b] = i)
               => jobs'[outbox'[i].job].state # "none"
  <2> SUFFICES ASSUME NEW i \in 1..n
               PROVE /\ outbox'[i].job.version <= rows'[outbox'[i].job.run].version
                     /\ outbox'[i].dispatched \/ (\E b \in Apis : publishing'[b] = i)
                          => jobs'[outbox'[i].job].state # "none"
    BY <1>3
  <2>1. CASE i = n
    <3>1. outbox'[i] = e /\ rows'[e.job.run].version = e.job.version /\ ~e.dispatched
      BY <1>3, <1>4, <2>1
    <3>2. \A b \in Apis : publishing[b] # n
      BY OutboxJobs DEF Accounted
    <3> QED BY <1>1, <1>2, <2>1, <3>1, <3>2
  <2>2. CASE i \in 1..Len(outbox)
    <3>1. outbox'[i] = outbox[i] /\ outbox[i].job \in Job
      BY <1>3, <2>2, OutboxJobs
    <3>2. outbox[i].job.version <= rows[outbox[i].job.run].version
      BY <2>2 DEF Accounted
    <3>3. outbox[i].dispatched \/ (\E b \in Apis : publishing[b] = i)
            => jobs[outbox[i].job].state # "none"
      BY <2>2 DEF Accounted
    <3>4. outbox[i].job.version <= rows'[outbox[i].job.run].version
      BY <1>5, <3>1, <3>2, JobVersions, RowTypes
    <3> QED BY <1>1, <3>1, <3>3, <3>4
  <2> QED BY <2>1, <2>2, OutboxJobs
<1>8. \A k \in Job : jobs'[k].state # "none" => k.version <= rows'[k.run].version
  BY <1>1, <1>5, JobVersions, RowTypes DEF Accounted
<1>9. \A b \in Apis : publishing'[b] \in 0..Len(outbox')
  BY <1>1, <1>3, OutboxJobs DEF Accounted
<1>10. \A b \in Apis : \A k \in exhausted'[b] : jobs'[k].state = "failed"
  BY <1>1 DEF Accounted
<1> QED BY <1>6, <1>7, <1>8, <1>9, <1>10 DEF Accounted

LEMMA PublishAccounted ==
    ASSUME Parts, Accounted, NEW a \in Apis, Publish(a) PROVE Accounted'
<1>1. PICK i \in 1..Len(outbox) :
        /\ Free(i) /\ publishing' = [publishing EXCEPT ![a] = i]
        /\ jobs' = IF jobs[outbox[i].job].state = "none"
                   THEN [jobs EXCEPT ![outbox[i].job].state = "waiting"] ELSE jobs
  BY DEF Publish
<1>2. UNCHANGED <<rows, outbox, exhausted>>
  BY DEF Publish
<1>3. outbox[i].job \in Job /\ outbox[i].job.version <= rows[outbox[i].job.run].version
  BY OutboxJobs DEF Accounted
<1>4. /\ jobs'[outbox[i].job].state # "none"
      /\ \A j \in Job \ {outbox[i].job} : jobs'[j] = jobs[j]
      /\ jobs[outbox[i].job].state # "none" => jobs' = jobs
  BY <1>1, <1>3 DEF Parts, JobsInv, JobRecord
<1>5. \A j \in Job : jobs[j].state # "none" => jobs'[j] = jobs[j]
  BY <1>4
<1>6. \A k \in 1..Len(outbox) :
          outbox[k].dispatched \/ (\E b \in Apis : publishing'[b] = k) => jobs'[outbox[k].job].state # "none"
  <2> SUFFICES ASSUME NEW k \in 1..Len(outbox),
                      outbox[k].dispatched \/ (\E b \in Apis : publishing'[b] = k)
               PROVE  jobs'[outbox[k].job].state # "none"
    OBVIOUS
  <2>1. k = i \/ outbox[k].dispatched \/ (\E b \in Apis : publishing[b] = k)
    BY <1>1 DEF Parts, DispatchInv
  <2>2. outbox[k].job \in Job
    BY OutboxJobs
  <2> QED BY <1>4, <1>5, <2>1, <2>2 DEF Accounted
<1>7. \A r \in Runs : CurrentJob(r)' = CurrentJob(r)
  BY <1>2 DEF CurrentJob
<1>8. \A j \in Job : jobs'[j].state # "none" => j.version <= rows[j.run].version
  BY <1>3, <1>4 DEF Accounted
<1>9. \A b \in Apis : publishing'[b] \in 0..Len(outbox)
  BY <1>1, OutboxJobs DEF Accounted, Parts, DispatchInv
<1>10. \A b \in Apis : \A j \in exhausted[b] : jobs'[j].state = "failed"
  BY <1>5 DEF Accounted, Parts, FailedInv
<1> QED BY <1>2, <1>6, <1>7, <1>8, <1>9, <1>10 DEF Accounted

LEMMA CommitAccounted ==
    ASSUME Parts, Accounted, NEW a \in Apis, CommitDispatch(a) PROVE Accounted'
<1> DEFINE i == publishing[a]
<1>1. /\ i \in 1..Len(outbox) /\ outbox' = [outbox EXCEPT ![i].dispatched = TRUE]
      /\ publishing' = [publishing EXCEPT ![a] = 0]
      /\ UNCHANGED <<rows, jobs, exhausted>>
  BY DEF CommitDispatch
<1>2. outbox \in Seq([job : Job, dispatched : BOOLEAN])
  BY DEF Parts, DispatchInv
<1>3. PICK e \in [job : Job, dispatched : BOOLEAN] :
         e.job = outbox[i].job /\ outbox' = [outbox EXCEPT ![i] = e]
  BY <1>1, <1>2, OutboxJobs
<1>4. /\ Len(outbox') = Len(outbox)
      /\ \A k \in 1..Len(outbox) : outbox'[k].job = outbox[k].job /\ (k # i => outbox'[k] = outbox[k])
  BY <1>1, <1>2, <1>3
<1>5. \A k \in 1..Len(outbox) :
          outbox'[k].dispatched \/ (\E b \in Apis : publishing'[b] = k) => jobs[outbox[k].job].state # "none"
  <2> SUFFICES ASSUME NEW k \in 1..Len(outbox),
                      outbox'[k].dispatched \/ (\E b \in Apis : publishing'[b] = k)
               PROVE  jobs[outbox[k].job].state # "none"
    OBVIOUS
  <2>1. outbox[k].dispatched \/ (\E b \in Apis : publishing[b] = k)
    BY <1>1, <1>4 DEF Parts, DispatchInv
  <2> QED BY <2>1 DEF Accounted
<1>6. \A r \in Runs : CurrentJob(r)' = CurrentJob(r)
  BY <1>1 DEF CurrentJob
<1>7. \A b \in Apis : publishing'[b] \in 0..Len(outbox)
  BY <1>1, OutboxJobs DEF Accounted, Parts, DispatchInv
<1> QED BY <1>1, <1>4, <1>5, <1>6, <1>7 DEF Accounted

\* The queue moves a job that is there, never one that has failed.
LEMMA OneJob ==
    ASSUME Parts, NEW j \in Job, NEW state, NEW made, NEW owner, NEW stalls,
           \/ jobs' = [jobs EXCEPT ![j].state = state, ![j].owner = owner]
           \/ jobs' = [jobs EXCEPT ![j].state = state, ![j].owner = owner, ![j].stalls = @ + stalls]
           \/ jobs' = [jobs EXCEPT ![j].state = state, ![j].made = made, ![j].owner = owner]
    PROVE  /\ jobs'[j].state = state /\ jobs'[j].owner = owner
           /\ \A k \in Job \ {j} : jobs'[k] = jobs[k]
  BY DEF Parts, JobsInv, JobRecord

QueueMove == /\ \A j \in Job : \/ jobs'[j] = jobs[j]
                               \/ /\ jobs[j].state \in {"waiting", "active"}
                                  /\ jobs'[j].state \in {"waiting", "active", "completed", "failed"}
             /\ \A a \in Apis : \A j \in exhausted'[a] : j \in exhausted[a] \/ jobs'[j].state = "failed"

LEMMA MoveToFailedMoves ==
    ASSUME Parts, NEW a \in Apis, NEW j \in Job, NEW retry \in BOOLEAN,
           jobs[j].state \in {"waiting", "active"}, MoveToFailed(a, j, retry)
    PROVE  QueueMove
<1> DEFINE made == jobs[j].made + 1
           state == IF retry /\ made < MaxAttempts THEN "waiting" ELSE "failed"
<1>1. jobs' = [jobs EXCEPT ![j].state = state, ![j].made = made, ![j].owner = NoApi]
  BY DEF MoveToFailed
<1>2. made \in Nat /\ MaxAttempts \in Nat
  BY LifecycleAssumption DEF Parts, JobsInv, JobRecord
<1>3. jobs'[j].state = state /\ \A k \in Job \ {j} : jobs'[k] = jobs[k]
  <2> HIDE DEF state, made
  <2> QED BY <1>1, OneJob
<1>4. exhausted' = IF made >= MaxAttempts THEN [exhausted EXCEPT ![a] = @ \cup {j}] ELSE exhausted
  BY DEF MoveToFailed
<1>5. \A b \in Apis : \A k \in exhausted'[b] : k \in exhausted[b] \/ jobs'[k].state = "failed"
  <2>1. made >= MaxAttempts => jobs'[j].state = "failed"
    BY <1>2, <1>3
  <2> QED BY <1>4, <2>1 DEF Parts, FailedInv
<1> QED BY <1>3, <1>5 DEF QueueMove

LEMMA QueueMoves ==
    ASSUME Parts,
           \/ \E a \in Apis, j \in Job : TakeJob(a, j) \/ RejectStalledJob(a, j)
           \/ \E a \in Apis : CompleteJob(a) \/ FailAttempt(a)
           \/ \E j \in Job : StalledCheck(j)
    PROVE  QueueMove
<1>1. ASSUME NEW a \in Apis, NEW j \in Job, TakeJob(a, j) PROVE QueueMove
  BY <1>1, OneJob DEF TakeJob, QueueMove
<1>2. ASSUME NEW a \in Apis, NEW j \in Job, RejectStalledJob(a, j) PROVE QueueMove
  BY <1>2, MoveToFailedMoves DEF RejectStalledJob
<1>3. ASSUME NEW a \in Apis, CompleteJob(a) PROVE QueueMove
  <2>1. worker[a].job \in Job
    BY <1>3, BusyJob DEF Parts, CompleteJob
  <2>2. exhausted' = exhausted
    BY <1>3 DEF CompleteJob
  <2>3. CASE Owns(a, worker[a].job)
    <3> DEFINE j == worker[a].job
    <3>1. jobs' = [jobs EXCEPT ![j].state = "completed", ![j].owner = NoApi]
      BY <1>3, <2>3 DEF CompleteJob
    <3>2. jobs'[j].state = "completed" /\ \A k \in Job \ {j} : jobs'[k] = jobs[k]
      <4> HIDE DEF j
      <4> QED BY <2>1, <3>1, OneJob DEF j
    <3> QED BY <2>1, <2>2, <2>3, <3>2 DEF Owns, QueueMove
  <2>4. CASE ~Owns(a, worker[a].job)
    BY <1>3, <2>2, <2>4 DEF CompleteJob, QueueMove
  <2> QED BY <2>3, <2>4
<1>4. ASSUME NEW a \in Apis, FailAttempt(a) PROVE QueueMove
  <2>1. worker[a].job \in Job
    BY <1>4, BusyJob DEF Parts, FailAttempt
  <2>2. CASE Owns(a, worker[a].job)
    BY <1>4, <2>1, <2>2, MoveToFailedMoves DEF FailAttempt, Owns
  <2>3. CASE ~Owns(a, worker[a].job)
    BY <1>4, <2>3 DEF FailAttempt, QueueMove
  <2> QED BY <2>2, <2>3
<1>5. ASSUME NEW j \in Job, StalledCheck(j) PROVE QueueMove
  <2>1. jobs' = [jobs EXCEPT ![j].state = "waiting", ![j].owner = NoApi, ![j].stalls = @ + 1]
    BY <1>5 DEF StalledCheck
  <2>2. jobs'[j].state = "waiting" /\ \A k \in Job \ {j} : jobs'[k] = jobs[k]
    BY <2>1, OneJob
  <2> QED BY <1>5, <2>2 DEF StalledCheck, QueueMove
<1> QED BY <1>1, <1>2, <1>3, <1>4, <1>5

LEMMA AccountedStep == Parts /\ Accounted /\ [Next]_vars => Accounted'
<1> SUFFICES ASSUME Parts, Accounted, [Next]_vars PROVE Accounted'
  OBVIOUS
<1>1. ASSUME NEW a \in Apis, NEW r \in Runs, CreateRun(a, r) PROVE Accounted'
  <2>1. rows[r].version = 0 /\ OpenExecution(a, r, CreatedRow)
    BY <1>1 DEF CreateRun, Accounted
  <2> QED BY <2>1, OpenAccounted, CreatedRowType, CreatedFields
<1>2. ASSUME NEW a \in Apis, NEW r \in Runs, NEW act \in {"answer", "continue"}, ResumeRun(a, r, act)
      PROVE  Accounted'
  BY <1>2, OpenAccounted, ResumedRowType, RowTypes, RowFields DEF ResumeRun
<1>3. ASSUME \/ \E a \in Apis : \/ ClaimRow(a) \/ FailForMissingKey(a)
                                \/ \E f \in Frame : ReceiveFrame(a, f)
                                \/ \E e \in ErrorText : ReceiveFatalError(a, e)
                                \/ \E j \in Job, e \in ErrorText : OnFailed(a, j, e)
      PROVE  Accounted'
  <2>1. KeptRows
    BY <1>3, ExecutionMoves, WorkerKeeps DEF Parts, KeptRows
  <2>2. /\ outbox' = outbox /\ publishing' = publishing /\ jobs' = jobs
        /\ \A b \in Apis : exhausted'[b] \subseteq exhausted[b]
    BY <1>3 DEF Parts, FailedInv, ClaimRow, FailForMissingKey, ReceiveFrame, ReceiveFatalError, OnFailed
  <2> QED BY <2>1, <2>2, AccountedKept
<1>4. ASSUME NEW r \in Runs, CancelRun(r) \/ DeleteRun(r) PROVE Accounted'
  <2>1. PICK row : /\ rows' = [rows EXCEPT ![r] = row] /\ row.version = rows[r].version
                   /\ rows[r].status # "absent" /\ row.status # "absent"
    BY <1>4, RowTypes, RowFields DEF CancelRun, DeleteRun, RewriteRow, Cancellable, Deletable
  <2>2. KeptRows
    BY <2>1 DEF Parts, RowsInv, KeptRows
  <2> QED BY <1>4, <2>2, AccountedKept DEF CancelRun, DeleteRun, RewriteRow
<1>5. ASSUME \/ \E a \in Apis, j \in Job : TakeJob(a, j) \/ RejectStalledJob(a, j)
             \/ \E a \in Apis : CompleteJob(a) \/ FailAttempt(a)
             \/ \E j \in Job : StalledCheck(j)
      PROVE Accounted'
  <2>1. QueueMove
    BY <1>5, QueueMoves
  <2>2. UNCHANGED <<rows, outbox, publishing>>
    BY <1>5 DEF TakeJob, RejectStalledJob, CompleteJob, FailAttempt, StalledCheck
  <2> QED BY <2>1, <2>2, AccountedKept DEF QueueMove, KeptRows
<1>6. ASSUME NEW a \in Apis, Crash(a) PROVE Accounted'
  <2>1. /\ UNCHANGED <<rows, outbox, jobs>>
        /\ \A b \in Apis : publishing'[b] \in {0, publishing[b]} /\ exhausted'[b] \subseteq exhausted[b]
    BY <1>6 DEF Crash, Parts, DispatchInv, FailedInv
  <2> QED BY <2>1, AccountedKept DEF KeptRows
<1>7. ASSUME UNCHANGED <<rows, outbox, publishing, jobs, exhausted>> PROVE Accounted'
  BY <1>7, AccountedKept DEF KeptRows
<1>8. ASSUME NEW a \in Apis, Request(a) PROVE Accounted'
  BY <1>1, <1>2, <1>7, <1>8 DEF Request, PutKey, RequestFails, KeyExpires
<1>9. ASSUME NEW a \in Apis, WorkerNext(a) PROVE Accounted'
  BY <1>3, <1>5, <1>7, <1>9 DEF WorkerNext, PeekKey, Throw
<1>10. CASE UNCHANGED vars
  BY <1>7, <1>10 DEF vars
<1> QED BY <1>4, <1>5, <1>6, <1>8, <1>9, <1>10, PublishAccounted, CommitAccounted DEF Next

LEMMA InitAccounted == Init => Accounted
<1> SUFFICES ASSUME Init PROVE Accounted
  OBVIOUS
<1>1. /\ \A r \in Runs : rows[r].status = "absent" /\ rows[r].version = 0
      /\ Len(outbox) = 0 /\ \A a \in Apis : publishing[a] = 0 /\ exhausted[a] = {}
      /\ \A j \in Job : jobs[j].state = "none"
  BY DEF Init, NoRow, NewJob
<1> QED BY <1>1 DEF Accounted

OpenedInv == Parts /\ Accounted

LEMMA OpenedInvariance == Spec => []OpenedInv
<1>1. Init => OpenedInv
  BY InitIInv, IInvIsParts, InitAccounted DEF OpenedInv
<1>2. OpenedInv /\ [Next]_vars => OpenedInv'
  BY NextParts, AccountedStep DEF OpenedInv
<1> QED BY <1>1, <1>2, PTL DEF Spec

\* A key is dropped only when no attempt can need it again.
THEOREM KeysOutliveRetries == Spec => KeyOutlivesRetries
<1> DEFINE Kept == \A a \in Apis, j \in Job :
                      Released(a, j) => \/ ~Claimable(rows'[j.run], j.version)
                                        \/ jobs'[j].state = "failed"
<1>1. ASSUME Parts, Accounted, [Next]_vars, NEW a \in Apis, NEW j \in Job, Released(a, j)
      PROVE  ~Claimable(rows'[j.run], j.version) \/ jobs'[j].state = "failed"
  <2> USE <1>1 DEF Parts
  <2>1. /\ j \in vault[a] /\ j \notin vault'[a] /\ crashes' = crashes /\ crashes \in Nat
        /\ <<worker, exhausted>>' # <<worker, exhausted>>
    BY LifecycleAssumption DEF Released, CrashInv
  <2>2. rows \in [Runs -> Row] /\ j.run \in Runs /\ rows[j.run] \in Row
    BY JobFields DEF RowsInv
  <2>3. ASSUME NEW b \in Apis, NEW f \in Frame, ReceiveFrame(b, f)
        PROVE  ~Claimable(rows'[j.run], j.version)
    <3>1. /\ b = a /\ worker[a].job = j /\ f \in FinalFrame
          /\ FrameAccepted(rows[j.run], j.version)
          /\ rows' = [rows EXCEPT ![j.run] = FramedRow(rows[j.run], j.version, f)]
      BY <2>1, <2>3 DEF ReceiveFrame, ReleaseKey, KeyInv
    <3>2. rows'[j.run].status \notin Executing
      <4>1. rows'[j.run] = FramedRow(rows[j.run], j.version, f)
        BY <2>2, <3>1
      <4>2. FrameStatus(f) \notin Executing
        BY <3>1, FrameStatuses DEF FinalFrame, ProgressFrame, TerminalFrame, Executing
      <4> QED BY <2>2, <4>1, <4>2, RowFields, JobFields
    <3> QED BY <3>2 DEF Claimable
  <2>4. ASSUME NEW b \in Apis, NEW e \in ErrorText, ReceiveFatalError(b, e)
        PROVE  ~Claimable(rows'[j.run], j.version)
    <3>1. b = a /\ worker[a].job = j /\ FailExecution(j, e)
      BY <2>1, <2>4 DEF ReceiveFatalError, ReleaseKey, KeyInv
    <3>2. e \in Error
      BY DEF ErrorText, Error
    <3>3. CASE Failable(rows[j.run], j.version)
      <4>1. rows'[j.run] = FailedRow(rows[j.run], e)
        BY <2>2, <3>1, <3>3 DEF FailExecution
      <4> QED BY <2>2, <3>2, <4>1, RowFields DEF Claimable, Executing
    <3>4. CASE ~Failable(rows[j.run], j.version)
      BY <3>1, <3>4 DEF FailExecution, Failable, Claimable, Executing, Settled
    <3> QED BY <3>3, <3>4
  <2>5. ASSUME NEW b \in Apis, NEW k \in Job, NEW e \in ErrorText, OnFailed(b, k, e)
        PROVE  jobs'[j].state = "failed"
    <3>1. b = a /\ k = j /\ j \in exhausted[a] /\ jobs' = jobs
      BY <2>1, <2>5 DEF OnFailed, ReleaseKey, KeyInv
    <3> QED BY <3>1 DEF Accounted
  <2>6. ~UNCHANGED vault
    BY <2>1
  <2>7. \A b \in Apis : ~Request(b)
    <3>1. ASSUME NEW b \in Apis, NEW r \in Runs, CreateRun(b, r) PROVE FALSE
      BY <2>6, <3>1 DEF CreateRun, OpenExecution
    <3>2. ASSUME NEW b \in Apis, NEW r \in Runs, NEW act, ResumeRun(b, r, act) PROVE FALSE
      BY <2>6, <3>2 DEF ResumeRun, OpenExecution
    <3>3. ASSUME NEW b \in Apis, NEW k \in Job, PutKey(b, k) \/ RequestFails(b, k) \/ KeyExpires(b, k)
          PROVE FALSE
      BY <2>1, <3>3 DEF PutKey, RequestFails, KeyExpires, KeyInv
    <3> QED BY <3>1, <3>2, <3>3 DEF Request
  <2>8. \A b \in Apis : ~Publish(b) /\ ~CommitDispatch(b) /\ ~Crash(b)
    BY <2>1, <2>6 DEF Publish, CommitDispatch, Crash
  <2>9. /\ \A r \in Runs : ~CancelRun(r) /\ ~DeleteRun(r)
        /\ \A k \in Job : ~StalledCheck(k)
    BY <2>6 DEF CancelRun, DeleteRun, RewriteRow, StalledCheck
  <2>10. PICK b \in Apis : WorkerNext(b)
    BY <2>6, <2>7, <2>8, <2>9 DEF Next, vars
  <2> QED BY <2>3, <2>4, <2>5, <2>6, <2>10
          DEF WorkerNext, TakeJob, RejectStalledJob, CompleteJob, FailAttempt, ClaimRow, PeekKey,
              FailForMissingKey, Throw
<1>2. OpenedInv /\ [Next]_vars => [Kept]_vars
  BY <1>1 DEF OpenedInv
<1> QED BY <1>2, OpenedInvariance, PTL DEF Spec, KeyOutlivesRetries
-----------------------------------------------------------------------------
(* While no worker that is alive loses its job: Steady, and what follows.   *)

\* A step makes no execution claimable again.
LEMMA ClaimsStay ==
    ASSUME Parts, Accounted, Steady, [Next]_vars, NEW j \in Job,
           j.version <= rows[j.run].version, ~Claimable(rows[j.run], j.version)
    PROVE  ~Claimable(rows'[j.run], j.version)
<1> DEFINE r == j.run
           row == rows[r]
<1>1. /\ r \in Runs /\ row \in Row /\ row.version \in Nat
      /\ j.version \in Nat \ {0} /\ j.version \in Version
  BY RowTypes, JobVersions
<1>2. RowMove(r)
  BY <1>1, NextRows
<1>3. row.status # "absent" /\ (row.version = j.version => row.status \notin Executing)
  BY <1>1 DEF Accounted, Claimable, OwnedBy
<1>4. CASE UserWrites(r)
  BY <1>1, <1>3, <1>4, RowFields DEF UserWrites, Claimable, OwnedBy, Executing
<1>5. CASE rows'[r] = rows[r]
  BY <1>5
<1>6. ASSUME NEW k \in Job, k.run = r, ExecutionWrites(r, k.version)
      PROVE  ~Claimable(rows'[r], j.version)
  <2>1. k.version \in Version
    BY JobVersions
  <2>2. CASE Claimable(row, k.version) /\ rows'[r] = ClaimedRow(row)
    BY <1>1, <1>3, <2>2, RowFields DEF Claimable, OwnedBy
  <2>3. ASSUME FrameAccepted(row, k.version), Streams(r, k.version), NEW f \in Frame,
               rows'[r] = FramedRow(row, k.version, f)
        PROVE  ~Claimable(rows'[r], j.version)
    <3>1. PICK a \in Apis : worker[a].step = "stream" /\ worker[a].job.run = r
      BY <2>3 DEF Streams
    <3>2. row.status \in Executing
      BY <2>3, <3>1 DEF Steady, Attended, FrameAccepted, Executing
    <3> QED BY <1>1, <1>3, <2>1, <2>3, <3>2, RowFields DEF Claimable, OwnedBy
  <2>4. ASSUME NEW e \in Error, rows'[r] = FailedRow(row, e)
        PROVE  ~Claimable(rows'[r], j.version)
    BY <1>1, <2>4, RowFields DEF Claimable, Executing
  <2> QED BY <1>6, <2>2, <2>3, <2>4 DEF ExecutionWrites
<1> QED BY <1>2, <1>4, <1>5, <1>6 DEF RowMove, WorkerMove

\* While a worker is at a job, its row is its own: other workers and the
\* handling of failures do not write it.
Busy(a) == worker[a].step \in {"peek", "nokey", "stream"}

LEMMA Undisturbed ==
    ASSUME Parts, Accounted, Steady, NEW a \in Apis, Busy(a),
           \/ \E b \in Apis \ {a} : \/ ClaimRow(b) \/ FailForMissingKey(b)
                                    \/ \E f \in Frame : ReceiveFrame(b, f)
                                    \/ \E e \in ErrorText : ReceiveFatalError(b, e)
           \/ \E b \in Apis, k \in Job, e \in ErrorText : OnFailed(b, k, e)
    PROVE  rows'[worker[a].job.run] = rows[worker[a].job.run]
<1> DEFINE j == worker[a].job
           r == j.run
<1>1. /\ worker[a].step # "idle" /\ j \in Job /\ r \in Runs
      /\ Owns(a, j) /\ rows[r].version = j.version
  BY BusyJob, JobFields DEF Parts, Busy, Steady, Attended
<1>2. rows \in [Runs -> Row]
  BY DEF Parts, RowsInv
<1>3. ASSUME NEW k \in Job, k # j,
             \/ UNCHANGED rows
             \/ /\ OwnedBy(rows[k.run], k.version)
                /\ \E row : rows' = [rows EXCEPT ![k.run] = row]
      PROVE  rows'[r] = rows[r]
  <2>1. CASE UNCHANGED rows
    BY <2>1
  <2>2. CASE OwnedBy(rows[k.run], k.version) /\ \E row : rows' = [rows EXCEPT ![k.run] = row]
    <3>1. k.run # r
      BY <1>1, <1>3, <2>2 DEF OwnedBy, Job
    <3> QED BY <1>1, <1>2, <2>2, <3>1
  <2> QED BY <1>3, <2>1, <2>2
<1>4. ASSUME NEW b \in Apis \ {a}, \/ ClaimRow(b) \/ FailForMissingKey(b)
                                   \/ \E f \in Frame : ReceiveFrame(b, f)
                                   \/ \E e \in ErrorText : ReceiveFatalError(b, e)
      PROVE rows'[r] = rows[r]
  <2> DEFINE k == worker[b].job
  <2>1. worker[b].step # "idle"
    BY <1>4 DEF ClaimRow, FailForMissingKey, ReceiveFrame, ReceiveFatalError
  <2>2. k \in Job /\ Owns(b, k)
    BY <2>1, BusyJob DEF Parts, Steady, Attended
  <2>3. k # j
    BY <1>1, <1>4, <2>2 DEF Owns
  <2>4. \/ UNCHANGED rows
        \/ /\ OwnedBy(rows[k.run], k.version)
           /\ \E row : rows' = [rows EXCEPT ![k.run] = row]
    BY <1>4 DEF ClaimRow, FailForMissingKey, ReceiveFrame, ReceiveFatalError,
                FailExecution, Claimable, Failable, FrameAccepted
  <2> QED BY <1>3, <2>2, <2>3, <2>4
<1>5. ASSUME NEW b \in Apis, NEW k \in Job, NEW e \in ErrorText, OnFailed(b, k, e)
      PROVE  rows'[r] = rows[r]
  <2>1. jobs[k].state = "failed"
    BY <1>5 DEF OnFailed, Accounted
  <2>2. k # j
    BY <1>1, <2>1 DEF Owns
  <2>3. \/ UNCHANGED rows
        \/ /\ OwnedBy(rows[k.run], k.version)
           /\ \E row : rows' = [rows EXCEPT ![k.run] = row]
    BY <1>5 DEF OnFailed, FailExecution, Failable
  <2> QED BY <1>3, <2>2, <2>3
<1> QED BY <1>4, <1>5

\* A worker that goes on with its job still has it.
LEMMA OwnersKept ==
    ASSUME Parts, Steady, ~LiveStalls, [Next]_vars, NEW a \in Apis,
           worker[a].step # "idle", worker'[a].step # "idle"
    PROVE  worker'[a].job = worker[a].job /\ Owns(a, worker[a].job)'
<1> DEFINE j == worker[a].job
<1>1. j \in Job /\ jobs[j].state = "active" /\ jobs[j].owner = a
  BY BusyJob DEF Parts, Steady, Attended, Owns
<1>2. worker \in [Apis -> Worker] /\ jobs \in [Job -> JobRecord]
  BY DEF Parts, WorkerInv, JobsInv
<1>3. ASSUME UNCHANGED <<jobs, worker>>
      PROVE  worker'[a].job = j /\ jobs'[j] = jobs[j]
  BY <1>3
<1>4. ASSUME NEW b \in Apis, CompleteJob(b) \/ FailAttempt(b)
      PROVE  worker'[a].job = j /\ jobs'[j] = jobs[j]
  <2>1. worker' = [worker EXCEPT ![b] = IdleWorker]
    BY <1>4 DEF CompleteJob, FailAttempt
  <2>2. b # a
    BY <1>2, <2>1 DEF IdleWorker
  <2>3. worker'[a] = worker[a]
    BY <1>2, <2>1, <2>2
  <2>4. CASE CompleteJob(b)
    BY <1>1, <1>2, <2>2, <2>3, <2>4 DEF CompleteJob, Owns
  <2>5. CASE FailAttempt(b)
    BY <1>1, <1>2, <2>2, <2>3, <2>5 DEF FailAttempt, MoveToFailed, Owns
  <2> QED BY <1>4, <2>4, <2>5
<1>5. ASSUME NEW b \in Apis, NEW k \in Job, TakeJob(b, k)
      PROVE  worker'[a].job = j /\ jobs'[j] = jobs[j]
  <2>1. b # a /\ k # j
    BY <1>1, <1>5 DEF TakeJob
  <2> QED BY <1>1, <1>2, <1>5, <2>1 DEF TakeJob
<1>6. ASSUME NEW b \in Apis, NEW k \in Job, RejectStalledJob(b, k)
      PROVE  worker'[a].job = j /\ jobs'[j] = jobs[j]
  BY <1>1, <1>2, <1>6 DEF RejectStalledJob, MoveToFailed
<1>7. ASSUME NEW b \in Apis, \/ ClaimRow(b) \/ PeekKey(b) \/ FailForMissingKey(b) \/ Throw(b)
                             \/ \E f \in Frame : ReceiveFrame(b, f)
                             \/ \E e \in ErrorText : ReceiveFatalError(b, e)
                             \/ \E k \in Job, e \in ErrorText : OnFailed(b, k, e)
      PROVE  worker'[a].job = j /\ jobs'[j] = jobs[j]
  <2>1. jobs' = jobs /\ (worker' = worker \/ \E step : worker' = [worker EXCEPT ![b].step = step])
    BY <1>7 DEF ClaimRow, PeekKey, FailForMissingKey, Throw, ReceiveFrame, ReceiveFatalError,
                OnFailed, Goto
  <2> QED BY <1>2, <2>1 DEF Worker
<1>8. ASSUME NEW b \in Apis, Publish(b)
      PROVE  worker'[a].job = j /\ jobs'[j] = jobs[j]
  <2>1. PICK i \in 1..Len(outbox) :
          jobs' = IF jobs[outbox[i].job].state = "none"
                  THEN [jobs EXCEPT ![outbox[i].job].state = "waiting"] ELSE jobs
    BY <1>8 DEF Publish
  <2> QED BY <1>1, <1>2, <1>8, <2>1 DEF Publish
<1>9. ASSUME NEW k \in Job, StalledCheck(k)
      PROVE  worker'[a].job = j /\ jobs'[j] = jobs[j]
  BY <1>1, <1>2, <1>9 DEF StalledCheck
<1>10. ASSUME NEW b \in Apis, Crash(b)
       PROVE  worker'[a].job = j /\ jobs'[j] = jobs[j]
  BY <1>2, <1>10 DEF Crash, IdleWorker
<1>11. ASSUME \/ \E b \in Apis : Request(b) \/ CommitDispatch(b)
              \/ \E r \in Runs : CancelRun(r) \/ DeleteRun(r)
              \/ UNCHANGED vars
       PROVE  UNCHANGED <<jobs, worker>>
  BY <1>11 DEF Request, CreateRun, ResumeRun, OpenExecution, PutKey, RequestFails, KeyExpires,
               CommitDispatch, CancelRun, DeleteRun, RewriteRow, vars
<1>12. ASSUME NEW b \in Apis, WorkerNext(b)
       PROVE  worker'[a].job = j /\ jobs'[j] = jobs[j]
  BY <1>4, <1>5, <1>6, <1>7, <1>12 DEF WorkerNext
<1>13. worker'[a].job = j /\ jobs'[j] = jobs[j]
  BY <1>3, <1>8, <1>9, <1>10, <1>11, <1>12 DEF Next
<1> QED BY <1>1, <1>13 DEF Owns

\* What an end of an attempt leaves cannot be claimed.
LEMMA EndsUnclaimable ==
    ASSUME Parts, NEW j \in Job,
           \/ \E e \in Error : FailExecution(j, e)
           \/ /\ FrameAccepted(rows[j.run], j.version)
              /\ \E f \in FinalFrame : rows' = [rows EXCEPT ![j.run] = FramedRow(@, j.version, f)]
           \/ ~FrameAccepted(rows[j.run], j.version) /\ UNCHANGED rows
    PROVE  ~Claimable(rows'[j.run], j.version)
<1>1. rows \in [Runs -> Row] /\ j.run \in Runs /\ rows[j.run] \in Row /\ j.version \in Version
  BY JobFields DEF Parts, RowsInv
<1>2. ASSUME NEW e \in Error, FailExecution(j, e) PROVE ~Claimable(rows'[j.run], j.version)
  <2>1. CASE Failable(rows[j.run], j.version)
    <3>1. rows'[j.run] = FailedRow(rows[j.run], e)
      BY <1>1, <1>2, <2>1 DEF FailExecution
    <3> QED BY <1>1, <3>1, RowFields DEF Claimable, Executing
  <2>2. CASE ~Failable(rows[j.run], j.version)
    BY <1>2, <2>2 DEF FailExecution, Failable, Claimable, Executing, Settled
  <2> QED BY <2>1, <2>2
<1>3. ASSUME NEW f \in FinalFrame, rows' = [rows EXCEPT ![j.run] = FramedRow(@, j.version, f)]
      PROVE  ~Claimable(rows'[j.run], j.version)
  <2>1. rows'[j.run] = FramedRow(rows[j.run], j.version, f)
    BY <1>1, <1>3
  <2>2. f \in Frame /\ FrameStatus(f) \notin Executing
    BY FrameStatuses DEF Frame, FinalFrame, ProgressFrame, TerminalFrame, Executing
  <2> QED BY <1>1, <2>1, <2>2, RowFields DEF Claimable
<1>4. CASE ~FrameAccepted(rows[j.run], j.version) /\ UNCHANGED rows
  BY <1>4 DEF FrameAccepted, Claimable, Executing
<1> QED BY <1>2, <1>3, <1>4

\* A worker is moved by its own process only.
LEMMA WorkerMoves ==
    ASSUME Parts, [Next]_vars, NEW a \in Apis, worker'[a] # worker[a]
    PROVE  \/ \E k \in Job : TakeJob(a, k)
           \/ ClaimRow(a) \/ PeekKey(a) \/ FailForMissingKey(a) \/ Throw(a)
           \/ \E f \in Frame : ReceiveFrame(a, f)
           \/ \E e \in ErrorText : ReceiveFatalError(a, e)
           \/ worker'[a] = IdleWorker
<1>1. worker \in [Apis -> Worker]
  BY DEF Parts, WorkerInv
<1>2. \A b \in Apis : ~Request(b) /\ ~Publish(b) /\ ~CommitDispatch(b)
  BY DEF Request, CreateRun, ResumeRun, OpenExecution, PutKey, RequestFails, KeyExpires,
         Publish, CommitDispatch
<1>3. /\ \A r \in Runs : ~CancelRun(r) /\ ~DeleteRun(r)
      /\ \A k \in Job : ~StalledCheck(k)
  BY DEF CancelRun, DeleteRun, RewriteRow, StalledCheck
<1>4. ASSUME NEW b \in Apis, Crash(b) PROVE worker'[a] = IdleWorker
  BY <1>1, <1>4 DEF Crash
<1>5. ASSUME NEW b \in Apis, CompleteJob(b) \/ FailAttempt(b) PROVE worker'[a] = IdleWorker
  BY <1>1, <1>5 DEF CompleteJob, FailAttempt
<1>6. ASSUME NEW b \in Apis, NEW k \in Job, TakeJob(b, k) PROVE a = b
  BY <1>1, <1>6 DEF TakeJob
<1>7. ASSUME NEW b \in Apis, \/ ClaimRow(b) \/ PeekKey(b) \/ FailForMissingKey(b) \/ Throw(b)
                             \/ \E f \in Frame : ReceiveFrame(b, f)
                             \/ \E e \in ErrorText : ReceiveFatalError(b, e)
      PROVE a = b
  <2>1. worker' = worker \/ \E step : worker' = [worker EXCEPT ![b].step = step]
    BY <1>7 DEF ClaimRow, PeekKey, FailForMissingKey, Throw, ReceiveFrame, ReceiveFatalError, Goto
  <2> QED BY <1>1, <2>1
<1>8. ASSUME NEW b \in Apis, NEW k \in Job
      PROVE  /\ ~RejectStalledJob(b, k)
             /\ \A e \in ErrorText : ~OnFailed(b, k, e)
  BY DEF RejectStalledJob, OnFailed
<1>9. PICK b \in Apis : WorkerNext(b) \/ Crash(b)
  BY <1>2, <1>3 DEF Next, vars
<1>10. CASE Crash(b)
  BY <1>4, <1>10
<1>11. CASE WorkerNext(b)
  BY <1>5, <1>6, <1>7, <1>8, <1>11 DEF WorkerNext
<1> QED BY <1>9, <1>10, <1>11

\* What a worker is through with cannot be claimed.
LEMMA Returns ==
    ASSUME Parts, [Next]_vars, NEW a \in Apis,
           worker[a].step # "idle", worker[a].step # "return", worker'[a].step = "return"
    PROVE  ~Claimable(rows'[worker[a].job.run], worker[a].job.version)
<1> DEFINE j == worker[a].job
<1>1. j \in Job /\ worker \in [Apis -> Worker]
  BY BusyJob DEF Parts, WorkerInv
<1>2. \A e \in ErrorText : e \in Error
  BY DEF ErrorText, Error
<1>3. CASE ClaimRow(a)
  BY <1>1, <1>3 DEF ClaimRow, Goto, Worker
<1>4. CASE FailForMissingKey(a)
  BY <1>1, <1>4, EndsUnclaimable DEF FailForMissingKey, Error
<1>5. ASSUME NEW f \in Frame, ReceiveFrame(a, f) PROVE ~Claimable(rows'[j.run], j.version)
  BY <1>1, <1>5, EndsUnclaimable DEF ReceiveFrame
<1>6. ASSUME NEW e \in ErrorText, ReceiveFatalError(a, e)
      PROVE ~Claimable(rows'[j.run], j.version)
  BY <1>1, <1>2, <1>6, EndsUnclaimable DEF ReceiveFatalError
<1>7. ~(\E k \in Job : TakeJob(a, k)) /\ ~PeekKey(a) /\ ~Throw(a) /\ worker'[a] # IdleWorker
  <2>1. ASSUME NEW step, Goto(a, step) PROVE step = "return"
    BY <1>1, <2>1 DEF Goto, Worker
  <2>2. ~PeekKey(a) /\ ~Throw(a)
    BY <2>1 DEF PeekKey, Throw
  <2>3. worker'[a] # IdleWorker
    BY DEF IdleWorker
  <2>4. \A k \in Job : ~TakeJob(a, k)
    BY DEF TakeJob
  <2> QED BY <2>2, <2>3, <2>4
<1>8. worker'[a] # worker[a]
  OBVIOUS
<1> QED BY <1>3, <1>4, <1>5, <1>6, <1>7, <1>8, WorkerMoves

\* A busy worker finds its row as it left it, or cancelled.
LEMMA BusyRow ==
    ASSUME Parts, Accounted, Steady, [Next]_vars, NEW a \in Apis,
           worker[a].step # "idle", worker'[a].step \in {"peek", "nokey", "stream"}
    PROVE  /\ rows'[worker[a].job.run].version = worker[a].job.version
           /\ rows'[worker[a].job.run].status \in {"running", "cancelled"}
<1> DEFINE j == worker[a].job
           r == j.run
           Mine(row) == row.version = j.version /\ row.status \in {"running", "cancelled"}
<1>1. /\ j \in Job /\ r \in Runs /\ rows[r] \in Row /\ rows[r].version \in Nat
      /\ worker \in [Apis -> Worker] /\ rows \in [Runs -> Row] /\ j.version \in Version
  BY BusyJob, RowTypes, JobFields DEF Parts, WorkerInv, RowsInv
<1>2. Busy(a) => Mine(rows[r])
  BY DEF Steady, Attended, Busy
<1>3. ASSUME rows'[r] = rows[r], worker'[a] = worker[a] \/ Busy(a) PROVE Mine(rows'[r])
  BY <1>2, <1>3 DEF Busy
<1>4. ASSUME UserWrites(r), worker'[a] = worker[a] PROVE Mine(rows'[r])
  BY <1>1, <1>2, <1>4, RowFields DEF Busy, UserWrites, Resumable
<1>5. CASE ClaimRow(a)
  <2>1. CASE Claimable(rows[r], j.version)
    <3>1. rows'[r] = ClaimedRow(rows[r])
      BY <1>1, <1>5, <2>1 DEF ClaimRow
    <3> QED BY <1>1, <2>1, <3>1, RowFields DEF Claimable, OwnedBy
  <2>2. CASE ~Claimable(rows[r], j.version)
    BY <1>1, <1>5, <2>2 DEF ClaimRow, Goto, Worker
  <2> QED BY <2>1, <2>2
<1>6. CASE PeekKey(a)
  BY <1>3, <1>6 DEF PeekKey, Busy
<1>7. CASE \/ FailForMissingKey(a) \/ Throw(a) \/ \E e \in ErrorText : ReceiveFatalError(a, e)
  BY <1>1, <1>7 DEF FailForMissingKey, Throw, ReceiveFatalError, Goto, Worker
<1>8. ASSUME NEW f \in Frame, ReceiveFrame(a, f) PROVE Mine(rows'[r])
  <2>1. /\ FrameAccepted(rows[r], j.version) /\ f \notin FinalFrame
        /\ rows' = [rows EXCEPT ![r] = FramedRow(@, j.version, f)]
    BY <1>1, <1>8 DEF ReceiveFrame, Goto, Worker
  <2>2. rows'[r] = FramedRow(rows[r], j.version, f) /\ f \in ProgressFrame
    BY <1>1, <2>1 DEF Frame
  <2> QED BY <1>1, <2>1, <2>2, RowFields, FrameStatuses DEF FrameAccepted, OwnedBy
<1>9. CASE \/ \E b \in Apis \ {a} : \/ ClaimRow(b) \/ FailForMissingKey(b)
                                    \/ \E f \in Frame : ReceiveFrame(b, f)
                                    \/ \E e \in ErrorText : ReceiveFatalError(b, e)
           \/ \E b \in Apis, k \in Job, e \in ErrorText : OnFailed(b, k, e)
  <2>1. worker'[a] = worker[a]
    BY <1>1, <1>9 DEF ClaimRow, FailForMissingKey, ReceiveFrame, ReceiveFatalError, OnFailed, Goto
  <2> QED BY <1>3, <1>9, <2>1, Undisturbed DEF Busy
<1>10. CASE \/ \E b \in Apis \ {a} : PeekKey(b) \/ Throw(b)
            \/ \E b \in Apis : CompleteJob(b) \/ FailAttempt(b)
            \/ \E b \in Apis, k \in Job : TakeJob(b, k) \/ RejectStalledJob(b, k)
            \/ \E b \in Apis : Publish(b) \/ CommitDispatch(b) \/ Crash(b)
            \/ \E k \in Job : StalledCheck(k)
            \/ UNCHANGED vars
  <2>1. rows' = rows
    BY <1>10 DEF PeekKey, Throw, CompleteJob, FailAttempt, TakeJob, RejectStalledJob, Publish,
                 CommitDispatch, Crash, StalledCheck, vars
  <2>2. worker'[a] # IdleWorker /\ \A k \in Job : ~TakeJob(a, k)
    BY DEF IdleWorker, TakeJob
  <2>3. worker'[a] = worker[a] \/ PeekKey(a)
    <3>1. CASE \E b \in Apis \ {a} : PeekKey(b) \/ Throw(b)
      BY <1>1, <3>1 DEF PeekKey, Throw, Goto
    <3>2. CASE \E b \in Apis : CompleteJob(b) \/ FailAttempt(b) \/ Crash(b)
      BY <1>1, <2>2, <3>2 DEF CompleteJob, FailAttempt, Crash
    <3>3. CASE \E b \in Apis, k \in Job : TakeJob(b, k) \/ RejectStalledJob(b, k)
      BY <1>1, <2>2, <3>3 DEF TakeJob, RejectStalledJob
    <3>4. CASE \/ \E b \in Apis : Publish(b) \/ CommitDispatch(b)
               \/ \E k \in Job : StalledCheck(k)
               \/ UNCHANGED vars
      BY <3>4 DEF Publish, CommitDispatch, StalledCheck, vars
    <3> QED BY <1>10, <3>1, <3>2, <3>3, <3>4
  <2> QED BY <1>3, <1>6, <2>1, <2>3
<1>11. CASE \/ \E b \in Apis : Request(b)
            \/ \E s \in Runs : CancelRun(s) \/ DeleteRun(s)
  <2>1. worker' = worker
    BY <1>11 DEF Request, CreateRun, ResumeRun, OpenExecution, PutKey, RequestFails, KeyExpires,
                 CancelRun, DeleteRun, RewriteRow
  <2>2. UserWrites(r) \/ rows'[r] = rows[r]
    BY <1>1, <1>11 DEF Request, CreateRun, ResumeRun, OpenExecution, PutKey, RequestFails, KeyExpires,
                 CancelRun, DeleteRun, RewriteRow, UserWrites
  <2> QED BY <1>3, <1>4, <2>1, <2>2
<1>12. ASSUME NEW b \in Apis, WorkerNext(b) PROVE Mine(rows'[r])
  BY <1>5, <1>6, <1>7, <1>8, <1>9, <1>10, <1>12 DEF WorkerNext
<1> QED BY <1>10, <1>11, <1>12 DEF Next

LEMMA AttendedStep ==
    ASSUME Parts, Accounted, Steady, ~LiveStalls, [Next]_vars, NEW a \in Apis
    PROVE  Attended(a)'
<1>1. CASE worker'[a].step = "idle"
  BY <1>1 DEF Attended
<1>2. CASE worker[a].step = "idle" /\ worker'[a].step # "idle"
  <2>1. PICK k \in Job : TakeJob(a, k)
    <3>1. worker'[a] # IdleWorker /\ worker'[a] # worker[a]
      BY <1>2 DEF IdleWorker
    <3>2. /\ ~ClaimRow(a) /\ ~PeekKey(a) /\ ~FailForMissingKey(a) /\ ~Throw(a)
          /\ \A f \in Frame : ~ReceiveFrame(a, f)
          /\ \A e \in ErrorText : ~ReceiveFatalError(a, e)
      BY <1>2 DEF ClaimRow, PeekKey, FailForMissingKey, Throw, ReceiveFrame, ReceiveFatalError
    <3> QED BY <3>1, <3>2, WorkerMoves
  <2>2. worker'[a] = [step |-> "claim", job |-> k]
    BY <2>1 DEF TakeJob, Parts, WorkerInv
  <2>3. jobs'[k].state = "active" /\ jobs'[k].owner = a
    BY <2>1, OneJob DEF TakeJob
  <2> QED BY <2>2, <2>3 DEF Attended, Owns
<1>3. CASE worker[a].step # "idle" /\ worker'[a].step # "idle"
  <2> DEFINE j == worker[a].job
  <2>1. worker'[a].job = j /\ Owns(a, j)'
    BY <1>3, OwnersKept
  <2>2. worker'[a].step \in {"peek", "nokey", "stream"} =>
           /\ rows'[j.run].version = j.version
           /\ rows'[j.run].status \in {"running", "cancelled"}
    BY <1>3, BusyRow
  <2>3. ASSUME worker'[a].step = "return" PROVE ~Claimable(rows'[j.run], j.version)
    <3>1. CASE worker[a].step = "return"
      <4>1. /\ j \in Job /\ jobs[j].state = "active"
            /\ ~Claimable(rows[j.run], j.version)
        BY <3>1, BusyJob DEF Parts, Steady, Attended, Owns
      <4>2. j.version <= rows[j.run].version
        BY <4>1 DEF Accounted
      <4> QED BY <4>1, <4>2, ClaimsStay
    <3>2. CASE worker[a].step # "return"
      BY <1>3, <2>3, <3>2, Returns
    <3> QED BY <3>1, <3>2
  <2> QED BY <2>1, <2>2, <2>3 DEF Attended, Owns
<1> QED BY <1>1, <1>2, <1>3

\* A job is done with only when its execution cannot be claimed.
LEMMA CompletedStep ==
    ASSUME Parts, Accounted, Steady, [Next]_vars, NEW k \in Job, jobs'[k].state = "completed"
    PROVE  ~Claimable(rows'[k.run], k.version)
<1>1. jobs \in [Job -> JobRecord]
  BY DEF Parts, JobsInv
<1>2. ASSUME jobs[k].state = "completed" PROVE ~Claimable(rows'[k.run], k.version)
  BY <1>2, ClaimsStay DEF Accounted, Steady
<1>3. ASSUME NEW a \in Apis, CompleteJob(a), jobs[k].state # "completed"
      PROVE  ~Claimable(rows'[k.run], k.version)
  <2>1. /\ worker[a].job \in Job /\ worker[a].step = "return" /\ rows' = rows
        /\ ~Claimable(rows[worker[a].job.run], worker[a].job.version)
    BY <1>3, BusyJob DEF CompleteJob, Parts, Steady, Attended
  <2>2. k = worker[a].job
    BY <1>1, <1>3, <2>1 DEF CompleteJob
  <2> QED BY <2>1, <2>2
<1>4. ASSUME jobs[k].state # "completed" PROVE \E a \in Apis : CompleteJob(a)
  <2>1. \A b \in Apis : ~Request(b) /\ ~CommitDispatch(b) /\ ~Crash(b)
    BY <1>4 DEF Request, CreateRun, ResumeRun, OpenExecution, PutKey, RequestFails, KeyExpires,
                CommitDispatch, Crash
  <2>2. \A r \in Runs : ~CancelRun(r) /\ ~DeleteRun(r)
    BY <1>4 DEF CancelRun, DeleteRun, RewriteRow
  <2>3. ASSUME NEW j \in Job, StalledCheck(j) PROVE FALSE
    <3>1. jobs' = [jobs EXCEPT ![j].state = "waiting", ![j].owner = NoApi, ![j].stalls = @ + 1]
      BY <2>3 DEF StalledCheck
    <3>2. jobs'[j].state = "waiting" /\ \A i \in Job \ {j} : jobs'[i] = jobs[i]
      BY <3>1, OneJob
    <3> QED BY <1>4, <3>2
  <2>4. ASSUME NEW b \in Apis, Publish(b) PROVE FALSE
    <3>1. PICK i \in 1..Len(outbox) :
            jobs' = IF jobs[outbox[i].job].state = "none"
                    THEN [jobs EXCEPT ![outbox[i].job].state = "waiting"] ELSE jobs
      BY <2>4 DEF Publish
    <3> QED BY <1>1, <1>4, <3>1
  <2>5. ASSUME NEW b \in Apis, NEW j \in Job, NEW retry, MoveToFailed(b, j, retry) PROVE FALSE
    <3> DEFINE made == jobs[j].made + 1
               state == IF retry /\ made < MaxAttempts THEN "waiting" ELSE "failed"
    <3>1. jobs' = [jobs EXCEPT ![j].state = state, ![j].made = made, ![j].owner = NoApi]
      BY <2>5 DEF MoveToFailed
    <3>2. jobs'[j].state = state /\ \A i \in Job \ {j} : jobs'[i] = jobs[i]
      <4> HIDE DEF state, made
      <4> QED BY <3>1, OneJob
    <3> QED BY <1>4, <3>2
  <2>6. \A b \in Apis : /\ ~FailAttempt(b)
                        /\ \A j \in Job : ~TakeJob(b, j) /\ ~RejectStalledJob(b, j)
    <3>1. ASSUME NEW b \in Apis, FailAttempt(b) PROVE FALSE
      BY <1>4, <2>5, <3>1, BusyJob DEF FailAttempt, Parts
    <3>2. ASSUME NEW b \in Apis, NEW j \in Job, TakeJob(b, j) PROVE FALSE
      BY <1>1, <1>4, <3>2 DEF TakeJob
    <3>3. ASSUME NEW b \in Apis, NEW j \in Job, RejectStalledJob(b, j) PROVE FALSE
      BY <2>5, <3>3 DEF RejectStalledJob
    <3> QED BY <3>1, <3>2, <3>3
  <2>7. \A b \in Apis :
           /\ ~ClaimRow(b) /\ ~PeekKey(b) /\ ~FailForMissingKey(b) /\ ~Throw(b)
           /\ \A f \in Frame : ~ReceiveFrame(b, f)
           /\ \A e \in ErrorText : /\ ~ReceiveFatalError(b, e)
                                   /\ \A j \in Job : ~OnFailed(b, j, e)
    BY <1>4 DEF ClaimRow, PeekKey, FailForMissingKey, Throw, ReceiveFrame, ReceiveFatalError, OnFailed
  <2> QED BY <1>4, <2>1, <2>2, <2>3, <2>4, <2>6, <2>7 DEF Next, WorkerNext, vars
<1> QED BY <1>2, <1>3, <1>4

\* A run that executes shows no gate.
LEMMA NoGateStep ==
    ASSUME Parts, Accounted, Steady, [Next]_vars, NEW r \in Runs, rows'[r].status \in Executing
    PROVE  rows'[r].gate = 0
<1> DEFINE row == rows[r]
<1>1. row \in Row /\ RowMove(r) /\ (row.status \in Executing => row.gate = 0)
  BY RowTypes, NextRows DEF Steady
<1>2. CASE UserWrites(r)
  BY <1>1, <1>2, RowFields, CreatedFields DEF UserWrites, Executing
<1>3. CASE rows'[r] = row
  BY <1>1, <1>3
<1>4. ASSUME NEW k \in Job, k.run = r, ExecutionWrites(r, k.version) PROVE rows'[r].gate = 0
  <2>1. k.version \in Version
    BY JobVersions
  <2>2. CASE Claimable(row, k.version) /\ rows'[r] = ClaimedRow(row)
    BY <1>1, <2>2, RowFields DEF Claimable
  <2>3. ASSUME FrameAccepted(row, k.version), Streams(r, k.version), NEW f \in Frame,
               rows'[r] = FramedRow(row, k.version, f)
        PROVE  rows'[r].gate = 0
    <3>1. row.status \in Executing
      BY <2>3 DEF Streams, Steady, Attended, FrameAccepted, Executing
    <3>2. f \in ProgressFrame
      BY <1>1, <2>1, <2>3, RowFields, FrameStatuses DEF Executing
    <3>3. rows'[r].gate = FrameGate(row, k.version, f)
      BY <1>1, <2>1, <2>3, RowFields
    <3> QED BY <1>1, <3>1, <3>2, <3>3 DEF FrameGate, ProgressFrame
  <2>4. ASSUME NEW e \in Error, rows'[r] = FailedRow(row, e) PROVE FALSE
    BY <1>1, <2>4, RowFields DEF Executing
  <2> QED BY <1>4, <2>2, <2>3, <2>4 DEF ExecutionWrites
<1> QED BY <1>1, <1>2, <1>3, <1>4 DEF RowMove, WorkerMove

AttendedInv == Parts /\ Accounted /\ Steady

LEMMA AttendedInvariance == ASSUME ~LiveStalls PROVE Spec => []AttendedInv
<1>1. Init => AttendedInv
  <2> SUFFICES ASSUME Init PROVE Steady
    BY InitIInv, IInvIsParts, InitAccounted DEF AttendedInv
  <2>1. /\ \A a \in Apis : worker[a].step = "idle"
        /\ \A j \in Job : jobs[j].state # "completed"
        /\ \A r \in Runs : rows[r].status \notin Executing
    BY DEF Init, IdleWorker, NewJob, NoRow, Executing
  <2> QED BY <2>1 DEF Steady, Attended
<1>2. AttendedInv /\ [Next]_vars => AttendedInv'
  <2> SUFFICES ASSUME AttendedInv, [Next]_vars PROVE Steady'
    BY NextParts, AccountedStep DEF AttendedInv
  <2> USE DEF AttendedInv
  <2>1. \A a \in Apis : Attended(a)'
    BY AttendedStep
  <2>2. \A j \in Job : jobs'[j].state = "completed" => ~Claimable(rows'[j.run], j.version)
    BY CompletedStep
  <2>3. \A r \in Runs : rows'[r].status \in Executing => rows'[r].gate = 0
    BY NoGateStep
  <2> QED BY <2>1, <2>2, <2>3 DEF Steady
<1> QED BY <1>1, <1>2, PTL DEF Spec

\* Something drives every run that is queued or running, for as long as no
\* worker that is alive loses its job.
THEOREM NobodyIsLeftBehind == ASSUME ~LiveStalls PROVE Spec => []NoRunLeftBehind
<1>1. AttendedInv => NoRunLeftBehind
  <2> SUFFICES ASSUME AttendedInv, NEW r \in Runs, rows[r].status \in Executing,
                      jobs[CurrentJob(r)].state # "failed"
               PROVE  Driven(r)
    BY DEF NoRunLeftBehind
  <2> USE DEF AttendedInv
  <2> DEFINE j == CurrentJob(r)
  <2>1. rows[r].version # 0 /\ rows[r].status # "absent"
    BY DEF Accounted, Executing
  <2>2. PICK i \in 1..Len(outbox) : outbox[i].job = j
    BY <2>1 DEF Accounted
  <2>3. CASE ~outbox[i].dispatched
    BY <2>2, <2>3 DEF Driven
  <2>4. CASE outbox[i].dispatched
    <3>1. j \in Job /\ jobs[j].state # "none"
      BY <2>2, <2>4, OutboxJobs DEF Accounted
    <3>2. Claimable(rows[r], rows[r].version)
      BY <2>1 DEF Claimable, OwnedBy
    <3>3. jobs[j].state # "completed"
      BY <3>1, <3>2 DEF Steady, CurrentJob
    <3>4. jobs[j].state \in JobState
      BY <3>1 DEF Parts, JobsInv, JobRecord
    <3> QED BY <3>1, <3>3, <3>4 DEF JobState, Driven
  <2> QED BY <2>3, <2>4
<1> QED BY <1>1, AttendedInvariance, PTL

\* At most one worker reads frames into a run, under the same assumption.
THEOREM RunsHaveOneStream == ASSUME ~LiveStalls PROVE Spec => []OneStreamPerRun
<1>1. AttendedInv => OneStreamPerRun
  <2> SUFFICES ASSUME AttendedInv, NEW a \in Apis, NEW b \in Apis,
                      worker[a].step = "stream", worker[b].step = "stream",
                      worker[a].job.run = worker[b].job.run
               PROVE  a = b
    BY DEF OneStreamPerRun
  <2>1. /\ worker[a].job \in Job /\ worker[b].job \in Job
        /\ Owns(a, worker[a].job) /\ Owns(b, worker[b].job)
        /\ worker[a].job.version = worker[b].job.version
    BY BusyJob DEF AttendedInv, Parts, Steady, Attended
  <2>2. worker[a].job = worker[b].job
    BY <2>1 DEF Job
  <2> QED BY <2>1, <2>2 DEF Owns
<1> QED BY <1>1, AttendedInvariance, PTL

\* A run presented as waiting can be answered, under the same assumption.
THEOREM PresentedGatesAreAnswerable == ASSUME ~LiveStalls PROVE Spec => []PresentedGateAnswerable
<1>1. AttendedInv => PresentedGateAnswerable
  BY DEF AttendedInv, Steady, PresentedGateAnswerable, PresentedParked, Resumable, Executing
<1> QED BY <1>1, AttendedInvariance, PTL
-----------------------------------------------------------------------------
(* The refinement: every step of the lifecycle is a move of the status      *)
(* machine, or leaves status and version alone.                             *)

LEMMA OneStatus ==
    ASSUME NEW s \in Runs, \A r \in Runs \ {s} : rows'[r] = rows[r]
    PROVE  /\ Statuses' = [Statuses EXCEPT ![s] = rows'[s].status]
           /\ Versions' = [Versions EXCEPT ![s] = rows'[s].version]
           /\ Statuses[s] = rows[s].status /\ Versions[s] = rows[s].version
           /\ rows'[s].status = rows[s].status => Statuses' = Statuses
           /\ rows'[s].version = rows[s].version => Versions' = Versions
  BY DEF Statuses, Versions

StatusMove == RunStatusSpec!Next \/ (Statuses' = Statuses /\ Versions' = Versions)

LEMMA StatusOnly ==
    ASSUME NEW s \in Runs, \A r \in Runs \ {s} : rows'[r] = rows[r],
           rows'[s].version = rows[s].version,
           \/ rows'[s].status = rows[s].status
           \/ rows[s].status = "queued" /\ rows'[s].status = "running"
           \/ /\ rows[s].status = "running"
              /\ rows'[s].status \in {"awaiting_human", "completed", "out_of_scope"}
           \/ /\ rows[s].status \in {"queued", "running", "awaiting_human"}
              /\ rows'[s].status \in {"failed", "cancelled"}
    PROVE  StatusMove
<1>1. /\ Statuses' = [Statuses EXCEPT ![s] = rows'[s].status] /\ Versions' = Versions
      /\ Statuses[s] = rows[s].status
      /\ rows'[s].status = rows[s].status => Statuses' = Statuses
  BY OneStatus
<1>2. ASSUME NEW from, rows[s].status \in from
      PROVE  RunStatusSpec!Move(s, from, rows'[s].status)
  BY <1>1, <1>2 DEF RunStatusSpec!Move
<1>3. CASE rows'[s].status = rows[s].status
  BY <1>1, <1>3 DEF StatusMove
<1>4. CASE rows[s].status = "queued" /\ rows'[s].status = "running"
  <2>1. RunStatusSpec!Begin(s)
    BY <1>2, <1>4 DEF RunStatusSpec!Begin
  <2> QED BY <2>1 DEF StatusMove, RunStatusSpec!Next
<1>5. CASE rows[s].status = "running" /\ rows'[s].status \in {"awaiting_human", "completed", "out_of_scope"}
  <2>1. RunStatusSpec!Park(s) \/ RunStatusSpec!Finish(s)
    BY <1>2, <1>5 DEF RunStatusSpec!Park, RunStatusSpec!Finish
  <2> QED BY <2>1 DEF StatusMove, RunStatusSpec!Next
<1>6. CASE /\ rows[s].status \in {"queued", "running", "awaiting_human"}
           /\ rows'[s].status \in {"failed", "cancelled"}
  <2>1. RunStatusSpec!Fail(s) \/ RunStatusSpec!Cancel(s)
    BY <1>2, <1>6 DEF RunStatusSpec!Fail, RunStatusSpec!Cancel
  <2> QED BY <2>1 DEF StatusMove, RunStatusSpec!Next
<1> QED BY <1>3, <1>4, <1>5, <1>6

LEMMA StatusOpens ==
    ASSUME NEW s \in Runs, \A r \in Runs \ {s} : rows'[r] = rows[r],
           rows[s].version < MaxVersion, rows'[s].version = rows[s].version + 1,
           rows'[s].status = "queued",
           \/ rows[s].status = "absent" /\ rows[s].version = 0
           \/ rows[s].status \in {"awaiting_human", "failed"}
    PROVE  StatusMove
<1>1. /\ Statuses' = [Statuses EXCEPT ![s] = "queued"]
      /\ Versions' = [Versions EXCEPT ![s] = rows[s].version + 1]
      /\ Statuses[s] = rows[s].status /\ Versions[s] = rows[s].version
  BY OneStatus
<1>2. ASSUME NEW from, rows[s].status \in from PROVE RunStatusSpec!Open(s, from)
  BY <1>1, <1>2 DEF RunStatusSpec!Open
<1>3. RunStatusSpec!Create(s) \/ RunStatusSpec!Answer(s)
  BY <1>1, <1>2 DEF RunStatusSpec!Create, RunStatusSpec!Answer
<1> QED BY <1>3 DEF StatusMove, RunStatusSpec!Next

LEMMA StatusMoves ==
    ASSUME AttendedInv, [Next]_vars
    PROVE  StatusMove
<1> USE DEF AttendedInv
<1>1. CASE Runs = {}
  BY <1>1 DEF StatusMove, Statuses, Versions
<1>2. CASE Runs # {}
  <2>1. PICK s \in Runs : \A r \in Runs \ {s} : rows'[r] = rows[r]
    BY <1>2, NextRows DEF OneRow
  <2> DEFINE row == rows[s]
  <2>2. /\ RowMove(s) /\ row \in Row /\ row.version \in 0..MaxVersion /\ row.version \in Nat
        /\ row.status = "absent" <=> row.version = 0
    BY NextRows, RowTypes DEF Accounted
  <2>3. row.status \in Status
    BY <2>2 DEF Row
  <2>4. CASE rows'[s] = row
    BY <2>1, <2>4, StatusOnly
  <2>5. CASE row.status = "absent" /\ rows'[s] = CreatedRow
    BY <2>1, <2>2, <2>5, StatusOpens, CreatedFields, VersionAssumption
  <2>6. ASSUME NEW act, Resumable(row, act), row.version < MaxVersion, rows'[s] = ResumedRow(row)
        PROVE  StatusMove
    <3>1. rows'[s].version = row.version + 1 /\ rows'[s].status = "queued"
      BY <2>2, <2>6, RowFields
    <3> QED BY <2>1, <2>6, <3>1, StatusOpens DEF Resumable
  <2>7. CASE Cancellable(row) /\ rows'[s] = CancelledRow(row)
    <3>1. rows'[s].version = row.version /\ rows'[s].status = "cancelled"
      BY <2>2, <2>7, RowFields
    <3>2. row.status \in {"queued", "running", "awaiting_human"}
      BY <2>3, <2>7 DEF Cancellable, Status, Executing
    <3> QED BY <2>1, <3>1, <3>2, StatusOnly
  <2>8. CASE rows'[s] = DeletedRow(row)
    BY <2>1, <2>2, <2>8, RowFields, StatusOnly
  <2>9. ASSUME NEW k \in Job, k.run = s, ExecutionWrites(s, k.version) PROVE StatusMove
    <3>1. k.version \in Version
      BY JobVersions
    <3>2. CASE Claimable(row, k.version) /\ rows'[s] = ClaimedRow(row)
      BY <2>1, <2>2, <3>2, RowFields, StatusOnly DEF Claimable, Executing
    <3>3. ASSUME FrameAccepted(row, k.version), Streams(s, k.version), NEW f \in Frame,
                 rows'[s] = FramedRow(row, k.version, f)
          PROVE  StatusMove
      <4>1. row.status = "running"
        BY <3>3 DEF Streams, Steady, Attended, FrameAccepted
      <4>2. /\ rows'[s].version = row.version
            /\ rows'[s].status \in Status \ {"absent", "queued", "failed"}
        BY <2>2, <3>1, <3>3, RowFields, FrameStatuses
      <4> QED BY <2>1, <4>1, <4>2, StatusOnly DEF Status, Executing, Settled
    <3>4. ASSUME NEW e \in Error, Failable(row, k.version), rows'[s] = FailedRow(row, e)
          PROVE  StatusMove
      <4>1. row.status \in {"queued", "running", "awaiting_human"}
        BY <2>3, <3>4 DEF Failable, OwnedBy, Status, Executing
      <4>2. rows'[s].version = row.version /\ rows'[s].status = "failed"
        BY <2>2, <3>4, RowFields
      <4> QED BY <2>1, <4>1, <4>2, StatusOnly
    <3> QED BY <2>9, <3>2, <3>3, <3>4 DEF ExecutionWrites
  <2> QED BY <2>2, <2>4, <2>5, <2>6, <2>7, <2>8, <2>9 DEF RowMove, UserWrites, WorkerMove
<1> QED BY <1>1, <1>2

\* Queue, workers, retries and crashes keep the promise the API makes of a
\* run's status, as long as no worker that is alive loses its job.
THEOREM LifecycleKeepsStatusPromise == ASSUME ~LiveStalls PROVE Spec => ImplementsRunStatus
<1>1. Init => RunStatusSpec!Init
  BY DEF Init, NoRow, RunStatusSpec!Init, Statuses, Versions
<1>2. AttendedInv /\ [Next]_vars => [RunStatusSpec!Next]_<<Statuses, Versions>>
  BY StatusMoves DEF StatusMove
<1> QED BY <1>1, <1>2, AttendedInvariance, PTL
        DEF ImplementsRunStatus, RunStatusSpec!Spec, RunStatusSpec!vars, Spec
=============================================================================
