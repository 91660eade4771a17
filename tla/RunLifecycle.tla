---------------------------- MODULE RunLifecycle ----------------------------
(***************************************************************************)
(* How a run is driven: the API requests that open, answer, cancel and     *)
(* delete it, the transactional outbox and its dispatcher, the BullMQ job, *)
(* and the worker that streams the agent's frames into the row.            *)
(*                                                                         *)
(* An API process hosts one dispatcher loop, one BullMQ worker of          *)
(* concurrency one, and one credential vault; several processes share      *)
(* Postgres and Redis.  The agent is any process that obeys the frame      *)
(* protocol: progress frames, then one final frame, an error or a break.   *)
(***************************************************************************)
EXTENDS RunRow, Sequences

CONSTANTS Runs,          \* run ids
          Apis,          \* API processes
          NoJob, NoApi,  \* "no job" of an idle worker, "no owner" of a job
          MaxAttempts,   \* RESEARCH_JOB_ATTEMPTS
          MaxStalled,    \* maxStalledCount of the processor
          MaxCrashes,    \* bound on crashes of API processes
          LiveStalls,    \* may a worker that is alive lose its job lock?
          Byok           \* LLM_BYOK_REQUIRED

Job == [run : Runs, version : Version]

ASSUME LifecycleAssumption ==
    /\ NoJob \notin Job /\ NoApi \notin Apis
    /\ MaxAttempts \in Nat \ {0}
    /\ MaxStalled \in Nat /\ MaxCrashes \in Nat
    /\ LiveStalls \in BOOLEAN /\ Byok \in BOOLEAN

VARIABLES
    rows,        \* research_runs
    outbox,      \* research_dispatch_outbox, in created_at order
    publishing,  \* per process: index of the outbox row it has locked and published
    jobs,        \* the BullMQ queue, by deterministic job id
    worker,      \* per process: what its BullMQ worker is doing
    exhausted,   \* per process: jobs whose 'failed' event onFailed must still handle
    keyRequests, \* per process: requests that committed and must still store the key
    vault,       \* per process: executions whose credential it holds
    crashes      \* crashes so far

vars == <<rows, outbox, publishing, jobs, worker, exhausted, keyRequests, vault, crashes>>
keyVars == <<keyRequests, vault>>
dispatchVars == <<outbox, publishing>>

JobState == {"none", "waiting", "active", "completed", "failed"}
JobRecord == [state : JobState, made : 0..MaxAttempts,
              stalls : 0..(MaxStalled + 1), owner : Apis \cup {NoApi}]
NewJob == [state |-> "none", made |-> 0, stalls |-> 0, owner |-> NoApi]

\* Where ResearchProcessor.process stands: about to claim the row, about to
\* look the key up, about to fail the run for want of one, reading frames,
\* about to return or to throw to BullMQ.
WorkerStep == {"idle", "claim", "peek", "nokey", "stream", "return", "throw"}
Worker == [step : WorkerStep, job : Job \cup {NoJob}]
IdleWorker == [step |-> "idle", job |-> NoJob]

TypeOK ==
    /\ rows \in [Runs -> Row]
    /\ outbox \in Seq([job : Job, dispatched : BOOLEAN])
    /\ publishing \in [Apis -> Nat]
    /\ jobs \in [Job -> JobRecord]
    /\ worker \in [Apis -> Worker]
    /\ exhausted \in [Apis -> SUBSET Job]
    /\ keyRequests \in [Apis -> SUBSET Job]
    /\ vault \in [Apis -> SUBSET Job]
    /\ crashes \in 0..MaxCrashes

Init ==
    /\ rows = [r \in Runs |-> NoRow]
    /\ outbox = <<>>
    /\ publishing = [a \in Apis |-> 0]
    /\ jobs = [j \in Job |-> NewJob]
    /\ worker = [a \in Apis |-> IdleWorker]
    /\ exhausted = [a \in Apis |-> {}]
    /\ keyRequests = [a \in Apis |-> {}]
    /\ vault = [a \in Apis |-> {}]
    /\ crashes = 0

-----------------------------------------------------------------------------
(* Requests.                                                                *)

\* The row and its outbox entry are one transaction; the credential goes to
\* the vault of this process only after it, and other awaits.
OpenExecution(a, r, row) ==
    LET j == [run |-> r, version |-> row.version] IN
    /\ rows' = [rows EXCEPT ![r] = row]
    /\ outbox' = Append(outbox, [job |-> j, dispatched |-> FALSE])
    /\ keyRequests' = IF Byok THEN [keyRequests EXCEPT ![a] = @ \cup {j}]
                              ELSE keyRequests
    /\ UNCHANGED <<publishing, jobs, worker, exhausted, vault, crashes>>

CreateRun(a, r) == rows[r].status = "absent" /\ OpenExecution(a, r, CreatedRow)

ResumeRun(a, r, action) == /\ Resumable(rows[r], action)
                           /\ rows[r].version < MaxVersion
                           /\ OpenExecution(a, r, ResumedRow(rows[r]))

PutKey(a, j) == /\ j \in keyRequests[a]
                /\ keyRequests' = [keyRequests EXCEPT ![a] = @ \ {j}]
                /\ vault' = [vault EXCEPT ![a] = @ \cup {j}]
                /\ UNCHANGED <<rows, outbox, publishing, jobs, worker, exhausted, crashes>>

\* recordUsage runs between the commit and the put, and may throw.
RequestFails(a, j) == /\ j \in keyRequests[a] /\ j.version = 1
                      /\ keyRequests' = [keyRequests EXCEPT ![a] = @ \ {j}]
                      /\ UNCHANGED <<rows, outbox, publishing, jobs, worker,
                                     exhausted, vault, crashes>>

KeyExpires(a, j) == /\ j \in vault[a]
                    /\ vault' = [vault EXCEPT ![a] = @ \ {j}]
                    /\ UNCHANGED <<rows, outbox, publishing, jobs, worker,
                                   exhausted, keyRequests, crashes>>

RewriteRow(r, row) ==
    /\ rows' = [rows EXCEPT ![r] = row]
    /\ UNCHANGED <<outbox, publishing, jobs, worker, exhausted, keyRequests, vault, crashes>>

CancelRun(r) == Cancellable(rows[r]) /\ RewriteRow(r, CancelledRow(rows[r]))

DeleteRun(r) == Deletable(rows[r]) /\ RewriteRow(r, DeletedRow(rows[r]))

-----------------------------------------------------------------------------
(* The dispatcher: one transaction locks the oldest undispatched row that   *)
(* nobody has locked, adds the job, and commits dispatched_at.              *)

Free(i) == ~outbox[i].dispatched /\ \A a \in Apis : publishing[a] # i

Publish(a) ==
    /\ publishing[a] = 0
    /\ \E i \in 1..Len(outbox) :
          /\ Free(i)
          /\ \A k \in 1..(i - 1) : ~Free(k)
          /\ publishing' = [publishing EXCEPT ![a] = i]
          /\ jobs' = IF jobs[outbox[i].job].state = "none"   \* same jobId: ignored
                     THEN [jobs EXCEPT ![outbox[i].job].state = "waiting"]
                     ELSE jobs
    /\ UNCHANGED <<rows, outbox, worker, exhausted, keyRequests, vault, crashes>>

CommitDispatch(a) ==
    /\ publishing[a] \in 1..Len(outbox)
    /\ outbox' = [outbox EXCEPT ![publishing[a]].dispatched = TRUE]
    /\ publishing' = [publishing EXCEPT ![a] = 0]
    /\ UNCHANGED <<rows, jobs, worker, exhausted, keyRequests, vault, crashes>>

-----------------------------------------------------------------------------
(* BullMQ: taking a job, ending it, and the stalled-job check.              *)

Owns(a, j) == jobs[j].state = "active" /\ jobs[j].owner = a

\* attemptsMade grows; when no attempt is left the worker emits 'failed' and
\* onFailed finds attemptsMade >= attempts.
MoveToFailed(a, j, retry) ==
    LET made == jobs[j].made + 1
        state == IF retry /\ made < MaxAttempts THEN "waiting" ELSE "failed"
    IN /\ jobs' = [jobs EXCEPT ![j].state = state, ![j].made = made, ![j].owner = NoApi]
       /\ exhausted' = IF made >= MaxAttempts
                       THEN [exhausted EXCEPT ![a] = @ \cup {j}] ELSE exhausted

TakeJob(a, j) ==
    /\ worker[a].step = "idle" /\ jobs[j].state = "waiting"
    /\ jobs[j].stalls <= MaxStalled
    /\ jobs' = [jobs EXCEPT ![j].state = "active", ![j].owner = a]
    /\ worker' = [worker EXCEPT ![a] = [step |-> "claim", job |-> j]]
    /\ UNCHANGED <<rows, outbox, publishing, exhausted, keyRequests, vault, crashes>>

\* A job that stalled too often fails without running, and is not retried.
RejectStalledJob(a, j) ==
    /\ worker[a].step = "idle" /\ jobs[j].state = "waiting"
    /\ jobs[j].stalls > MaxStalled
    /\ MoveToFailed(a, j, FALSE)
    /\ UNCHANGED <<rows, outbox, publishing, worker, keyRequests, vault, crashes>>

\* The lock of an active job ran out: its worker died, or (LiveStalls) could
\* not renew it and goes on without knowing.
StalledCheck(j) ==
    /\ jobs[j].state = "active"
    /\ LiveStalls \/ worker[jobs[j].owner].job # j
    /\ jobs' = [jobs EXCEPT ![j].state = "waiting", ![j].owner = NoApi,
                            ![j].stalls = @ + 1]
    /\ UNCHANGED <<rows, outbox, publishing, worker, exhausted, keyRequests, vault, crashes>>

\* A worker that lost the lock cannot move the job; the error is only logged.
CompleteJob(a) ==
    LET j == worker[a].job IN
    /\ worker[a].step = "return"
    /\ worker' = [worker EXCEPT ![a] = IdleWorker]
    /\ jobs' = IF Owns(a, j) THEN [jobs EXCEPT ![j].state = "completed",
                                               ![j].owner = NoApi]
               ELSE jobs
    /\ UNCHANGED <<rows, outbox, publishing, exhausted, keyRequests, vault, crashes>>

FailAttempt(a) ==
    LET j == worker[a].job IN
    /\ worker[a].step = "throw"
    /\ worker' = [worker EXCEPT ![a] = IdleWorker]
    /\ IF Owns(a, j) THEN MoveToFailed(a, j, TRUE) ELSE UNCHANGED <<jobs, exhausted>>
    /\ UNCHANGED <<rows, outbox, publishing, keyRequests, vault, crashes>>

-----------------------------------------------------------------------------
(* ResearchProcessor.process.                                               *)

Goto(a, step) == worker' = [worker EXCEPT ![a].step = step]

ClaimRow(a) ==
    LET j == worker[a].job IN
    /\ worker[a].step = "claim"
    /\ \/ /\ Claimable(rows[j.run], j.version)
          /\ rows' = [rows EXCEPT ![j.run] = ClaimedRow(@)]
          /\ Goto(a, "peek")
       \/ /\ ~Claimable(rows[j.run], j.version)
          /\ Goto(a, "return")
          /\ UNCHANGED rows
    /\ UNCHANGED <<outbox, publishing, jobs, exhausted, keyRequests, vault, crashes>>

PeekKey(a) ==
    /\ worker[a].step = "peek"
    /\ Goto(a, IF Byok /\ worker[a].job \notin vault[a] THEN "nokey" ELSE "stream")
    /\ UNCHANGED <<rows, outbox, publishing, jobs, exhausted, keyRequests, vault, crashes>>

\* failExecution, a no-op when its WHERE clause misses.
FailExecution(j, e) ==
    rows' = IF Failable(rows[j.run], j.version)
            THEN [rows EXCEPT ![j.run] = FailedRow(@, e)] ELSE rows

\* The event it records next may be refused after the row is written.
FailForMissingKey(a) ==
    /\ worker[a].step = "nokey"
    /\ FailExecution(worker[a].job, "missing_key")
    /\ Goto(a, "return") \/ Goto(a, "throw")
    /\ UNCHANGED <<outbox, publishing, jobs, exhausted, keyRequests, vault, crashes>>

ReleaseKey(a, j) == vault' = [vault EXCEPT ![a] = @ \ {j}]

\* One frame read from the stream and applied to the row.  A frame the row
\* refuses ends the attempt quietly, with the key still held.
ReceiveFrame(a, f) ==
    LET j == worker[a].job IN
    /\ worker[a].step = "stream"
    /\ \/ /\ FrameAccepted(rows[j.run], j.version)
          /\ rows' = [rows EXCEPT ![j.run] = FramedRow(@, j.version, f)]
          /\ IF f \in FinalFrame
             THEN Goto(a, "return") /\ ReleaseKey(a, j)
             ELSE UNCHANGED <<worker, vault>>
       \/ /\ ~FrameAccepted(rows[j.run], j.version)
          /\ Goto(a, "return")
          /\ UNCHANGED <<rows, vault>>
    /\ UNCHANGED <<outbox, publishing, jobs, exhausted, keyRequests, crashes>>

\* An error frame the agent marks as not worth retrying.
ReceiveFatalError(a, e) ==
    /\ worker[a].step = "stream"
    /\ FailExecution(worker[a].job, e)
    /\ \/ Goto(a, "return") /\ ReleaseKey(a, worker[a].job)
       \/ Goto(a, "throw") /\ UNCHANGED vault
    /\ UNCHANGED <<outbox, publishing, jobs, exhausted, keyRequests, crashes>>

\* Slip for the mutation runs: the finally clause releases the key always.
ThrowReleasing(a) ==
    /\ worker[a].step \in {"claim", "nokey", "stream"}
    /\ Goto(a, "throw")
    /\ ReleaseKey(a, worker[a].job)
    /\ UNCHANGED <<rows, outbox, publishing, jobs, exhausted, keyRequests, crashes>>

\* A retryable error frame, the idle timeout, a broken or truncated stream, or
\* a rejected query.
Throw(a) ==
    /\ worker[a].step \in {"claim", "nokey", "stream"}
    /\ Goto(a, "throw")
    /\ UNCHANGED <<rows, outbox, publishing, jobs, exhausted, keyRequests, vault, crashes>>

\* onFailed, when attemptsMade has reached attempts; earlier failures pass.
\* Nothing calls it again if its query is rejected.
OnFailed(a, j, e) ==
    /\ j \in exhausted[a]
    /\ exhausted' = [exhausted EXCEPT ![a] = @ \ {j}]
    /\ ReleaseKey(a, j)
    /\ FailExecution(j, e) \/ UNCHANGED rows
    /\ UNCHANGED <<outbox, publishing, jobs, worker, keyRequests, crashes>>

-----------------------------------------------------------------------------

\* The process restarts with empty memory; its open transaction rolls back.
Crash(a) ==
    /\ crashes < MaxCrashes
    /\ crashes' = crashes + 1
    /\ publishing' = [publishing EXCEPT ![a] = 0]
    /\ worker' = [worker EXCEPT ![a] = IdleWorker]
    /\ exhausted' = [exhausted EXCEPT ![a] = {}]
    /\ keyRequests' = [keyRequests EXCEPT ![a] = {}]
    /\ vault' = [vault EXCEPT ![a] = {}]
    /\ UNCHANGED <<rows, outbox, jobs>>

ErrorText == {"credits", "other"}

Request(a) ==
    \/ \E r \in Runs : CreateRun(a, r) \/ \E act \in {"answer", "continue"} : ResumeRun(a, r, act)
    \/ \E j \in Job : PutKey(a, j) \/ RequestFails(a, j) \/ KeyExpires(a, j)

WorkerNext(a) ==
    \/ \E j \in Job : TakeJob(a, j) \/ RejectStalledJob(a, j)
    \/ CompleteJob(a) \/ FailAttempt(a)
    \/ ClaimRow(a) \/ PeekKey(a) \/ FailForMissingKey(a)
    \/ \E f \in Frame : ReceiveFrame(a, f)
    \/ \E e \in ErrorText : ReceiveFatalError(a, e)
    \/ Throw(a)
    \/ \E j \in Job, e \in ErrorText : OnFailed(a, j, e)

Next ==
    \/ \E a \in Apis : \/ Request(a) \/ Publish(a) \/ CommitDispatch(a)
                       \/ WorkerNext(a) \/ Crash(a)
    \/ \E r \in Runs : CancelRun(r) \/ DeleteRun(r)
    \/ \E j \in Job : StalledCheck(j)

Spec == Init /\ [][Next]_vars

\* A stream ends: the graph is bounded, and a silent stream hits the idle
\* timeout.
StreamEnds(a) == \/ \E f \in FinalFrame : ReceiveFrame(a, f)
                 \/ \E e \in ErrorText : ReceiveFatalError(a, e)
                 \/ worker[a].step = "stream" /\ Throw(a)

WorkerAdvances(a) == \/ \E j \in Job : TakeJob(a, j) \/ RejectStalledJob(a, j)
                     \/ CompleteJob(a) \/ FailAttempt(a)
                     \/ ClaimRow(a) \/ PeekKey(a) \/ FailForMissingKey(a)
                     \/ StreamEnds(a)

\* The event loop of a live process runs its dispatcher, its worker and its
\* event handlers; Redis runs the stalled check.  Users owe nothing.
Fairness == /\ \A a \in Apis : /\ WF_vars(Publish(a)) /\ WF_vars(CommitDispatch(a))
                               /\ WF_vars(WorkerAdvances(a))
                               /\ WF_vars(\E j \in Job, e \in ErrorText : OnFailed(a, j, e))
            /\ \A j \in Job : WF_vars(StalledCheck(j))

FairSpec == Spec /\ Fairness
-----------------------------------------------------------------------------
(* Properties.                                                              *)

CurrentJob(r) == [run |-> r, version |-> rows[r].version]

\* A gate on display was raised by the execution that is current: frames of
\* an execution already answered (applyExecutionFrame, research.repository.ts
\* 353-359) never put an old question back in front of the user.
GateIsCurrent == \A r \in Runs : rows[r].gate \in {0, rows[r].version}

\* A run that waits for a human carries the question it waits on: no frame
\* clears interrupt_payload and leaves the run parked (380-397).
ParkedHasGate ==
    \A r \in Runs : rows[r].status = "awaiting_human" => rows[r].gate = rows[r].version

\* What makes TypeOK, GateIsCurrent and ParkedHasGate inductive: only a job
\* with an attempt left waits or runs, only a worker with a job is busy.
JobsOK ==
    \A j \in Job :
        /\ jobs[j].state \in {"none", "waiting", "active"} => jobs[j].made < MaxAttempts
        /\ jobs[j].state = "active" => /\ jobs[j].stalls <= MaxStalled
                                       /\ jobs[j].owner \in Apis

WorkersOK == \A a \in Apis : worker[a].step # "idle" => worker[a].job \in Job

IInv == TypeOK /\ JobsOK /\ WorkersOK /\ GateIsCurrent /\ ParkedHasGate

\* Whatever workers, retries and late frames do, a cancelled run stays
\* cancelled: setCurrentJob, applyExecutionFrame, failExecution and
\* createResumeWithOutbox all have to leave it alone.
CancelledForever ==
    [][\A r \in Runs : rows[r].status = "cancelled" => rows'[r].status = "cancelled"]_rows

\* Fencing: apart from the user's own requests, a row changes only while a
\* worker or failure handler holds the job of its current version.  A worker
\* that stalled on an earlier version writes nothing.
FencedWrites ==
    [][\A r \in Runs : rows'[r] # rows[r] =>
          \/ rows'[r] \in {CreatedRow, CancelledRow(rows[r]),
                           DeletedRow(rows[r]), ResumedRow(rows[r])}
          \/ \E a \in Apis : \/ worker[a].job = CurrentJob(r)
                            \/ CurrentJob(r) \in exhausted[a]]_vars

\* The processor and onFailed (44-95) drop a key only when no attempt can
\* need it again: its execution cannot be claimed any more, or BullMQ has
\* given the job up.  A thrown attempt keeps it for the retry.
Released(a, j) == /\ j \in vault[a] \ vault'[a]
                  /\ <<worker, exhausted>>' # <<worker, exhausted>>
                  /\ crashes' = crashes

KeyOutlivesRetries ==
    [][\A a \in Apis, j \in Job :
          Released(a, j) => \/ ~Claimable(rows'[j.run], j.version)
                            \/ jobs'[j].state = "failed"]_vars

\* Something still drives every run that is queued or running, unless BullMQ
\* gave its job up: an outbox row to publish, a job waiting or active, or a
\* failure to record.  No run is left behind by a job that completed, or by
\* a crash between publishing the job and committing dispatched_at.
Driven(r) ==
    LET j == CurrentJob(r) IN
    \/ \E i \in 1..Len(outbox) : outbox[i].job = j /\ ~outbox[i].dispatched
    \/ jobs[j].state \in {"waiting", "active"}
    \/ \E a \in Apis : j \in exhausted[a]

NoRunLeftBehind ==
    \A r \in Runs : rows[r].status \in Executing =>
        Driven(r) \/ jobs[CurrentJob(r)].state = "failed"

\* At most one worker reads frames into a run, although two processes race
\* for jobs and successive versions of a run have jobs of their own.
OneStreamPerRun ==
    \A a, b \in Apis :
        (/\ worker[a].step = "stream" /\ worker[b].step = "stream"
         /\ worker[a].job.run = worker[b].job.run) => a = b

\* A run presented as waiting (present-run.ts 19-21) can be answered: the
\* resume request is not turned away by createResumeWithOutbox.
PresentedGateAnswerable ==
    \A r \in Runs : (PresentedParked(rows[r]) /\ ~rows[r].deleted)
                      => Resumable(rows[r], "answer")

\* "Your model API key is no longer in memory": it once was, that is, the
\* request that brought it is not still about to store it.
MissingKeyWasStored ==
    \A r \in Runs : rows[r].error = "missing_key" =>
        \A a \in Apis : CurrentJob(r) \notin keyRequests[a]

\* What makes the properties above inductive.  Every execution that was opened
\* has its outbox entry, an entry taken up has its job, and a job is of an
\* execution that was opened; a failure is handled of a job that failed ...
Accounted ==
    /\ \A r \in Runs :
          /\ rows[r].status = "absent" <=> rows[r].version = 0
          /\ rows[r].version # 0 => \E i \in 1..Len(outbox) : outbox[i].job = CurrentJob(r)
    /\ \A i \in 1..Len(outbox) :
          /\ outbox[i].job.version <= rows[outbox[i].job.run].version
          /\ outbox[i].dispatched \/ (\E a \in Apis : publishing[a] = i)
               => jobs[outbox[i].job].state # "none"
    /\ \A j \in Job : jobs[j].state # "none" => j.version <= rows[j.run].version
    /\ \A a \in Apis : /\ publishing[a] \in 0..Len(outbox)
                       /\ \A j \in exhausted[a] : jobs[j].state = "failed"

\* ... and, as long as no worker that is alive loses its job: a worker has its
\* job, which is the current one while it streams, and neither ends as done
\* while the execution can still be claimed.
Attended(a) ==
    LET j == worker[a].job  row == rows[j.run] IN
    worker[a].step # "idle" =>
        /\ Owns(a, j)
        /\ worker[a].step \in {"peek", "nokey", "stream"} =>
               row.version = j.version /\ row.status \in {"running", "cancelled"}
        /\ worker[a].step = "return" => ~Claimable(row, j.version)
Steady ==
    /\ \A a \in Apis : Attended(a)
    /\ \A j \in Job : jobs[j].state = "completed" => ~Claimable(rows[j.run], j.version)
    /\ \A r \in Runs : rows[r].status \in Executing => rows[r].gate = 0
SteadyInv == IInv /\ Accounted /\ Steady

\* The lifecycle implements the status machine the API promises.
Statuses == [r \in Runs |-> rows[r].status]
Versions == [r \in Runs |-> rows[r].version]
RunStatusSpec == INSTANCE RunStatus WITH status <- Statuses, version <- Versions
ImplementsRunStatus == RunStatusSpec!Spec

\* A queued or running execution does not stay so for ever, unless a crash
\* fell between BullMQ giving the job up and onFailed recording it.
Abandoned(r) == jobs[CurrentJob(r)].state = "failed" /\ ~Driven(r)
EveryExecutionEnds ==
    \A r \in Runs : rows[r].status \in Executing
                      ~> (rows[r].status \notin Executing \/ Abandoned(r))
=============================================================================
