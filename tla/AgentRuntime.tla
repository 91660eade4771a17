---------------------------- MODULE AgentRuntime ----------------------------
(***************************************************************************)
(* The agent process around the graph of one run (apps/agent/app/runtime.py *)
(* and main.py): HTTP streams that wait for the boot, for a pooled          *)
(* connection and for the run's advisory lock, decide from the checkpoint   *)
(* how to enter the graph, run it node by node, and end with one frame.     *)
(*                                                                         *)
(* The graph is a path of nodes, some of them gates; ResearchGraph has the  *)
(* real one.  The API side is what RunLifecycle allows: an execution is     *)
(* streamed again until a final frame of it arrives, a frame of another     *)
(* execution is refused, and a parked run's next execution carries the      *)
(* human's answer.                                                          *)
(***************************************************************************)
EXTENDS Naturals, Sequences, FiniteSets

CONSTANTS Streams,        \* BOUND on HTTP streams: attempts of all executions
          NoStream,       \* "nobody" holds the advisory lock
          MaxExec,        \* BOUND on executions: 1 starts, the others resume
          PoolSize,       \* max_size of the connection pool (8)
          Path,           \* the nodes of the graph, in order
          Gates,          \* those that ask the human
          Recognised,     \* gates known by the name of the next node (hitl, briefing)
          CreditsAnswers, \* what the human may answer to a credits pause
          LiveStalls,     \* may a worker that is alive lose its job to another?
          MaxCrashes      \* BOUND on crashes of the agent process

ASSUME RuntimeAssumption ==
    /\ NoStream \notin Streams /\ IsFiniteSet(Streams)
    /\ MaxExec \in Nat \ {0} /\ PoolSize \in Nat \ {0} /\ MaxCrashes \in Nat
    /\ Path \in Seq(STRING) /\ Recognised \subseteq Gates
    /\ CreditsAnswers \subseteq {"continue", "cancel"} /\ LiveStalls \in BOOLEAN

VARIABLES
    boot,     \* the background init: "starting", "ready", "failed"
    ckpt,     \* the checkpoint of the run
    stream,   \* per stream: its execution, where it stands, its worker, its place in line
    opened,   \* streams opened so far: the ticket of the last one
    lock,     \* holder of pg_advisory_lock
    row,      \* what the API knows: version, "open" | "parked" | "over", question shown
    asked,    \* per execution: the question its decision answers
    decision, \* per execution: that decision
    applied,  \* history: <<execution, gate>> whose answer the gate has taken
    crashes

vars == <<boot, ckpt, stream, opened, lock, row, asked, decision, applied, crashes>>
apiVars == <<row, asked, decision>>

Execs == 1..MaxExec
NoQuestion == [kind |-> "none", pos |-> 0]
Question == [kind : {"gate", "credits"}, pos : 1..Len(Path)] \cup {NoQuestion}
AtGate(p) == p \in 1..Len(Path) /\ Path[p] \in Gates

\* pos 0: no values yet; past the path: nothing is next.  `wait` is the pending
\* interrupt of the next node, `answer` the execution whose resume value is
\* stored for it: both stay until that node completes.
Checkpoint == [pos : 0..(Len(Path) + 1), status : {"running", "failed", "terminal"},
               last : 0..MaxExec, wait : {"none", "gate", "credits"}, answer : 0..MaxExec]
NoCheckpoint == [pos |-> 0, status |-> "running", last |-> 0, wait |-> "none", answer |-> 0]

StreamStep == {"new", "sent", "queued", "locking", "load", "run", "done"}
NewStream == [exec |-> 1, step |-> "new", live |-> FALSE, ticket |-> 0]
EndedStream == [NewStream EXCEPT !.step = "done"]
HasConnection == {"locking", "load", "run"}
HoldsLock == {"load", "run"}
Active(s) == stream[s].step \notin {"new", "done"}

Init ==
    /\ boot = "starting" /\ ckpt = NoCheckpoint /\ lock = NoStream
    /\ stream = [s \in Streams |-> NewStream] /\ opened = 0
    /\ row = [version |-> 1, state |-> "open", shown |-> NoQuestion]
    /\ asked = [e \in Execs |-> NoQuestion] /\ decision = [e \in Execs |-> "start"]
    /\ applied = {} /\ crashes = 0

------------------------------------------------------------------------------
(* Boot and the ways out of a stream.                                      *)

Boot == /\ boot = "starting" /\ boot' \in {"ready", "failed"}
        /\ UNCHANGED <<ckpt, stream, opened, lock, apiVars, applied, crashes>>

\* Mutant: a stream that breaks off keeps its lock.
LeaveLocked(s) ==
    /\ stream' = [stream EXCEPT ![s] = EndedStream]
    /\ lock' = IF lock = s /\ stream[s].live THEN NoStream ELSE lock

\* The finally clauses: unlock, and give the connection back.
Leave(s) ==
    /\ stream' = [stream EXCEPT ![s] = EndedStream]
    /\ lock' = IF lock = s THEN NoStream ELSE lock

\* The last frame: refused if it is of another execution than the row's, lost
\* if its worker is gone or goes before it is applied.
Deliver(s, state, question) ==
    \/ UNCHANGED apiVars
    \/ /\ stream[s].live /\ stream[s].exec = row.version /\ row.state = "open"
       /\ row' = [row EXCEPT !.state = state, !.shown = question]
       /\ UNCHANGED <<asked, decision>>

EndWith(s, state, question) == Leave(s) /\ Deliver(s, state, question)
Interrupt(s, kind) == EndWith(s, "parked", [kind |-> kind, pos |-> ckpt.pos])
Terminal(s)        == EndWith(s, "over", NoQuestion)
FatalError(s)      == EndWith(s, "over", NoQuestion)
RetryableError(s)  == Leave(s) /\ UNCHANGED apiVars

------------------------------------------------------------------------------
(* The API side.                                                           *)

\* A worker streams the current execution: the first attempt or a retry.
Open(s) ==
    /\ stream[s].step = "new" /\ row.state = "open"
    /\ LiveStalls \/ \A t \in Streams : ~stream[t].live
    /\ opened' = opened + 1
    /\ stream' = [stream EXCEPT ![s] = [exec |-> row.version, step |-> "sent",
                                        live |-> TRUE, ticket |-> opened']]
    /\ UNCHANGED <<boot, ckpt, lock, apiVars, applied, crashes>>

\* The worker dies or gives the stream up; the agent has not noticed yet.
WorkerGone(s) ==
    /\ stream[s].live
    /\ stream' = [stream EXCEPT ![s].live = FALSE]
    /\ UNCHANGED <<boot, ckpt, opened, lock, apiVars, applied, crashes>>

\* The agent notices and cancels the stream, and the graph task with it.
Disconnect(s) ==
    /\ Active(s) /\ ~stream[s].live /\ Leave(s)
    /\ UNCHANGED <<boot, ckpt, opened, apiVars, applied, crashes>>

HumanAnswers ==
    /\ row.state = "parked" /\ row.version < MaxExec
    /\ LET e == row.version + 1 IN
          /\ asked' = [asked EXCEPT ![e] = row.shown]
          /\ \E d \in IF row.shown.kind = "credits" THEN CreditsAnswers ELSE {"answer"} :
                decision' = [decision EXCEPT ![e] = d]
          /\ row' = [version |-> e, state |-> "open", shown |-> NoQuestion]
    /\ UNCHANGED <<boot, ckpt, stream, opened, lock, applied, crashes>>

------------------------------------------------------------------------------
(* Getting in.                                                             *)

\* The pool and the lock both serve their waiters in order.
FirstIn(s, step) ==
    /\ stream[s].step = step
    /\ \A t \in Streams : stream[t].step = step => stream[s].ticket <= stream[t].ticket

\* execute() waits for the init and answers 503 when it failed or takes too long.
Arrive(s) ==
    /\ FirstIn(s, "sent") /\ boot = "ready"
    /\ stream' = [stream EXCEPT ![s].step = "queued"]
    /\ UNCHANGED <<boot, ckpt, opened, lock, apiVars, applied, crashes>>

Refuse(s) ==
    /\ stream[s].step = "sent" /\ boot # "ready"
    /\ RetryableError(s)
    /\ UNCHANGED <<boot, ckpt, opened, applied, crashes>>

\* _client_for_request: no key where one is required, or one that is unusable.
NoCredential(s) ==
    /\ stream[s].step = "queued" /\ FatalError(s)
    /\ UNCHANGED <<boot, ckpt, opened, applied, crashes>>

PoolFree == Cardinality({t \in Streams : stream[t].step \in HasConnection}) < PoolSize

Connect(s) ==
    /\ FirstIn(s, "queued") /\ PoolFree
    /\ stream' = [stream EXCEPT ![s].step = "locking"]
    /\ UNCHANGED <<boot, ckpt, opened, lock, apiVars, applied, crashes>>

Lock(s) ==
    /\ FirstIn(s, "locking") /\ lock = NoStream
    /\ lock' = s
    /\ stream' = [stream EXCEPT ![s].step = "load"]
    /\ UNCHANGED <<boot, ckpt, opened, apiVars, applied, crashes>>

\* Mutant: only the wait for the first connection is given a limit.
PoolTimeoutQueued(s) ==
    /\ stream[s].step = "queued" /\ ~PoolFree
    /\ RetryableError(s)
    /\ UNCHANGED <<boot, ckpt, opened, applied, crashes>>

\* Every read and write of a checkpoint takes a second connection; a stream that
\* gets none for 30 s fails, and its connection goes to the others.
PoolTimeout(s) ==
    /\ stream[s].step \in {"queued", "load", "run"} /\ ~PoolFree
    /\ RetryableError(s)
    /\ UNCHANGED <<boot, ckpt, opened, applied, crashes>>

------------------------------------------------------------------------------
(* _stream_locked: what the checkpoint and the request say together.       *)

Parked == ckpt.wait # "none"
AtRecognised == ckpt.pos \in 1..Len(Path) /\ Path[ckpt.pos] \in Recognised
ParkedOrNext == Parked \/ AtRecognised
PendingKind == IF Parked THEN ckpt.wait ELSE "gate"

Enter(s, c) == /\ ckpt' = c
               /\ stream' = [stream EXCEPT ![s].step = "run"]
               /\ UNCHANGED <<lock, apiVars>>

\* The graph's input: new values, nothing (go on from the checkpoint), or a
\* Command that stores the decision for the pending interrupt.
LoadStart(s) ==
    \/ ckpt.pos = 0 /\ Enter(s, [NoCheckpoint EXCEPT !.pos = 1, !.last = stream[s].exec])
    \/ ckpt.pos > 0 /\ ParkedOrNext /\ Interrupt(s, PendingKind) /\ UNCHANGED ckpt
    \/ ckpt.pos > 0 /\ ~ParkedOrNext /\ Enter(s, ckpt)

\* Mutant: a retried execution is taken for a fresh answer.
LoadResumeAgain(s) ==
    LET e == stream[s].exec
        mark == [ckpt EXCEPT !.last = e, !.status = "running"]
    IN  \/ ckpt.pos = 0 /\ FatalError(s) /\ UNCHANGED ckpt
        \/ ckpt.pos > 0 /\ ParkedOrNext /\ Enter(s, [mark EXCEPT !.answer = e])
        \/ /\ ckpt.pos > 0 /\ ~ParkedOrNext
           /\ Enter(s, IF decision[e] = "continue" THEN mark ELSE ckpt)

\* Mutant: a retried execution starts the graph over.
LoadResumeOver(s) ==
    LET e == stream[s].exec
        mark == [ckpt EXCEPT !.last = e, !.status = "running"]
    IN  \/ ckpt.pos = 0 /\ FatalError(s) /\ UNCHANGED ckpt
        \/ ckpt.pos > 0 /\ ckpt.last = e /\ Enter(s, [NoCheckpoint EXCEPT !.pos = 1, !.last = e])
        \/ ckpt.pos > 0 /\ ckpt.last # e /\ ParkedOrNext /\ Enter(s, [mark EXCEPT !.answer = e])
        \/ /\ ckpt.pos > 0 /\ ckpt.last # e /\ ~ParkedOrNext
           /\ Enter(s, IF decision[e] = "continue" THEN mark ELSE ckpt)

LoadResume(s) ==
    LET e == stream[s].exec
        mark == [ckpt EXCEPT !.last = e, !.status = "running"]
    IN  \/ ckpt.pos = 0 /\ FatalError(s) /\ UNCHANGED ckpt
        \/ ckpt.pos > 0 /\ ckpt.last = e /\ Enter(s, ckpt)
        \/ ckpt.pos > 0 /\ ckpt.last # e /\ ParkedOrNext /\ Enter(s, [mark EXCEPT !.answer = e])
        \/ /\ ckpt.pos > 0 /\ ckpt.last # e /\ ~ParkedOrNext
           /\ Enter(s, IF decision[e] = "continue" THEN mark ELSE ckpt)

Load(s) ==
    LET e == stream[s].exec IN
    /\ stream[s].step = "load" /\ PoolFree
    /\ IF ckpt.status = "terminal" THEN Terminal(s) /\ UNCHANGED ckpt
       ELSE IF ckpt.status = "failed" /\ decision[e] # "continue"
       THEN FatalError(s) /\ UNCHANGED ckpt
       ELSE IF e = 1 THEN LoadStart(s) ELSE LoadResume(s)
    /\ UNCHANGED <<boot, opened, applied, crashes>>

------------------------------------------------------------------------------
(* The graph under the stream.                                             *)

InGraph(s) == stream[s].step = "run" /\ PoolFree /\ ckpt.pos <= Len(Path)

\* A node completes: its checkpoint drops the interrupt and the answer it took.
CompleteNode(s) ==
    /\ InGraph(s) /\ (AtGate(ckpt.pos) => ckpt.answer # 0)
    /\ \E status \in {ckpt.status, "running", "failed", "terminal"} :
          ckpt' = [ckpt EXCEPT !.pos = @ + 1, !.status = status, !.wait = "none", !.answer = 0]
    /\ applied' = IF AtGate(ckpt.pos) THEN applied \cup {<<ckpt.answer, ckpt.pos>>} ELSE applied
    /\ UNCHANGED <<boot, stream, opened, lock, apiVars, crashes>>

\* A gate without an answer, or a model call without credits, parks the run.
ParkNode(s) ==
    /\ InGraph(s)
    /\ \/ AtGate(ckpt.pos) /\ ckpt.answer = 0
          /\ ckpt' = [ckpt EXCEPT !.wait = "gate"] /\ Interrupt(s, "gate")
       \/ ~AtGate(ckpt.pos)
          /\ ckpt' = [ckpt EXCEPT !.wait = "credits", !.answer = 0] /\ Interrupt(s, "credits")
    /\ UNCHANGED <<boot, opened, applied, crashes>>

\* An exception out of a node: credits (parks the run, leaves the checkpoint),
\* an error worth a retry, or one that is not.
RaiseInNode(s) ==
    /\ InGraph(s)
    /\ \/ ~AtGate(ckpt.pos) /\ Interrupt(s, "credits")
       \/ RetryableError(s) \/ FatalError(s)
    /\ UNCHANGED <<boot, ckpt, opened, applied, crashes>>

\* Nothing is next: the last status decides between an error and the end.
Finish(s) ==
    /\ stream[s].step = "run" /\ PoolFree /\ ckpt.pos > Len(Path)
    /\ IF ckpt.status = "failed" THEN FatalError(s) ELSE Terminal(s)
    /\ UNCHANGED <<boot, ckpt, opened, applied, crashes>>

------------------------------------------------------------------------------

\* The process restarts: its streams break, its sessions and locks end.
AgentCrash ==
    /\ crashes < MaxCrashes /\ crashes' = crashes + 1
    /\ boot' = "starting" /\ lock' = NoStream
    /\ stream' = [s \in Streams |-> IF Active(s) THEN EndedStream ELSE stream[s]]
    /\ UNCHANGED <<ckpt, opened, apiVars, applied>>

Serve(s) == \/ Arrive(s) \/ Refuse(s) \/ NoCredential(s) \/ Connect(s) \/ Lock(s)
            \/ PoolTimeout(s) \/ Load(s) \/ CompleteNode(s) \/ ParkNode(s) \/ RaiseInNode(s) \/ Finish(s)

Next == \/ \E s \in Streams : Open(s) \/ WorkerGone(s) \/ Disconnect(s) \/ Serve(s)
        \/ Boot \/ HumanAnswers \/ AgentCrash

Spec == Init /\ [][Next]_vars

\* The event loop drives every stream; nobody owes a boot that succeeds, an
\* answer, a retry or a disconnect.
Fairness == WF_vars(Boot) /\ \A s \in Streams : WF_vars(Serve(s))
FairSpec == Spec /\ Fairness
------------------------------------------------------------------------------
(* What the runtime promises.                                              *)

TypeOK ==
    /\ boot \in {"starting", "ready", "failed"}
    /\ ckpt \in Checkpoint
    /\ stream \in [Streams -> [exec : Execs, step : StreamStep, live : BOOLEAN, ticket : Nat]]
    /\ opened \in Nat
    /\ lock \in Streams \cup {NoStream}
    /\ row \in [version : Execs, state : {"open", "parked", "over"}, shown : Question]
    /\ asked \in [Execs -> Question]
    /\ decision \in [Execs -> {"start", "answer", "continue", "cancel"}]
    /\ applied \subseteq Execs \X (1..Len(Path))
    /\ crashes \in 0..MaxCrashes

\* The run's graph is driven by one stream at a time, and the lock dies with its
\* holder (the finally clauses of _stream_execution_bound): no retry waits for ever.
OneGraphAtATime == \A s \in Streams : stream[s].step \in HoldsLock <=> lock = s

\* An answer is taken by the gate it was given to, and by no other: not by the
\* next gate after a lost frame, a crash or a retry.
AnswerToItsQuestion ==
    \A a \in applied : asked[a[1]] = [kind |-> "gate", pos |-> a[2]]

\* A stream that runs the graph has a checkpoint, and a pause is at a node.
RuntimeBase ==
    /\ TypeOK /\ OneGraphAtATime
    /\ \A s \in Streams : stream[s].step = "run" => ckpt.pos # 0
    /\ ckpt.wait # "none" => ckpt.pos \in 1..Len(Path)

\* What makes answers reach their gate, as long as no worker that is alive loses
\* its job and a pause for credits is answered with "continue".  Streams pass
\* each other nowhere, and one that still has its worker is the last in line ...
Rank(s) == CASE stream[s].step = "sent" -> 1 [] stream[s].step = "queued" -> 2
             [] stream[s].step = "locking" -> 3 [] OTHER -> 4
InLine ==
    /\ \A s \in Streams : stream[s].live => Active(s) /\ stream[s].ticket = opened
    /\ \A s \in Streams : Active(s) => stream[s].ticket <= opened
    /\ \A s, t \in Streams :
          Active(s) /\ Active(t) /\ s # t /\ stream[s].ticket <= stream[t].ticket
            => stream[s].ticket < stream[t].ticket /\ Rank(s) >= Rank(t)

\* ... so that none is left of an execution whose question the human sees ...
OneExecution ==
    \A s \in Streams : Active(s) => stream[s].exec = row.version /\ row.state # "parked"

\* ... and the checkpoint stays as it was asked about until the answer is read.
PendingAt(q) == /\ q.pos = ckpt.pos /\ q.pos # 0
                /\ q.kind = IF AtGate(q.pos) THEN "gate" ELSE "credits"
                /\ q.kind = "gate" => ParkedOrNext
CheckpointInv ==
    /\ ckpt.last <= row.version /\ ckpt.answer <= ckpt.last /\ (ckpt.pos = 0 <=> ckpt.last = 0)
    /\ ckpt.wait # "none" => ckpt.wait = IF AtGate(ckpt.pos) THEN "gate" ELSE "credits"
    /\ \A s \in Streams : stream[s].step = "run" => ckpt.last = row.version
    /\ IF row.state = "parked" THEN PendingAt(row.shown) /\ ckpt.last = row.version
                               ELSE row.shown = NoQuestion
    /\ ckpt.last < row.version /\ row.version > 1 =>
          /\ PendingAt(asked[row.version])
          /\ asked[row.version].kind = "credits" => decision[row.version] \in CreditsAnswers
AnswersInv ==
    /\ row.version = 1 => ckpt.answer = 0
    /\ ckpt.answer # 0 /\ AtGate(ckpt.pos) => asked[ckpt.answer] = [kind |-> "gate", pos |-> ckpt.pos]
    /\ \A a \in applied : a[2] < ckpt.pos
    /\ \A e \in Execs : asked[e].kind = "gate" =>
          /\ e <= row.version /\ AtGate(asked[e].pos) /\ asked[e].pos <= ckpt.pos
          /\ asked[e].pos = ckpt.pos => \/ ckpt.answer # 0
                                        \/ e = row.version /\ ckpt.last < row.version
RuntimeInv ==
    /\ RuntimeBase /\ InLine /\ OneExecution
    /\ CheckpointInv /\ AnswersInv /\ AnswerToItsQuestion

\* Each gate's question is asked, answered, applied, in this order and once: what
\* the human has answered is not put to them again.
Stage(g) == IF row.shown = [kind |-> "gate", pos |-> g] THEN "asked"
            ELSE IF \E e \in Execs : <<e, g>> \in applied THEN "applied"
            ELSE IF \E e \in Execs : asked[e] = [kind |-> "gate", pos |-> g] THEN "answered"
            ELSE "ahead"
GatePositions == {p \in 1..Len(Path) : Path[p] \in Gates}
GateSpec == INSTANCE GateProtocol WITH Questions <- GatePositions,
                                       stage <- [g \in GatePositions |-> Stage(g)]
ImplementsGateProtocol == GateSpec!Spec

\* Every stream comes to an end, although waiters hold the connections the
\* holder of the lock needs.
EveryStreamEnds == \A s \in Streams : stream[s].step = "sent" ~> stream[s].step = "done"
=============================================================================
