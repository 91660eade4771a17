------------------------- MODULE AgentRuntimeProofs -------------------------
(* The streams of a run, for any number of them, of executions, connections,  *)
(* gates and crashes: one drives the graph at a time, and what the human      *)
(* answers reaches the gate that asked, once.                                 *)
EXTENDS AgentRuntime, TLAPS

AStream == [exec : Execs, step : StreamStep, live : BOOLEAN, ticket : Nat]
ARow == [version : Execs, state : {"open", "parked", "over"}, shown : Question]

LEMMA Typed ==
    TypeOK <=>
      /\ boot \in {"starting", "ready", "failed"} /\ ckpt \in Checkpoint
      /\ stream \in [Streams -> AStream] /\ opened \in Nat
      /\ lock \in Streams \cup {NoStream} /\ row \in ARow
      /\ asked \in [Execs -> Question]
      /\ decision \in [Execs -> {"start", "answer", "continue", "cancel"}]
      /\ applied \subseteq Execs \X (1..Len(Path)) /\ crashes \in 0..MaxCrashes
  BY DEF TypeOK, AStream, ARow

LEMMA Bounds ==
    /\ MaxExec \in Nat \ {0} /\ MaxCrashes \in Nat /\ Len(Path) \in Nat
    /\ NoStream \notin Streams /\ CreditsAnswers \subseteq {"continue", "cancel"}
    /\ Recognised \subseteq Gates
<1>1. Path \in Seq(STRING)
  BY RuntimeAssumption
<1> QED BY <1>1, RuntimeAssumption

\* The records the actions put into place.
LEMMA Pieces ==
    /\ EndedStream \in AStream /\ NewStream \in AStream /\ NoCheckpoint \in Checkpoint
    /\ NoQuestion \in Question
    /\ \A kind \in {"gate", "credits"}, p \in 1..Len(Path) : [kind |-> kind, pos |-> p] \in Question
<1>1. 1 \in Execs
  BY Bounds DEF Execs
<1>2. NewStream \in AStream
  BY <1>1 DEF NewStream, AStream, StreamStep
<1>3. EndedStream \in AStream
  BY <1>2 DEF EndedStream, AStream, StreamStep
<1>4. NoCheckpoint \in Checkpoint
  BY Bounds DEF NoCheckpoint, Checkpoint
<1> QED BY <1>2, <1>3, <1>4 DEF Question, NoQuestion

\* The checkpoints the actions make of another.
LEMMA CheckpointFields ==
    ASSUME NEW c \in Checkpoint, NEW p \in 0..(Len(Path) + 1),
           NEW status \in {"running", "failed", "terminal"}, NEW l \in 0..MaxExec,
           NEW w \in {"none", "gate", "credits"}, NEW a \in 0..MaxExec
    PROVE  /\ [c EXCEPT !.pos = p, !.status = status, !.wait = w, !.answer = a] \in Checkpoint
           /\ [c EXCEPT !.last = l, !.status = status] \in Checkpoint
           /\ [c EXCEPT !.wait = w, !.answer = a] \in Checkpoint
           /\ [c EXCEPT !.wait = w] \in Checkpoint
           /\ [c EXCEPT !.answer = a] \in Checkpoint
           /\ [c EXCEPT !.pos = p, !.last = l] \in Checkpoint
  BY DEF Checkpoint

LEMMA Indices == /\ 0 \in 0..MaxExec /\ (\A e \in Execs : e \in 0..MaxExec /\ e # 0)
                 /\ 1 \in 0..(Len(Path) + 1)
  BY Bounds DEF Execs

-----------------------------------------------------------------------------
(* What holds whatever the workers do.                                       *)

\* What no action does to the variables it only fills in.
Plain == /\ boot' \in {"starting", "ready", "failed"} /\ opened' \in Nat
         /\ row' \in ARow /\ asked' \in [Execs -> Question]
         /\ decision' \in [Execs -> {"start", "answer", "continue", "cancel"}]
         /\ applied' \subseteq Execs \X (1..Len(Path)) /\ crashes' \in 0..MaxCrashes

\* A checkpoint that streams in the graph can go on from.
Usable(c) == /\ c \in Checkpoint /\ (ckpt.pos # 0 => c.pos # 0)
             /\ c.wait # "none" => c.pos \in 1..Len(Path)

\* One stream moves on, the lock with it.
LEMMA MoveBase ==
    ASSUME RuntimeBase, Plain, Usable(ckpt'), NEW s \in Streams, NEW x \in AStream,
           stream' = [stream EXCEPT ![s] = x], lock' \in Streams \cup {NoStream},
           x.step \in HoldsLock <=> lock' = s,
           \A t \in Streams \ {s} : lock' = t <=> lock = t,
           x.step = "run" => ckpt'.pos # 0
    PROVE  RuntimeBase'
<1>1. stream' \in [Streams -> AStream] /\ \A t \in Streams : stream'[t] = IF t = s THEN x ELSE stream[t]
  BY Typed DEF RuntimeBase
<1>2. TypeOK'
  BY ONLY <1>1, Plain, Usable(ckpt'), lock' \in Streams \cup {NoStream}
     DEF TypeOK, AStream, ARow, Plain, Usable
<1>3. OneGraphAtATime'
  BY <1>1 DEF OneGraphAtATime, RuntimeBase
<1>4. \A t \in Streams : stream'[t].step = "run" => ckpt'.pos # 0
  BY <1>1 DEF RuntimeBase, Usable
<1> QED BY <1>2, <1>3, <1>4 DEF RuntimeBase, Usable

LEMMA PlainHolds == RuntimeBase => Usable(ckpt)
  BY Typed DEF RuntimeBase, Usable

\* A stream's record when one of its fields changes.
LEMMA OneField ==
    ASSUME RuntimeBase, NEW s \in Streams
    PROVE  /\ \A st \in StreamStep : /\ [stream[s] EXCEPT !.step = st] \in AStream
                                     /\ [stream[s] EXCEPT !.step = st].step = st
           /\ [stream[s] EXCEPT !.live = FALSE] \in AStream
           /\ [stream[s] EXCEPT !.live = FALSE].step = stream[s].step
<1>1. stream[s] \in AStream
  BY Typed DEF RuntimeBase
<1> QED BY ONLY <1>1 DEF AStream

\* A stream leaves, with or without a frame.
LEMMA LeaveBase ==
    ASSUME RuntimeBase, NEW s \in Streams, Leave(s), Plain, Usable(ckpt')
    PROVE  RuntimeBase'
<1>1. EndedStream.step = "done"
  BY DEF EndedStream, NewStream
<1> QED BY <1>1, MoveBase, Pieces, Typed, Bounds DEF Leave, HoldsLock, RuntimeBase

\* A frame changes the row or nothing.
LEMMA Frame ==
    ASSUME RuntimeBase, NEW s \in Streams, NEW q \in Question,
           NEW state \in {"parked", "over"}, Deliver(s, state, q)
    PROVE  /\ row' \in ARow /\ asked' = asked /\ decision' = decision
<1>1. row \in ARow
  BY Typed DEF RuntimeBase
<1>2. row' = row \/ row' = [row EXCEPT !.state = state, !.shown = q]
  BY DEF Deliver, apiVars
<1>3. row' \in ARow
  BY ONLY <1>1, <1>2, q \in Question, state \in {"parked", "over"} DEF ARow
<1> QED BY <1>3 DEF Deliver, apiVars

LEMMA EndBase ==
    ASSUME RuntimeBase, NEW s \in Streams, Usable(ckpt'), boot' = boot, opened' = opened,
           applied' = applied, crashes' = crashes,
           \/ RetryableError(s) \/ FatalError(s) \/ Terminal(s)
           \/ \E kind \in {"gate", "credits"} : ckpt.pos \in 1..Len(Path) /\ Interrupt(s, kind)
    PROVE  RuntimeBase'
<1>1. Leave(s) /\ row' \in ARow /\ asked' = asked /\ decision' = decision
  <2>1. CASE RetryableError(s)
    BY <2>1, Typed DEF RetryableError, apiVars, RuntimeBase
  <2>2. CASE FatalError(s) \/ Terminal(s)
    BY <2>2, Frame, Pieces DEF FatalError, Terminal, EndWith
  <2>3. CASE \E kind \in {"gate", "credits"} : ckpt.pos \in 1..Len(Path) /\ Interrupt(s, kind)
    BY <2>3, Frame, Pieces DEF Interrupt, EndWith
  <2> QED BY <2>1, <2>2, <2>3
<1>2. Plain
  BY <1>1, Typed DEF Plain, RuntimeBase
<1> QED BY <1>1, <1>2, LeaveBase

LEMMA MoveOnlyBase ==
    ASSUME RuntimeBase, NEW s \in Streams, NEW step \in StreamStep \ {"run"},
           stream' = [stream EXCEPT ![s].step = step],
           lock' \in Streams \cup {NoStream}, step \in HoldsLock <=> lock' = s,
           \A t \in Streams \ {s} : lock' = t <=> lock = t,
           UNCHANGED <<boot, ckpt, opened, apiVars, applied, crashes>>
    PROVE  RuntimeBase'
<1>1. Plain
  BY Typed DEF Plain, RuntimeBase, apiVars
<1>2. PICK x \in AStream : x.step = step /\ stream' = [stream EXCEPT ![s] = x]
  BY OneField
<1>3. Usable(ckpt')
  BY PlainHolds DEF Usable
<1> QED BY <1>1, <1>2, <1>3, MoveBase

\* A stream enters the graph with a checkpoint c.
LEMMA EnterBase ==
    ASSUME RuntimeBase, NEW s \in Streams, stream[s].step = "load",
           NEW c, Enter(s, c), Usable(c), c.pos # 0,
           UNCHANGED <<boot, opened, applied, crashes>>
    PROVE  RuntimeBase'
<1>1. Plain
  BY Typed DEF Plain, RuntimeBase, Enter, apiVars
<1>2. PICK x \in AStream : x.step = "run" /\ stream' = [stream EXCEPT ![s] = x]
  BY OneField DEF Enter, StreamStep
<1>3. lock = s
  BY DEF RuntimeBase, OneGraphAtATime, HoldsLock
<1> QED BY <1>1, <1>2, <1>3, MoveBase, Typed DEF Enter, RuntimeBase, HoldsLock

LEMMA LoadBase ==
    ASSUME RuntimeBase, NEW s \in Streams, Load(s)
    PROVE  RuntimeBase'
<1> DEFINE e == stream[s].exec
           mark == [ckpt EXCEPT !.last = e, !.status = "running"]
<1>0. stream[s].step = "load" /\ UNCHANGED <<boot, opened, applied, crashes>>
  BY DEF Load
<1>1. ckpt \in Checkpoint /\ e \in Execs /\ Usable(ckpt) /\ ckpt.pos \in 0..(Len(Path) + 1)
  BY PlainHolds, Typed DEF RuntimeBase, AStream, Checkpoint
<1>2. Usable(mark) /\ mark.pos = ckpt.pos
  <2>1. mark \in Checkpoint
    BY <1>1, CheckpointFields, Indices
  <2>2. mark.pos = ckpt.pos /\ mark.wait = ckpt.wait
    BY <1>1 DEF Checkpoint
  <2> QED BY <1>1, <2>1, <2>2 DEF Usable
<1>3. Usable([mark EXCEPT !.answer = e]) /\ [mark EXCEPT !.answer = e].pos = ckpt.pos
  <2> HIDE DEF mark
  <2>1. [mark EXCEPT !.answer = e] \in Checkpoint /\ mark \in Checkpoint
    BY <1>1, <1>2, CheckpointFields, Indices DEF Usable
  <2>2. [mark EXCEPT !.answer = e].pos = mark.pos /\ [mark EXCEPT !.answer = e].wait = mark.wait
    BY <2>1 DEF Checkpoint
  <2> QED BY <1>2, <2>1, <2>2 DEF Usable
<1>4. [NoCheckpoint EXCEPT !.pos = 1, !.last = e] \in Checkpoint
  BY <1>1, Pieces, CheckpointFields, Indices
<1>5. LET c == [NoCheckpoint EXCEPT !.pos = 1, !.last = e] IN Usable(c) /\ c.pos # 0
  BY ONLY <1>4 DEF Usable, NoCheckpoint
<1> HIDE DEF mark
<1>6. ASSUME ParkedOrNext PROVE PendingKind \in {"gate", "credits"} /\ ckpt.pos \in 1..Len(Path)
  BY <1>1, <1>6 DEF ParkedOrNext, PendingKind, Parked, AtRecognised, Usable, Checkpoint
<1>7. CASE Terminal(s) /\ UNCHANGED ckpt
  BY <1>0, <1>1, <1>7, EndBase
<1>8. CASE FatalError(s) /\ UNCHANGED ckpt
  BY <1>0, <1>1, <1>8, EndBase
<1>9. CASE LoadStart(s)
  <2>1. CASE ckpt.pos = 0 /\ Enter(s, [NoCheckpoint EXCEPT !.pos = 1, !.last = stream[s].exec])
    BY <2>1, <1>0, <1>5, EnterBase
  <2>2. CASE ckpt.pos > 0 /\ ParkedOrNext /\ Interrupt(s, PendingKind) /\ UNCHANGED ckpt
    BY <2>2, <1>0, <1>1, <1>6, EndBase
  <2>3. CASE ckpt.pos > 0 /\ ~ParkedOrNext /\ Enter(s, ckpt)
    BY <2>3, <1>0, <1>1, EnterBase
  <2> QED BY <1>9, <2>1, <2>2, <2>3 DEF LoadStart
<1>10. CASE LoadResume(s)
  <2>1. CASE ckpt.pos > 0 /\ Enter(s, ckpt)
    BY <2>1, <1>0, <1>1, EnterBase
  <2>2. CASE ckpt.pos > 0 /\ Enter(s, [mark EXCEPT !.answer = e])
    <3> DEFINE c == [mark EXCEPT !.answer = e]
    <3>1. Usable(c) /\ c.pos # 0 /\ Enter(s, c)
      BY <2>2, <1>1, <1>3
    <3> HIDE DEF c
    <3> QED BY <3>1, <1>0, EnterBase
  <2>3. CASE ckpt.pos > 0 /\ Enter(s, mark)
    BY <2>3, <1>0, <1>1, <1>2, EnterBase
  <2> QED BY <1>8, <1>10, <2>1, <2>2, <2>3 DEF LoadResume, mark
<1> QED BY <1>7, <1>8, <1>9, <1>10 DEF Load

LEMMA NodeBase ==
    ASSUME RuntimeBase, NEW s \in Streams, CompleteNode(s) \/ ParkNode(s)
    PROVE  RuntimeBase'
<1>1. ckpt \in Checkpoint /\ ckpt.pos \in 1..Len(Path) /\ ckpt.answer \in 0..MaxExec
  BY Typed, Bounds DEF RuntimeBase, CompleteNode, ParkNode, InGraph, Checkpoint
<1>2. CASE CompleteNode(s)
  <2>1. PICK status \in {ckpt.status, "running", "failed", "terminal"} :
          ckpt' = [ckpt EXCEPT !.pos = @ + 1, !.status = status, !.wait = "none", !.answer = 0]
    BY <1>2 DEF CompleteNode
  <2>2. ckpt' \in Checkpoint /\ ckpt'.wait = "none" /\ ckpt'.pos # 0
    <3>1. /\ ckpt.pos + 1 \in 0..(Len(Path) + 1) /\ ckpt.pos + 1 # 0
          /\ status \in {"running", "failed", "terminal"}
      BY <1>1, Bounds DEF Checkpoint
    <3>2. ckpt' = [ckpt EXCEPT !.pos = ckpt.pos + 1, !.status = status, !.wait = "none", !.answer = 0]
      BY <2>1
    <3>3. ckpt' \in Checkpoint
      BY <1>1, <3>1, <3>2, CheckpointFields, Indices
    <3> QED BY <1>1, <3>1, <3>2, <3>3 DEF Checkpoint
  <2>3. applied' \subseteq Execs \X (1..Len(Path))
    <3>1. AtGate(ckpt.pos) => ckpt.answer \in Execs
      BY <1>1, <1>2, Bounds DEF CompleteNode, Execs
    <3> QED BY <1>1, <3>1, <1>2, Typed DEF CompleteNode, RuntimeBase
  <2>4. UNCHANGED <<boot, stream, opened, lock, apiVars, crashes>>
    BY <1>2 DEF CompleteNode
  <2>5. TypeOK'
    BY <2>2, <2>3, <2>4, Typed DEF TypeOK, RuntimeBase, AStream, ARow, apiVars
  <2> QED BY <2>2, <2>4, <2>5 DEF RuntimeBase, OneGraphAtATime
<1>3. CASE ParkNode(s)
  <2>1. \/ ckpt' = [ckpt EXCEPT !.wait = "gate"] /\ Interrupt(s, "gate")
        \/ ckpt' = [ckpt EXCEPT !.wait = "credits", !.answer = 0] /\ Interrupt(s, "credits")
    BY <1>3 DEF ParkNode
  <2>2. ckpt' \in Checkpoint /\ ckpt'.pos = ckpt.pos
    <3>1. ckpt' \in Checkpoint
      <4> DEFINE asking == [ckpt EXCEPT !.wait = "gate"]
                 broke == [ckpt EXCEPT !.wait = "credits", !.answer = 0]
      <4>1. asking \in Checkpoint /\ broke \in Checkpoint
        BY <1>1, CheckpointFields, Indices
      <4>2. ckpt' = asking \/ ckpt' = broke
        BY <2>1
      <4> HIDE DEF asking, broke
      <4> QED BY <4>1, <4>2
    <3> QED BY <1>1, <2>1, <3>1 DEF Checkpoint
  <2>3. Usable(ckpt')
    BY <1>1, <2>2 DEF Usable
  <2> QED BY <1>1, <1>3, <2>1, <2>3, EndBase DEF ParkNode
<1> QED BY <1>2, <1>3

\* The ways out that leave the checkpoint alone.
LEMMA LeavingBase ==
    ASSUME RuntimeBase, NEW s \in Streams,
           Refuse(s) \/ NoCredential(s) \/ PoolTimeout(s) \/ RaiseInNode(s) \/ Finish(s) \/ Disconnect(s)
    PROVE  RuntimeBase'
<1>1. Usable(ckpt') /\ UNCHANGED <<boot, ckpt, opened, applied, crashes>>
  BY PlainHolds DEF Refuse, NoCredential, PoolTimeout, RaiseInNode, Finish, Disconnect, Usable
<1>2. CASE RaiseInNode(s)
  <2>1. ckpt.pos \in 1..Len(Path)
    BY <1>2, Typed, Bounds DEF RaiseInNode, InGraph, RuntimeBase, Checkpoint
  <2> QED BY <1>1, <1>2, <2>1, EndBase DEF RaiseInNode
<1>3. CASE Disconnect(s)
  BY <1>1, <1>3, EndBase DEF Disconnect, RetryableError
<1> QED BY <1>1, <1>2, <1>3, EndBase DEF Refuse, NoCredential, PoolTimeout, Finish

LEMMA InBase ==
    ASSUME RuntimeBase, NEW s \in Streams, Arrive(s) \/ Connect(s) \/ Lock(s)
    PROVE  RuntimeBase'
<1>0. lock \in Streams \cup {NoStream} /\ NoStream \notin Streams
  BY Typed, Bounds DEF RuntimeBase
<1>1. CASE Arrive(s)
  <2>1. lock # s
    BY <1>1 DEF Arrive, FirstIn, RuntimeBase, OneGraphAtATime, HoldsLock
  <2>2. /\ stream' = [stream EXCEPT ![s].step = "queued"]
        /\ UNCHANGED <<boot, ckpt, opened, lock, apiVars, applied, crashes>>
    BY <1>1 DEF Arrive
  <2>3. "queued" \in StreamStep \ {"run"} /\ "queued" \notin HoldsLock
    BY DEF StreamStep, HoldsLock
  <2> QED BY <1>0, <2>1, <2>2, <2>3, MoveOnlyBase
<1>2. CASE Connect(s)
  <2>1. lock # s
    BY <1>2 DEF Connect, FirstIn, RuntimeBase, OneGraphAtATime, HoldsLock
  <2>2. /\ stream' = [stream EXCEPT ![s].step = "locking"]
        /\ UNCHANGED <<boot, ckpt, opened, lock, apiVars, applied, crashes>>
    BY <1>2 DEF Connect
  <2>3. "locking" \in StreamStep \ {"run"} /\ "locking" \notin HoldsLock
    BY DEF StreamStep, HoldsLock
  <2> QED BY <1>0, <2>1, <2>2, <2>3, MoveOnlyBase
<1>3. CASE Lock(s)
  BY <1>0, <1>3, MoveOnlyBase DEF Lock, HoldsLock, StreamStep
<1> QED BY <1>1, <1>2, <1>3

LEMMA OutsideBase ==
    ASSUME RuntimeBase,
           \/ \E s \in Streams : Open(s) \/ WorkerGone(s)
           \/ Boot \/ HumanAnswers \/ AgentCrash
    PROVE  RuntimeBase'
<1>1. CASE \E s \in Streams : Open(s)
  <2>1. PICK s \in Streams : Open(s)
    BY <1>1
  <2> DEFINE x == [exec |-> row.version, step |-> "sent", live |-> TRUE, ticket |-> opened']
  <2>2. opened \in Nat /\ opened' = opened + 1 /\ row.version \in Execs
    BY <2>1, Typed DEF Open, RuntimeBase, ARow
  <2>3. x \in AStream /\ x.step = "sent"
    BY ONLY <2>2 DEF AStream, StreamStep
  <2>4. stream' = [stream EXCEPT ![s] = x] /\ UNCHANGED <<boot, ckpt, lock, apiVars, applied, crashes>>
    BY <2>1 DEF Open
  <2>5. lock # s /\ lock \in Streams \cup {NoStream}
    BY <2>1, Typed DEF Open, RuntimeBase, OneGraphAtATime, HoldsLock
  <2> HIDE DEF x
  <2>6. Plain
    BY <2>2, <2>4, Typed DEF Plain, RuntimeBase, apiVars
  <2> QED BY <2>3, <2>4, <2>5, <2>6, PlainHolds, MoveBase DEF HoldsLock, Usable
<1>2. CASE \E s \in Streams : WorkerGone(s)
  <2>1. PICK s \in Streams : WorkerGone(s)
    BY <1>2
  <2>2. PICK x \in AStream : x.step = stream[s].step /\ stream' = [stream EXCEPT ![s] = x]
    BY <2>1, OneField DEF WorkerGone
  <2>3. UNCHANGED <<boot, ckpt, opened, lock, apiVars, applied, crashes>>
    BY <2>1 DEF WorkerGone
  <2>4. Plain /\ lock \in Streams \cup {NoStream}
    BY <2>3, Typed DEF Plain, RuntimeBase, apiVars
  <2> QED BY <2>2, <2>3, <2>4, PlainHolds, MoveBase DEF RuntimeBase, OneGraphAtATime, Usable
<1>3. CASE Boot
  <2>1. TypeOK'
    BY <1>3, Typed DEF Boot, TypeOK, RuntimeBase, AStream, ARow, apiVars
  <2> QED BY <1>3, <2>1 DEF Boot, RuntimeBase, OneGraphAtATime
<1>4. CASE HumanAnswers
  <2>1. row \in ARow /\ row.version + 1 \in Execs /\ row.shown \in Question
    BY <1>4, Typed, Bounds DEF HumanAnswers, RuntimeBase, ARow, Execs
  <2>2. /\ asked' = [asked EXCEPT ![row.version + 1] = row.shown]
        /\ row' = [version |-> row.version + 1, state |-> "open", shown |-> NoQuestion]
        /\ UNCHANGED <<boot, ckpt, stream, opened, lock, applied, crashes>>
    BY <1>4 DEF HumanAnswers
  <2>3. PICK d \in CreditsAnswers \cup {"answer"} : decision' = [decision EXCEPT ![row.version + 1] = d]
    BY <1>4 DEF HumanAnswers
  <2>4. row' \in ARow
    BY ONLY <2>1, <2>2, Pieces DEF ARow
  <2>5. TypeOK'
    BY <2>1, <2>2, <2>3, <2>4, Typed, Bounds DEF TypeOK, RuntimeBase, AStream, ARow
  <2> QED BY <2>2, <2>5 DEF RuntimeBase, OneGraphAtATime
<1>5. CASE AgentCrash
  <2>1. /\ lock' = NoStream /\ UNCHANGED <<ckpt, opened, apiVars, applied>>
        /\ boot' = "starting" /\ crashes' \in 0..MaxCrashes
        /\ stream' = [s \in Streams |-> IF Active(s) THEN EndedStream ELSE stream[s]]
    BY <1>5, Typed, Bounds DEF AgentCrash, RuntimeBase
  <2>2. stream' \in [Streams -> AStream] /\ EndedStream.step = "done"
    BY <2>1, Pieces, Typed DEF RuntimeBase, EndedStream, NewStream
  <2>3. TypeOK'
    BY <2>1, <2>2, Typed DEF TypeOK, RuntimeBase, AStream, ARow, apiVars
  <2>4. \A s \in Streams : stream'[s].step \notin {"load", "run"}
    BY <2>1, <2>2 DEF Active
  <2> QED BY <2>1, <2>3, <2>4, Bounds DEF RuntimeBase, OneGraphAtATime, HoldsLock
<1> QED BY <1>1, <1>2, <1>3, <1>4, <1>5

LEMMA BaseStep == RuntimeBase /\ [Next]_vars => RuntimeBase'
<1> SUFFICES ASSUME RuntimeBase, [Next]_vars PROVE RuntimeBase'
  OBVIOUS
<1>1. CASE UNCHANGED vars
  BY <1>1 DEF vars, apiVars, RuntimeBase, TypeOK, OneGraphAtATime, Execs, Question, Checkpoint
<1>2. CASE Next
  BY <1>2, LoadBase, NodeBase, LeavingBase, InBase, OutsideBase DEF Next, Serve
<1> QED BY <1>1, <1>2

LEMMA BaseInit == Init => RuntimeBase
<1> SUFFICES ASSUME Init PROVE RuntimeBase
  OBVIOUS
<1>1. 1 \in Execs /\ NewStream.step = "new" /\ NoCheckpoint.wait = "none"
  BY Bounds DEF Execs, NewStream, NoCheckpoint
<1>2. row \in ARow
  BY <1>1, Pieces DEF Init, ARow
<1>3. TypeOK
  BY <1>1, <1>2, Pieces, Bounds, Typed DEF Init
<1> QED BY <1>1, <1>3, Bounds DEF Init, RuntimeBase, OneGraphAtATime, HoldsLock

LEMMA BaseInvariance == Spec => []RuntimeBase
  BY BaseInit, BaseStep, PTL DEF Spec

\* The variables have their types: every checkpoint, record of a stream and
\* frame is one the code builds (_stream_locked, _stream_graph, execute).
THEOREM RuntimeTypeCorrect == Spec => []TypeOK
<1>1. RuntimeBase => TypeOK
  BY DEF RuntimeBase
<1> QED BY <1>1, BaseInvariance, PTL

\* However many streams, workers that die, retries and crashes: whoever is past
\* the advisory lock holds it, and it is held by a stream that is there.
THEOREM GraphsRunAlone == Spec => []OneGraphAtATime
<1>1. RuntimeBase => OneGraphAtATime
  BY DEF RuntimeBase
<1> QED BY <1>1, BaseInvariance, PTL

-----------------------------------------------------------------------------
(* What the steps do to what the answers depend on.                          *)

\* A stream leaves: nothing else moves but what its frame says of the row.
Ends(s) == /\ Active(s) /\ Leave(s) /\ UNCHANGED <<ckpt, opened, applied>>
           /\ Deliver(s, "over", NoQuestion) \/ UNCHANGED apiVars

\* A stream leaves with a question, put by the node the checkpoint is at.
KindHere == IF AtGate(ckpt.pos) THEN "gate" ELSE "credits"
Parks(s) == /\ stream[s].step \in HoldsLock /\ Leave(s) /\ UNCHANGED <<opened, applied>>
            /\ ckpt.pos \in 1..Len(Path) /\ ckpt.last = row.version
            /\ Deliver(s, "parked", [kind |-> KindHere, pos |-> ckpt.pos])
            /\ AtGate(ckpt.pos) => ckpt.answer = 0 /\ ParkedOrNext'
            /\ ckpt'.pos = ckpt.pos /\ ckpt'.last = ckpt.last
            /\ ckpt'.wait \in {ckpt.wait, KindHere}
            /\ ckpt'.answer \in IF AtGate(ckpt.pos) THEN {ckpt.answer} ELSE {ckpt.answer, 0}

\* A stream gets further, in its turn.
Moves(s) == /\ \/ FirstIn(s, "sent") /\ stream' = [stream EXCEPT ![s].step = "queued"]
               \/ FirstIn(s, "queued") /\ stream' = [stream EXCEPT ![s].step = "locking"]
               \/ FirstIn(s, "locking") /\ stream' = [stream EXCEPT ![s].step = "load"]
            /\ UNCHANGED <<ckpt, opened, apiVars, applied>>

\* A stream enters the graph: at the start, as the checkpoint stands, with the
\* answer the pending interrupt waits for, or past a pause for credits.
Enters(s) ==
    /\ stream[s].step = "load" /\ stream' = [stream EXCEPT ![s].step = "run"]
    /\ UNCHANGED <<opened, apiVars, applied>> /\ ckpt'.last = row.version
    /\ \/ /\ ckpt.pos = 0 /\ row.version = 1
          /\ ckpt'.pos = 1 /\ ckpt'.wait = "none" /\ ckpt'.answer = 0
       \/ ckpt.pos # 0 /\ ckpt' = ckpt
       \/ /\ ckpt.pos # 0 /\ ckpt.last < row.version /\ row.version > 1
          /\ ckpt'.pos = ckpt.pos /\ ckpt'.wait = ckpt.wait
          /\ \/ ckpt'.answer = row.version
             \/ ~ParkedOrNext /\ ckpt'.answer = ckpt.answer

Completes(s) ==
    /\ stream[s].step = "run" /\ UNCHANGED <<stream, opened, apiVars>>
    /\ ckpt.pos \in 1..Len(Path) /\ (AtGate(ckpt.pos) => ckpt.answer # 0)
    /\ ckpt'.pos = ckpt.pos + 1 /\ ckpt'.last = ckpt.last
    /\ ckpt'.wait = "none" /\ ckpt'.answer = 0
    /\ applied' = IF AtGate(ckpt.pos) THEN applied \cup {<<ckpt.answer, ckpt.pos>>} ELSE applied

Still == UNCHANGED <<ckpt, stream, opened, apiVars, applied>>

Patient == ~LiveStalls /\ CreditsAnswers \subseteq {"continue"}

\* Where the invariant puts an active stream that has the lock.
LEMMA Holder ==
    ASSUME RuntimeInv, NEW s \in Streams, stream[s].step \in HoldsLock
    PROVE  /\ lock = s /\ Active(s) /\ Rank(s) = 4
           /\ stream[s].exec = row.version /\ row.state # "parked" /\ row.shown = NoQuestion
  BY DEF RuntimeInv, RuntimeBase, OneGraphAtATime, OneExecution, CheckpointInv, HoldsLock, Active, Rank

LEMMA Fields ==
    ASSUME RuntimeBase
    PROVE  /\ ckpt \in Checkpoint /\ ckpt.pos \in 0..(Len(Path) + 1) /\ ckpt.last \in 0..MaxExec
           /\ ckpt.answer \in 0..MaxExec /\ ckpt.wait \in {"none", "gate", "credits"}
           /\ row.version \in 1..MaxExec /\ row.version \in Execs
           /\ ckpt.pos \in Nat /\ ckpt.last \in Nat /\ ckpt.answer \in Nat /\ row.version \in Nat
  BY Typed, Bounds DEF RuntimeBase, Checkpoint, ARow, Execs

LEMMA LoadKinds ==
    ASSUME RuntimeInv, Patient, NEW s \in Streams, Load(s)
    PROVE  Ends(s) \/ Parks(s) \/ Enters(s)
<1> DEFINE e == stream[s].exec
           mark == [ckpt EXCEPT !.last = e, !.status = "running"]
<1>0. /\ stream[s].step = "load" /\ stream[s].step \in HoldsLock
      /\ UNCHANGED <<boot, opened, applied, crashes>>
  BY DEF Load, HoldsLock
<1>1. e = row.version /\ Active(s)
  BY <1>0, Holder
<1>2. CASE Terminal(s) /\ UNCHANGED ckpt
  BY <1>0, <1>1, <1>2 DEF Terminal, EndWith, Ends
<1>3. CASE FatalError(s) /\ UNCHANGED ckpt
  BY <1>0, <1>1, <1>3 DEF FatalError, EndWith, Ends
<1>4. /\ ckpt \in Checkpoint /\ ckpt.pos \in Nat /\ row.version \in Nat \ {0}
      /\ ckpt.last \in Nat /\ ckpt.last <= row.version /\ (ckpt.pos = 0 <=> ckpt.last = 0)
  BY Fields DEF RuntimeInv, CheckpointInv
<1>5. CASE e = 1 /\ LoadStart(s)
  <2>1. CASE ckpt.pos = 0 /\ Enter(s, [NoCheckpoint EXCEPT !.pos = 1, !.last = e])
    BY <2>1, <1>0, <1>1, <1>5 DEF Enters, Enter, NoCheckpoint
  <2>2. CASE ckpt.pos > 0 /\ ~ParkedOrNext /\ Enter(s, ckpt)
    BY <2>2, <1>0, <1>1, <1>4, <1>5 DEF Enters, Enter
  <2>3. CASE ckpt.pos > 0 /\ ParkedOrNext /\ Interrupt(s, PendingKind) /\ UNCHANGED ckpt
    <3>1. ckpt.pos \in 1..Len(Path) /\ PendingKind = KindHere
      BY <2>3, Bounds DEF RuntimeInv, RuntimeBase, CheckpointInv, ParkedOrNext, PendingKind,
         KindHere, Parked, AtRecognised, AtGate
    <3>2. ckpt.last = row.version /\ ckpt.answer = 0
      BY <2>3, <1>1, <1>4, <1>5 DEF RuntimeInv, AnswersInv
    <3>3. ParkedOrNext'
      BY <2>3 DEF ParkedOrNext, Parked, AtRecognised
    <3> QED BY <2>3, <3>1, <3>2, <3>3, <1>0 DEF Parks, Interrupt, EndWith
  <2> QED BY <1>5, <2>1, <2>2, <2>3 DEF LoadStart
<1>6. CASE e # 1 /\ LoadResume(s)
  <2>1. CASE ckpt.pos > 0 /\ ckpt.last = e /\ Enter(s, ckpt)
    BY <2>1, <1>0, <1>1, <1>4 DEF Enters, Enter
  <2>2. /\ mark.last = e /\ mark.pos = ckpt.pos /\ mark.wait = ckpt.wait /\ mark.answer = ckpt.answer
        /\ mark = [mark EXCEPT !.answer = mark.answer]
    BY <1>4 DEF Checkpoint
  <2>3. LET c == [mark EXCEPT !.answer = e] IN
          c.last = e /\ c.pos = ckpt.pos /\ c.wait = ckpt.wait /\ c.answer = e
    BY <1>4 DEF Checkpoint
  <2> HIDE DEF mark
  <2>4. CASE ckpt.pos > 0 /\ ckpt.last # e /\ ParkedOrNext /\ Enter(s, [mark EXCEPT !.answer = e])
    BY <2>3, <2>4, <1>0, <1>1, <1>4, <1>6 DEF Enters, Enter
  <2>5. CASE /\ ckpt.pos > 0 /\ ckpt.last # e /\ ~ParkedOrNext
             /\ Enter(s, IF decision[e] = "continue" THEN mark ELSE ckpt)
    <3>1. ckpt.last < row.version /\ row.version > 1
      BY <2>5, <1>1, <1>4, <1>6
    <3>2. decision[e] = "continue"
      BY <3>1, <2>5, <1>1 DEF RuntimeInv, CheckpointInv, PendingAt, Patient
    <3> QED BY <2>2, <2>5, <3>1, <3>2, <1>0, <1>1, <1>4 DEF Enters, Enter
  <2> QED BY <1>3, <1>6, <2>1, <2>4, <2>5 DEF LoadResume, mark
<1> QED BY <1>2, <1>3, <1>5, <1>6 DEF Load

LEMMA NodeKinds ==
    ASSUME RuntimeInv, NEW s \in Streams,
           CompleteNode(s) \/ ParkNode(s) \/ RaiseInNode(s) \/ Finish(s)
    PROVE  Ends(s) \/ Parks(s) \/ Completes(s)
<1>1. stream[s].step = "run" /\ stream[s].step \in HoldsLock
  BY DEF CompleteNode, ParkNode, RaiseInNode, Finish, InGraph, HoldsLock
<1>2. Active(s) /\ ckpt.last = row.version /\ ckpt.pos # 0
  BY <1>1, Holder DEF RuntimeInv, RuntimeBase, CheckpointInv
<1>3. ckpt \in Checkpoint /\ ckpt.pos \in Nat
  BY Fields DEF RuntimeInv
<1>4. ASSUME InGraph(s) PROVE ckpt.pos \in 1..Len(Path)
  BY <1>2, <1>3, <1>4, Bounds DEF InGraph
<1>5. CASE CompleteNode(s)
  BY <1>1, <1>3, <1>4, <1>5 DEF CompleteNode, Completes, Checkpoint
<1>6. CASE ParkNode(s)
  <2>1. CASE /\ AtGate(ckpt.pos) /\ ckpt.answer = 0
             /\ ckpt' = [ckpt EXCEPT !.wait = "gate"] /\ Interrupt(s, "gate")
    <3>1. ckpt'.pos = ckpt.pos /\ ckpt'.last = ckpt.last /\ ckpt'.wait = "gate" /\ ckpt'.answer = ckpt.answer
      BY <2>1, <1>3 DEF Checkpoint
    <3>2. ParkedOrNext' /\ KindHere = "gate"
      BY <3>1, <2>1 DEF ParkedOrNext, Parked, KindHere
    <3> QED BY <3>1, <3>2, <2>1, <1>1, <1>2, <1>4, <1>6 DEF ParkNode, Parks, Interrupt, EndWith
  <2>2. CASE /\ ~AtGate(ckpt.pos)
             /\ ckpt' = [ckpt EXCEPT !.wait = "credits", !.answer = 0] /\ Interrupt(s, "credits")
    <3>1. ckpt'.pos = ckpt.pos /\ ckpt'.last = ckpt.last /\ ckpt'.wait = "credits" /\ ckpt'.answer = 0
      BY <2>2, <1>3 DEF Checkpoint
    <3>2. KindHere = "credits"
      BY <2>2 DEF KindHere
    <3> QED BY <3>1, <3>2, <2>2, <1>1, <1>2, <1>4, <1>6 DEF ParkNode, Parks, Interrupt, EndWith
  <2> QED BY <1>6, <2>1, <2>2 DEF ParkNode
<1>7. CASE RaiseInNode(s)
  <2>1. CASE ~AtGate(ckpt.pos) /\ Interrupt(s, "credits")
    BY <2>1, <1>1, <1>2, <1>4, <1>7 DEF RaiseInNode, Parks, Interrupt, EndWith, KindHere
  <2>2. CASE RetryableError(s) \/ FatalError(s)
    BY <2>2, <1>2, <1>7 DEF RaiseInNode, Ends, RetryableError, FatalError, EndWith
  <2> QED BY <1>7, <2>1, <2>2 DEF RaiseInNode
<1>8. CASE Finish(s)
  BY <1>2, <1>8 DEF Finish, Ends, FatalError, Terminal, EndWith
<1> QED BY <1>5, <1>6, <1>7, <1>8

LEMMA Kinds ==
    ASSUME RuntimeInv, Patient, [Next]_vars
    PROVE  \/ \E s \in Streams : \/ Ends(s) \/ Parks(s) \/ Moves(s) \/ Enters(s) \/ Completes(s)
                                 \/ Open(s) \/ WorkerGone(s)
           \/ HumanAnswers \/ AgentCrash \/ Still
<1>0. CASE UNCHANGED vars
  BY <1>0 DEF vars, apiVars, Still
<1>1. CASE Boot
  BY <1>1 DEF Boot, Still
<1>2. ASSUME NEW s \in Streams, Arrive(s) \/ Connect(s) \/ Lock(s) PROVE Moves(s)
  BY <1>2 DEF Arrive, Connect, Lock, Moves
<1>3. ASSUME NEW s \in Streams,
             Refuse(s) \/ NoCredential(s) \/ PoolTimeout(s) \/ Disconnect(s)
      PROVE Ends(s)
  BY <1>3 DEF Refuse, NoCredential, PoolTimeout, Disconnect, Ends, RetryableError, FatalError,
     EndWith, Active
<1>4. ASSUME NEW s \in Streams, Serve(s) \/ Disconnect(s)
      PROVE Ends(s) \/ Parks(s) \/ Moves(s) \/ Enters(s) \/ Completes(s)
  BY <1>2, <1>3, <1>4, LoadKinds, NodeKinds DEF Serve
<1>5. CASE Next
  BY <1>1, <1>4, <1>5 DEF Next
<1> QED BY <1>0, <1>5

\* Who is where after a stream has left, moved on or entered the graph.
LEMMA Streams1 ==
    ASSUME RuntimeBase, NEW s \in Streams, NEW x,
           stream' = [stream EXCEPT ![s] = x]
    PROVE  /\ stream'[s] = x
           /\ \A t \in Streams \ {s} : /\ stream'[t] = stream[t] /\ (Active(t)' <=> Active(t))
                                       /\ Rank(t)' = Rank(t)
  BY Typed DEF RuntimeBase, Active, Rank

LEMMA AfterLeave ==
    ASSUME RuntimeBase, NEW s \in Streams, Leave(s)
    PROVE  /\ ~Active(s)' /\ ~stream'[s].live /\ stream'[s].step = "done"
           /\ \A t \in Streams \ {s} : /\ stream'[t] = stream[t] /\ (Active(t)' <=> Active(t))
                                       /\ Rank(t)' = Rank(t)
<1>1. EndedStream.step = "done" /\ EndedStream.live = FALSE
  BY DEF EndedStream, NewStream
<1>2. stream' = [stream EXCEPT ![s] = EndedStream]
  BY DEF Leave
<1> QED BY ONLY <1>1, <1>2, Streams1, RuntimeBase, s \in Streams DEF Active

LEMMA AfterStep ==
    ASSUME RuntimeBase, NEW s \in Streams, NEW step \in StreamStep,
           stream' = [stream EXCEPT ![s].step = step]
    PROVE  /\ stream'[s].step = step /\ stream'[s].exec = stream[s].exec
           /\ stream'[s].live = stream[s].live /\ stream'[s].ticket = stream[s].ticket
           /\ \A t \in Streams \ {s} : /\ stream'[t] = stream[t] /\ (Active(t)' <=> Active(t))
                                       /\ Rank(t)' = Rank(t)
<1>1. stream[s] \in AStream
  BY Typed DEF RuntimeBase
<1>2. PICK x : stream' = [stream EXCEPT ![s] = x] /\ x = [stream[s] EXCEPT !.step = step]
  BY DEF RuntimeBase
<1>3. x.step = step /\ x.exec = stream[s].exec /\ x.live = stream[s].live /\ x.ticket = stream[s].ticket
  BY ONLY <1>1, <1>2 DEF AStream
<1> QED BY <1>2, <1>3, Streams1

-----------------------------------------------------------------------------
(* The streams stay in line.                                                 *)

Ahead(s, t) == Active(s) /\ Active(t) /\ s # t /\ stream[s].ticket <= stream[t].ticket
               => stream[s].ticket < stream[t].ticket /\ Rank(s) >= Rank(t)

LEMMA RankRange == \A s \in Streams : Rank(s) \in 1..4
  BY DEF Rank

LEMMA TicketType == RuntimeBase => \A s \in Streams : stream[s].ticket \in Nat /\ opened \in Nat
  BY Typed DEF RuntimeBase, AStream

\* One that moves on overtakes nobody.
LEMMA InTurn ==
    ASSUME RuntimeBase, InLine, NEW s \in Streams, NEW t \in Streams \ {s}, Active(s), Active(t),
           stream[t].ticket <= stream[s].ticket, NEW step, FirstIn(s, step), Rank(s) < 4
    PROVE  Rank(t) >= Rank(s) + 1
<1>1. stream[t].ticket < stream[s].ticket /\ Rank(t) >= Rank(s)
  BY DEF InLine
<1>2. stream[t].step # stream[s].step
  BY <1>1, TicketType DEF FirstIn
<1>3. Rank(t) # Rank(s)
  BY <1>2 DEF Rank
<1> QED BY <1>1, <1>3, RankRange

LEMMA InLineStep ==
    ASSUME RuntimeInv, Patient, [Next]_vars
    PROVE  InLine'
<1> USE DEF RuntimeInv
<1>0. SUFFICES ASSUME \/ \E s \in Streams : \/ Ends(s) \/ Parks(s) \/ Moves(s) \/ Enters(s)
                                           \/ Completes(s) \/ Open(s) \/ WorkerGone(s)
                     \/ HumanAnswers \/ AgentCrash \/ Still
      PROVE InLine'
  BY Kinds
<1>1. ASSUME NEW s \in Streams, Ends(s) \/ Parks(s) PROVE InLine'
  <2>1. Leave(s) /\ opened' = opened
    BY <1>1 DEF Ends, Parks
  <2> QED BY <2>1, AfterLeave DEF InLine
<1>2. ASSUME NEW s \in Streams, Moves(s) PROVE InLine'
  <2>1. PICK step \in {"queued", "locking", "load"} :
           /\ stream' = [stream EXCEPT ![s].step = step]
           /\ stream[s].step = IF step = "queued" THEN "sent"
                               ELSE IF step = "locking" THEN "queued" ELSE "locking"
    BY <1>2 DEF Moves, FirstIn
  <2>2. /\ stream'[s].step = step /\ stream'[s].live = stream[s].live
        /\ stream'[s].ticket = stream[s].ticket /\ opened' = opened
        /\ \A t \in Streams \ {s} : /\ stream'[t] = stream[t] /\ (Active(t)' <=> Active(t))
                                    /\ Rank(t)' = Rank(t)
    BY <1>2, <2>1, AfterStep DEF Moves, StreamStep
  <2>3. Active(s) /\ Active(s)' /\ Rank(s)' = Rank(s) + 1 /\ Rank(s) < 4
    BY ONLY <2>1, <2>2 DEF Active, Rank
  <2>4. \A t \in Streams \ {s} :
           Active(t) /\ stream[t].ticket <= stream[s].ticket => Rank(t) >= Rank(s) + 1
    BY <1>2, <2>3, InTurn DEF Moves
  <2> QED BY <2>2, <2>3, <2>4, RankRange DEF InLine
<1>3. ASSUME NEW s \in Streams, Enters(s) PROVE InLine'
  <2>1. /\ stream'[s].step = "run" /\ stream'[s].live = stream[s].live
        /\ stream'[s].ticket = stream[s].ticket /\ opened' = opened
        /\ \A t \in Streams \ {s} : /\ stream'[t] = stream[t] /\ (Active(t)' <=> Active(t))
                                    /\ Rank(t)' = Rank(t)
    BY <1>3, AfterStep DEF Enters, StreamStep
  <2>2. Active(s) /\ Active(s)' /\ Rank(s)' = Rank(s)
    BY <1>3, <2>1 DEF Enters, Active, Rank
  <2> QED BY <2>1, <2>2 DEF InLine
<1>4. ASSUME Still \/ HumanAnswers \/ \E s \in Streams : Completes(s) PROVE InLine'
  BY <1>4 DEF Still, HumanAnswers, Completes, InLine, Active, Rank
<1>5. ASSUME NEW s \in Streams, Open(s) PROVE InLine'
  <2> DEFINE x == [exec |-> row.version, step |-> "sent", live |-> TRUE, ticket |-> opened']
  <2>1. /\ stream'[s] = x /\ opened' = opened + 1
        /\ \A t \in Streams \ {s} : /\ stream'[t] = stream[t] /\ (Active(t)' <=> Active(t))
                                    /\ Rank(t)' = Rank(t)
    BY <1>5, Streams1 DEF Open
  <2>2. Active(s)' /\ Rank(s)' = 1 /\ stream'[s].ticket = opened + 1 /\ stream'[s].live
    BY <2>1 DEF Active, Rank
  <2>3. \A t \in Streams : ~stream[t].live
    BY <1>5 DEF Open, Patient
  <2> HIDE DEF x
  <2> QED BY <2>1, <2>2, <2>3, RankRange, TicketType DEF InLine
<1>6. ASSUME NEW s \in Streams, WorkerGone(s) PROVE InLine'
  <2>1. PICK x : stream' = [stream EXCEPT ![s] = x] /\ x = [stream[s] EXCEPT !.live = FALSE]
    BY <1>6 DEF WorkerGone
  <2>2. x.step = stream[s].step /\ x.ticket = stream[s].ticket /\ ~x.live
    <3>1. stream[s] \in AStream
      BY Typed DEF RuntimeBase
    <3> QED BY ONLY <2>1, <3>1 DEF AStream
  <2>3. opened' = opened
    BY <1>6 DEF WorkerGone
  <2>4. /\ stream'[s] = x
        /\ \A t \in Streams \ {s} : /\ stream'[t] = stream[t] /\ (Active(t)' <=> Active(t))
                                    /\ Rank(t)' = Rank(t)
    BY <2>1, Streams1
  <2>5. (Active(s)' <=> Active(s)) /\ Rank(s)' = Rank(s)
    BY <2>2, <2>4 DEF Active, Rank
  <2> QED BY <2>2, <2>3, <2>4, <2>5 DEF InLine
<1>7. ASSUME AgentCrash PROVE InLine'
  <2>1. EndedStream.step = "done" /\ EndedStream.live = FALSE
    BY DEF EndedStream, NewStream
  <2>2. \A s \in Streams : stream'[s] = IF Active(s) THEN EndedStream ELSE stream[s]
    BY <1>7 DEF AgentCrash
  <2>3. \A s \in Streams : ~Active(s)' /\ ~stream'[s].live
    BY <2>1, <2>2 DEF Active, InLine
  <2> QED BY <2>3 DEF InLine
<1> QED BY <1>0, <1>1, <1>2, <1>3, <1>4, <1>5, <1>6, <1>7

-----------------------------------------------------------------------------
(* One execution at a time, and none while the human is asked.               *)

\* What a frame does, when it is one that counts.
LEMMA Framed ==
    ASSUME RuntimeInv, NEW s \in Streams, NEW state \in {"parked", "over"}, NEW q,
           Deliver(s, state, q) \/ UNCHANGED apiVars
    PROVE  /\ asked' = asked /\ decision' = decision /\ row'.version = row.version
           /\ \/ row' = row
              \/ /\ stream[s].live /\ row.state = "open"
                 /\ row'.state = state /\ row'.shown = q
<1>1. row \in ARow
  BY Typed DEF RuntimeInv, RuntimeBase
<1>2. \/ row' = row
      \/ stream[s].live /\ row.state = "open" /\ row' = [row EXCEPT !.state = state, !.shown = q]
  BY DEF Deliver, apiVars
<1>3. LET r == [row EXCEPT !.state = state, !.shown = q]
      IN  r.version = row.version /\ r.state = state /\ r.shown = q
  BY ONLY <1>1 DEF ARow
<1> QED BY <1>2, <1>3 DEF Deliver, apiVars

\* A live stream with the lock is the only one there is: it is the last in line
\* and nobody ahead of it can have got further.
LEMMA Alone ==
    ASSUME RuntimeInv, NEW s \in Streams, stream[s].step \in HoldsLock, stream[s].live
    PROVE  \A t \in Streams \ {s} : ~Active(t)
<1> SUFFICES ASSUME NEW t \in Streams \ {s}, Active(t) PROVE FALSE
  OBVIOUS
<1>1. Active(s) /\ Rank(s) = 4 /\ lock = s
  BY Holder
<1>2. stream[t].ticket <= stream[s].ticket
  BY <1>1 DEF RuntimeInv, InLine
<1>3. Rank(t) >= 4
  BY <1>1, <1>2 DEF RuntimeInv, InLine
<1>4. stream[t].step \in StreamStep
  BY Typed DEF RuntimeInv, RuntimeBase, AStream
<1>5. stream[t].step \in HoldsLock
  BY <1>3, <1>4 DEF Rank, HoldsLock, StreamStep, Active
<1> QED BY <1>1, <1>5 DEF RuntimeInv, RuntimeBase, OneGraphAtATime

LEMMA OneExecutionStep ==
    ASSUME RuntimeInv, Patient, [Next]_vars
    PROVE  OneExecution'
<1> USE DEF RuntimeInv
<1>0. SUFFICES ASSUME \/ \E s \in Streams : \/ Ends(s) \/ Parks(s) \/ Moves(s) \/ Enters(s)
                                           \/ Completes(s) \/ Open(s) \/ WorkerGone(s)
                     \/ HumanAnswers \/ AgentCrash \/ Still
      PROVE OneExecution'
  BY Kinds
<1>1. ASSUME NEW s \in Streams, Ends(s) PROVE OneExecution'
  <2>1. row'.version = row.version /\ (row' = row \/ row'.state = "over")
    BY <1>1, Framed DEF Ends
  <2>2. /\ ~Active(s)'
        /\ \A t \in Streams \ {s} : stream'[t] = stream[t] /\ (Active(t)' <=> Active(t))
    BY <1>1, AfterLeave DEF Ends
  <2> QED BY <2>1, <2>2 DEF OneExecution
<1>2. ASSUME NEW s \in Streams, Parks(s) PROVE OneExecution'
  <2>1. row'.version = row.version /\ (row' = row \/ stream[s].live)
    BY <1>2, Framed DEF Parks
  <2>2. /\ ~Active(s)'
        /\ \A t \in Streams \ {s} : stream'[t] = stream[t] /\ (Active(t)' <=> Active(t))
    BY <1>2, AfterLeave DEF Parks
  <2>3. stream[s].live => \A t \in Streams : ~Active(t)'
    BY <1>2, <2>2, Alone DEF Parks
  <2> QED BY <2>1, <2>2, <2>3 DEF OneExecution
<1>3. ASSUME NEW s \in Streams, Moves(s) \/ Enters(s) PROVE OneExecution'
  <2>1. PICK step \in {"queued", "locking", "load", "run"} :
          stream' = [stream EXCEPT ![s].step = step]
    BY <1>3 DEF Moves, Enters
  <2>2. Active(s) /\ row' = row
    BY <1>3 DEF Moves, Enters, FirstIn, Active, apiVars
  <2>3. /\ stream'[s].exec = stream[s].exec
        /\ \A t \in Streams \ {s} : stream'[t] = stream[t] /\ (Active(t)' <=> Active(t))
    BY <2>1, AfterStep DEF StreamStep
  <2> QED BY <2>2, <2>3 DEF OneExecution
<1>4. ASSUME Still \/ \E s \in Streams : Completes(s) PROVE OneExecution'
  BY <1>4 DEF Still, Completes, OneExecution, Active, apiVars
<1>5. ASSUME NEW s \in Streams, Open(s) PROVE OneExecution'
  <2> DEFINE x == [exec |-> row.version, step |-> "sent", live |-> TRUE, ticket |-> opened']
  <2>1. /\ stream'[s] = x /\ row' = row /\ row.state = "open"
        /\ \A t \in Streams \ {s} : stream'[t] = stream[t] /\ (Active(t)' <=> Active(t))
    BY <1>5, Streams1 DEF Open, apiVars
  <2> QED BY <2>1 DEF OneExecution
<1>6. ASSUME NEW s \in Streams, WorkerGone(s) PROVE OneExecution'
  <2>1. PICK x : stream' = [stream EXCEPT ![s] = x] /\ x = [stream[s] EXCEPT !.live = FALSE]
    BY <1>6 DEF WorkerGone
  <2>2. x.step = stream[s].step /\ x.exec = stream[s].exec
    <3>1. stream[s] \in AStream
      BY Typed DEF RuntimeBase
    <3> QED BY ONLY <2>1, <3>1 DEF AStream
  <2>3. /\ stream'[s] = x /\ row' = row
        /\ \A t \in Streams \ {s} : stream'[t] = stream[t] /\ (Active(t)' <=> Active(t))
    BY <1>6, <2>1, Streams1 DEF WorkerGone, apiVars
  <2> QED BY <2>2, <2>3 DEF OneExecution, Active
<1>7. ASSUME HumanAnswers PROVE OneExecution'
  BY <1>7 DEF HumanAnswers, OneExecution, Active
<1>8. ASSUME AgentCrash PROVE OneExecution'
  <2>1. EndedStream.step = "done"
    BY DEF EndedStream, NewStream
  <2>2. \A s \in Streams : ~Active(s)'
    BY <1>8, <2>1 DEF AgentCrash, Active
  <2> QED BY <2>2 DEF OneExecution
<1> QED BY <1>0, <1>1, <1>2, <1>3, <1>4, <1>5, <1>6, <1>7, <1>8

-----------------------------------------------------------------------------
(* The checkpoint stays as it was asked about until the answer is read.      *)

\* Who runs the graph after a step: nobody new but the stream that enters it.
LEMMA Runners ==
    ASSUME RuntimeInv, Patient, NEW t \in Streams, stream'[t].step = "run",
           \/ \E s \in Streams : \/ Ends(s) \/ Parks(s) \/ Moves(s) \/ Completes(s)
                                 \/ Open(s) \/ WorkerGone(s)
           \/ HumanAnswers \/ AgentCrash \/ Still
    PROVE  stream[t].step = "run"
<1> USE DEF RuntimeInv
<1>1. ASSUME NEW s \in Streams, Ends(s) \/ Parks(s) PROVE stream[t].step = "run"
  BY <1>1, AfterLeave DEF Ends, Parks
<1>2. ASSUME NEW s \in Streams, Moves(s) PROVE stream[t].step = "run"
  BY <1>2, AfterStep DEF Moves, StreamStep
<1>3. ASSUME NEW s \in Streams, Open(s) PROVE stream[t].step = "run"
  BY <1>3, Streams1 DEF Open
<1>4. ASSUME NEW s \in Streams, WorkerGone(s) PROVE stream[t].step = "run"
  BY <1>4, OneField, Streams1 DEF WorkerGone
<1>5. ASSUME AgentCrash PROVE stream[t].step = "run"
  BY <1>5 DEF AgentCrash, EndedStream, NewStream
<1>6. ASSUME Still \/ HumanAnswers \/ \E s \in Streams : Completes(s) PROVE stream[t].step = "run"
  BY <1>6 DEF Still, HumanAnswers, Completes
<1> QED BY <1>1, <1>2, <1>3, <1>4, <1>5, <1>6

\* Steps that change neither the checkpoint nor what the API knows.
LEMMA Aside ==
    ASSUME RuntimeInv, Patient,
           Still \/ AgentCrash \/ \E s \in Streams : Moves(s) \/ Open(s) \/ WorkerGone(s)
    PROVE  UNCHANGED <<ckpt, row, asked, decision, applied>>
  BY DEF Still, AgentCrash, Moves, Open, WorkerGone, apiVars

LEMMA CheckpointStep ==
    ASSUME RuntimeInv, Patient, [Next]_vars
    PROVE  CheckpointInv'
<1>0. SUFFICES ASSUME \/ \E s \in Streams : \/ Ends(s) \/ Parks(s) \/ Moves(s) \/ Enters(s)
                                           \/ Completes(s) \/ Open(s) \/ WorkerGone(s)
                     \/ HumanAnswers \/ AgentCrash \/ Still
      PROVE CheckpointInv'
  BY Kinds
<1>f. /\ ckpt.pos \in Nat /\ ckpt.last \in Nat /\ ckpt.answer \in Nat /\ row.version \in Nat \ {0}
      /\ ckpt.wait \in {"none", "gate", "credits"} /\ Len(Path) \in Nat
      /\ RuntimeBase /\ OneExecution /\ CheckpointInv
  BY Fields, Bounds DEF RuntimeInv
<1>1. ASSUME Still \/ AgentCrash \/ \E s \in Streams : Moves(s) \/ Open(s) \/ WorkerGone(s)
      PROVE CheckpointInv'
  <2>1. UNCHANGED <<ckpt, row, asked, decision>>
    BY <1>1, Aside
  <2>2. \A t \in Streams : stream'[t].step = "run" => stream[t].step = "run"
    BY <1>1, Runners
  <2> QED BY <1>f, <2>1, <2>2 DEF CheckpointInv, PendingAt, ParkedOrNext, Parked, AtRecognised
<1>2. ASSUME NEW s \in Streams, Ends(s) PROVE CheckpointInv'
  <2>1. /\ ckpt' = ckpt /\ asked' = asked /\ decision' = decision /\ row'.version = row.version
        /\ \/ row' = row
           \/ row.state = "open" /\ row'.state = "over" /\ row'.shown = NoQuestion
    <3>1. Deliver(s, "over", NoQuestion) \/ UNCHANGED apiVars
      BY <1>2 DEF Ends
    <3>2. ckpt' = ckpt
      BY <1>2 DEF Ends
    <3> QED BY <3>1, <3>2, Framed
  <2>2. \A t \in Streams : stream'[t].step = "run" => stream[t].step = "run"
    BY <1>2, Runners
  <2> QED BY <1>f, <2>1, <2>2 DEF CheckpointInv, PendingAt, ParkedOrNext, Parked, AtRecognised
<1>3. ASSUME NEW s \in Streams, Parks(s) PROVE CheckpointInv'
  <2> DEFINE q == [kind |-> KindHere, pos |-> ckpt.pos]
  <2>1. /\ asked' = asked /\ decision' = decision /\ row'.version = row.version
        /\ \/ row' = row
           \/ row'.state = "parked" /\ row'.shown = q
    <3>1. Deliver(s, "parked", q)
      BY <1>3 DEF Parks
    <3> HIDE DEF q
    <3> QED BY <3>1, Framed
  <2>2. \A t \in Streams : stream'[t].step = "run" => stream[t].step = "run"
    BY <1>3, Runners
  <2>3. row.state # "parked" /\ row.shown = NoQuestion
    BY <1>3, Holder DEF Parks
  <2>4. /\ ckpt'.pos = ckpt.pos /\ ckpt.pos # 0 /\ ckpt'.last = row.version
        /\ ckpt'.wait \in {ckpt.wait, KindHere} /\ ckpt'.answer <= ckpt.answer
        /\ KindHere = "gate" => ParkedOrNext'
    BY <1>3, <1>f DEF Parks, KindHere
  <2>5. row'.shown = q => PendingAt(row.shown)'
    BY <2>4 DEF PendingAt, KindHere
  <2> HIDE DEF q
  <2>p. ckpt'.wait # "none" => ckpt'.wait = IF AtGate(ckpt'.pos) THEN "gate" ELSE "credits"
    BY <1>f, <2>4 DEF CheckpointInv, KindHere
  <2>6. /\ ckpt'.answer <= ckpt'.last /\ ckpt'.last <= row'.version
        /\ ckpt'.pos = 0 <=> ckpt'.last = 0
    BY <1>f, <2>1, <2>4, <1>3 DEF CheckpointInv, Parks
  <2>7. \A t \in Streams : stream'[t].step = "run" => ckpt'.last = row'.version
    BY <2>1, <2>4
  <2>8. IF row'.state = "parked" THEN PendingAt(row.shown)' /\ ckpt'.last = row'.version
                                ELSE row'.shown = NoQuestion
    BY <2>1, <2>3, <2>4, <2>5
  <2>9. ~(ckpt'.last < row'.version)
    BY <1>f, <2>1, <2>4
  <2> QED BY <2>p, <2>6, <2>7, <2>8, <2>9 DEF CheckpointInv
<1>4. ASSUME NEW s \in Streams, Enters(s) PROVE CheckpointInv'
  <2>1. row' = row /\ row.state # "parked" /\ row.shown = NoQuestion /\ ckpt'.last = row.version
    BY <1>4, Holder DEF Enters, HoldsLock, apiVars
  <2>2. ckpt'.pos # 0 /\ ckpt'.answer <= row.version
    BY <1>4, <1>f DEF Enters, CheckpointInv
  <2>3. ckpt'.wait # "none" => ckpt'.wait = ckpt.wait /\ ckpt'.pos = ckpt.pos
    BY <1>4 DEF Enters
  <2> QED BY <1>f, <2>1, <2>2, <2>3 DEF CheckpointInv
<1>5. ASSUME NEW s \in Streams, Completes(s) PROVE CheckpointInv'
  <2>1. row' = row /\ row.state # "parked" /\ row.shown = NoQuestion /\ ckpt.last = row.version
    BY <1>5, Holder DEF Completes, HoldsLock, apiVars, CheckpointInv, RuntimeInv
  <2> QED BY <1>f, <1>5, <2>1 DEF Completes, CheckpointInv
<1>6. ASSUME HumanAnswers PROVE CheckpointInv'
  <2> DEFINE e == row.version + 1
  <2>1. /\ row.state = "parked" /\ PendingAt(row.shown) /\ ckpt.last = row.version /\ e \in Execs
        /\ asked' = [asked EXCEPT ![e] = row.shown] /\ UNCHANGED <<ckpt, stream>>
        /\ row' = [version |-> e, state |-> "open", shown |-> NoQuestion]
    BY <1>6, <1>f, Bounds DEF HumanAnswers, CheckpointInv, Execs
  <2>2. asked'[row'.version] = row.shown
    BY <1>f, <2>1, Typed DEF RuntimeBase
  <2>3. row.shown.kind = "credits" => decision'[row'.version] \in CreditsAnswers
    BY <1>6, <1>f, <2>1, Typed DEF HumanAnswers, RuntimeBase
  <2>4. PendingAt(asked[row.version])'
    BY <2>1, <2>2 DEF PendingAt, ParkedOrNext, Parked, AtRecognised
  <2>5. \A t \in Streams : stream[t].step # "run"
    BY <1>f, <2>1 DEF OneExecution, Active
  <2> QED BY <1>f, <2>1, <2>2, <2>3, <2>4, <2>5 DEF CheckpointInv
<1> QED BY <1>0, <1>1, <1>2, <1>3, <1>4, <1>5, <1>6

-----------------------------------------------------------------------------
(* The answer is read by the gate it was given to.                           *)

AboutGate(p) == [kind |-> "gate", pos |-> p]

\* A question is about a gate, or it is not, by its two fields.
LEMMA GateQuestion ==
    \A q \in Question, p \in 1..Len(Path) : q = AboutGate(p) <=> q.kind = "gate" /\ q.pos = p
  BY DEF Question, NoQuestion, AboutGate

LEMMA Taken ==
    ASSUME RuntimeBase
    PROVE  \A a \in applied : /\ a[1] \in Execs /\ a[2] \in 1..Len(Path) /\ a[2] \in Nat /\ a[2] # 0
                              /\ a = <<a[1], a[2]>>
  BY Typed, Bounds DEF RuntimeBase

\* No gate the graph has yet to complete has taken an answer.
LEMMA NotTaken ==
    ASSUME RuntimeBase, AnswersInv, NEW p \in Nat, ckpt.pos <= p
    PROVE  \A a \in applied : a[2] # p
  BY Taken, Fields DEF AnswersInv

LEMMA AnswersStep ==
    ASSUME RuntimeInv, Patient, [Next]_vars
    PROVE  AnswersInv' /\ AnswerToItsQuestion'
<1>0. SUFFICES ASSUME \/ \E s \in Streams : \/ Ends(s) \/ Parks(s) \/ Moves(s) \/ Enters(s)
                                           \/ Completes(s) \/ Open(s) \/ WorkerGone(s)
                     \/ HumanAnswers \/ AgentCrash \/ Still
      PROVE AnswersInv' /\ AnswerToItsQuestion'
  BY Kinds
<1>f. /\ ckpt.pos \in Nat /\ ckpt.last \in Nat /\ ckpt.answer \in Nat /\ row.version \in Nat \ {0}
      /\ ckpt.wait \in {"none", "gate", "credits"} /\ Len(Path) \in Nat
      /\ asked \in [Execs -> Question] /\ \A e \in Execs : asked[e].pos \in Nat
  <2>1. asked \in [Execs -> Question]
    BY Typed DEF RuntimeInv, RuntimeBase
  <2>2. \A q \in Question : q.pos \in Nat
    BY Bounds DEF Question, NoQuestion
  <2> QED BY <2>1, <2>2, Fields, Bounds DEF RuntimeInv
<1>i. RuntimeBase /\ OneExecution /\ CheckpointInv /\ AnswersInv /\ AnswerToItsQuestion
  BY DEF RuntimeInv
<1>1. ASSUME Still \/ AgentCrash \/ \E s \in Streams : Moves(s) \/ Open(s) \/ WorkerGone(s)
      PROVE AnswersInv' /\ AnswerToItsQuestion'
  <2>1. UNCHANGED <<ckpt, row, asked, applied>>
    BY <1>1, Aside
  <2> QED BY <1>i, <2>1 DEF AnswersInv, AnswerToItsQuestion
<1>2. ASSUME NEW s \in Streams, Ends(s) PROVE AnswersInv' /\ AnswerToItsQuestion'
  <2>1. ckpt' = ckpt /\ asked' = asked /\ applied' = applied /\ row'.version = row.version
    <3>1. Deliver(s, "over", NoQuestion) \/ UNCHANGED apiVars
      BY <1>2 DEF Ends
    <3> QED BY <3>1, Framed, <1>2 DEF Ends
  <2> QED BY <1>i, <2>1 DEF AnswersInv, AnswerToItsQuestion
<1>3. ASSUME NEW s \in Streams, Parks(s) PROVE AnswersInv' /\ AnswerToItsQuestion'
  <2>1. asked' = asked /\ applied' = applied /\ row'.version = row.version
    <3> DEFINE q == [kind |-> KindHere, pos |-> ckpt.pos]
    <3>1. Deliver(s, "parked", q)
      BY <1>3 DEF Parks
    <3> HIDE DEF q
    <3> QED BY <3>1, Framed, <1>3 DEF Parks
  <2>2. /\ ckpt'.pos = ckpt.pos /\ ckpt'.last = ckpt.last
        /\ ckpt'.answer \in {ckpt.answer, 0}
        /\ AtGate(ckpt.pos) => ckpt'.answer = ckpt.answer
    BY <1>3 DEF Parks
  <2> QED BY <1>i, <2>1, <2>2 DEF AnswersInv, AnswerToItsQuestion
<1>4. ASSUME NEW s \in Streams, Enters(s) PROVE AnswersInv' /\ AnswerToItsQuestion'
  <2>1. UNCHANGED <<row, asked, applied>> /\ ckpt'.last = row.version
    BY <1>4 DEF Enters, apiVars
  <2>2. CASE /\ ckpt.pos = 0 /\ row.version = 1
             /\ ckpt'.pos = 1 /\ ckpt'.wait = "none" /\ ckpt'.answer = 0
    <3>1. \A e \in Execs : asked[e].kind = "gate" => asked[e].pos \in 1..Len(Path) /\ asked[e].pos <= 0
      BY <1>i, <2>2 DEF AnswersInv, AtGate
    <3>2. \A e \in Execs : asked[e].kind # "gate"
      BY <3>1, <1>f
    <3>3. applied = {}
      BY <1>i, <1>f, <2>2, Taken DEF AnswersInv
    <3> QED BY <1>i, <2>1, <2>2, <3>2, <3>3 DEF AnswersInv, AnswerToItsQuestion
  <2>3. CASE ckpt' = ckpt
    BY <1>i, <2>1, <2>3, <1>4 DEF AnswersInv, AnswerToItsQuestion, Enters, CheckpointInv
  <2>4. CASE /\ ckpt.last < row.version /\ row.version > 1
             /\ ckpt'.pos = ckpt.pos /\ ckpt'.answer = row.version
    <3>1. AtGate(ckpt.pos) => asked[row.version].kind = "gate" /\ asked[row.version].pos = ckpt.pos
      BY <1>i, <2>4 DEF CheckpointInv, PendingAt
    <3>2. AtGate(ckpt.pos) => asked[row.version] = [kind |-> "gate", pos |-> ckpt.pos]
      BY <3>1, <1>f, <1>i, GateQuestion, Fields DEF AtGate, AboutGate
    <3> QED BY <1>i, <1>f, <2>1, <2>4, <3>2 DEF AnswersInv, AnswerToItsQuestion
  <2>5. CASE /\ ckpt.last < row.version /\ row.version > 1 /\ ~ParkedOrNext
             /\ ckpt'.pos = ckpt.pos /\ ckpt'.answer = ckpt.answer
    <3>1. ~AtGate(ckpt.pos)
      BY <1>i, <2>5 DEF CheckpointInv, PendingAt
    <3>2. \A e \in Execs : asked[e].kind = "gate" => asked[e].pos # ckpt.pos
      BY <1>i, <3>1 DEF AnswersInv
    <3> QED BY <1>i, <2>1, <2>5, <3>1, <3>2 DEF AnswersInv, AnswerToItsQuestion
  <2> QED BY <1>4, <2>2, <2>3, <2>4, <2>5 DEF Enters
<1>5. ASSUME NEW s \in Streams, Completes(s) PROVE AnswersInv' /\ AnswerToItsQuestion'
  <2>1. /\ UNCHANGED <<row, asked>> /\ ckpt'.pos = ckpt.pos + 1 /\ ckpt'.last = ckpt.last
        /\ ckpt'.answer = 0
    BY <1>5 DEF Completes, apiVars
  <2>2. \A a \in applied' : \/ a \in applied
                            \/ AtGate(ckpt.pos) /\ a = <<ckpt.answer, ckpt.pos>>
    BY <1>5 DEF Completes
  <2>3. \A a \in applied' : a[2] < ckpt.pos + 1
    BY <1>i, <1>f, <2>2, Taken DEF AnswersInv
  <2>4. \A a \in applied' : asked[a[1]] = [kind |-> "gate", pos |-> a[2]]
    <3>1. AtGate(ckpt.pos) => asked[ckpt.answer] = [kind |-> "gate", pos |-> ckpt.pos]
      BY <1>i, <1>5 DEF AnswersInv, Completes
    <3>2. \A a \in applied : asked[a[1]] = [kind |-> "gate", pos |-> a[2]]
      BY <1>i DEF AnswerToItsQuestion
    <3> SUFFICES ASSUME NEW a \in applied' PROVE asked[a[1]] = [kind |-> "gate", pos |-> a[2]]
      OBVIOUS
    <3>3. CASE AtGate(ckpt.pos) /\ a = <<ckpt.answer, ckpt.pos>>
      BY ONLY <3>1, <3>3
    <3> QED BY <2>2, <3>2, <3>3
  <2>5. \A e \in Execs : asked[e].kind = "gate" => asked[e].pos <= ckpt.pos /\ asked[e].pos # ckpt.pos + 1
    BY <1>i, <1>f DEF AnswersInv
  <2> QED BY <1>i, <1>f, <2>1, <2>3, <2>4, <2>5 DEF AnswersInv, AnswerToItsQuestion
<1>6. ASSUME HumanAnswers PROVE AnswersInv' /\ AnswerToItsQuestion'
  <2> DEFINE v == row.version + 1
  <2>1. /\ row.state = "parked" /\ PendingAt(row.shown) /\ ckpt.last = row.version /\ v \in Execs
        /\ asked' = [asked EXCEPT ![v] = row.shown] /\ UNCHANGED <<ckpt, applied>>
        /\ row'.version = v
    BY <1>6, <1>f, <1>i, Bounds DEF HumanAnswers, CheckpointInv, Execs
  <2>2. /\ asked'[v] = row.shown /\ \A e \in Execs \ {v} : asked'[e] = asked[e]
    BY <2>1, <1>f
  <2>3. \A e \in Execs : asked[e].kind = "gate" => e <= row.version
    BY <1>i DEF AnswersInv
  <2>4. \A e \in Execs : e # v /\ asked[e].kind = "gate" /\ asked[e].pos = ckpt.pos => ckpt.answer # 0
    BY <1>f, <1>i, <2>1 DEF AnswersInv
  <2>5. asked'[ckpt.answer] = asked[ckpt.answer] \/ ckpt.answer = 0
    <3>2. ckpt.answer # v /\ (ckpt.answer # 0 => ckpt.answer \in Execs)
      BY <1>i, <1>f, <2>1, Fields DEF CheckpointInv, Execs
    <3> QED BY <3>2, <2>2
  <2>6. row.shown.kind = "gate" => AtGate(row.shown.pos) /\ row.shown.pos = ckpt.pos
    BY <2>1 DEF PendingAt
  <2>7. v > row.version /\ v # 1
    BY <1>f
  <2>8. \A a \in applied : asked'[a[1]] = asked[a[1]]
    <3> SUFFICES ASSUME NEW a \in applied PROVE asked'[a[1]] = asked[a[1]]
      OBVIOUS
    <3>0. asked[a[1]] = [kind |-> "gate", pos |-> a[2]]
      BY <1>i DEF AnswerToItsQuestion
    <3>1. asked[a[1]].kind = "gate" /\ a[1] \in Execs
      BY <1>i, <3>0, Taken
    <3>2. a[1] # v
      BY <1>f, <2>3, <2>7, <3>1
    <3> QED BY <2>2, <3>1, <3>2
  <2>9. AnswerToItsQuestion'
    BY <1>i, <2>1, <2>8 DEF AnswerToItsQuestion
  <2>10. \A e \in Execs : asked'[e].kind = "gate" =>
            /\ e <= v /\ AtGate(asked'[e].pos) /\ asked'[e].pos <= ckpt.pos
            /\ asked'[e].pos = ckpt.pos => ckpt.answer # 0 \/ e = v
    BY <1>i, <1>f, <2>2, <2>3, <2>4, <2>6, <2>7 DEF AnswersInv, Execs
  <2>11. ckpt.answer # 0 /\ AtGate(ckpt.pos)
            => asked'[ckpt.answer] = [kind |-> "gate", pos |-> ckpt.pos]
    BY <1>i, <2>5 DEF AnswersInv
  <2> HIDE DEF v
  <2> QED BY <1>i, <1>f, <2>1, <2>7, <2>9, <2>10, <2>11 DEF AnswersInv
<1> QED BY <1>0, <1>1, <1>2, <1>3, <1>4, <1>5, <1>6

LEMMA RuntimeInit == Init => RuntimeInv
<1> SUFFICES ASSUME Init PROVE RuntimeInv
  OBVIOUS
<1>1. \A s \in Streams : ~Active(s) /\ ~stream[s].live /\ stream[s].step = "new"
  BY DEF Init, NewStream, Active
<1>2. /\ ckpt.pos = 0 /\ ckpt.last = 0 /\ ckpt.answer = 0 /\ ckpt.wait = "none"
      /\ row.version = 1 /\ row.state = "open" /\ row.shown = NoQuestion
      /\ applied = {} /\ \A e \in Execs : asked[e].kind = "none"
  BY DEF Init, NoCheckpoint, NoQuestion
<1> QED BY <1>1, <1>2, BaseInit
        DEF RuntimeInv, InLine, OneExecution, CheckpointInv, AnswersInv, AnswerToItsQuestion

LEMMA RuntimeStep == Patient /\ RuntimeInv /\ [Next]_vars => RuntimeInv'
  BY BaseStep, InLineStep, OneExecutionStep, CheckpointStep, AnswersStep DEF RuntimeInv

LEMMA RuntimeInvariance ==
    ASSUME Patient PROVE Spec => []RuntimeInv
<1>1. RuntimeInv /\ [Next]_vars => RuntimeInv'
  BY RuntimeStep
<1> QED BY RuntimeInit, <1>1, PTL DEF Spec

\* As long as no worker that is alive loses its job to another, and a pause for
\* credits is answered with "continue": no lost frame, crash, timeout, retry or
\* dead worker makes a gate take the answer that was given to another.
THEOREM AnswersReachTheirGate ==
    ASSUME ~LiveStalls, CreditsAnswers \subseteq {"continue"}
    PROVE  Spec => []AnswerToItsQuestion
<1>1. Patient
  BY DEF Patient
<1>2. RuntimeInv => AnswerToItsQuestion
  BY DEF RuntimeInv
<1> QED BY <1>1, <1>2, RuntimeInvariance, PTL

-----------------------------------------------------------------------------
(* The runtime implements the gate protocol.                                 *)

StageOf == [g \in GatePositions |-> Stage(g)]

LEMMA OneMoves ==
    ASSUME NEW p \in GatePositions, NEW from, NEW to, Stage(p) = from, Stage(p)' = to,
           \A g \in GatePositions \ {p} : Stage(g)' = Stage(g)
    PROVE  GateSpec!Move(p, from, to)
<1>1. StageOf' = [StageOf EXCEPT ![p] = to] /\ StageOf[p] = from
  BY DEF StageOf
<1> QED BY <1>1 DEF GateSpec!Move, StageOf

LEMMA NoneMoves ==
    ASSUME \A g \in GatePositions : Stage(g)' = Stage(g)
    PROVE  UNCHANGED StageOf
  BY DEF StageOf

LEMMA GatesAreAt == \A g \in GatePositions : g \in 1..Len(Path) /\ g \in Nat /\ AtGate(g)
  BY Bounds DEF GatePositions, AtGate

LEMMA StageSame ==
    ASSUME NEW g, asked' = asked, applied' = applied,
           row'.shown = AboutGate(g) <=> row.shown = AboutGate(g)
    PROVE  Stage(g)' = Stage(g)
  BY DEF Stage, AboutGate

LEMMA GateStep ==
    ASSUME RuntimeInv, Patient, [Next]_vars
    PROVE  GateSpec!Next \/ UNCHANGED StageOf
<1>0. SUFFICES ASSUME \/ \E s \in Streams : \/ Ends(s) \/ Parks(s) \/ Moves(s) \/ Enters(s)
                                           \/ Completes(s) \/ Open(s) \/ WorkerGone(s)
                     \/ HumanAnswers \/ AgentCrash \/ Still
      PROVE GateSpec!Next \/ UNCHANGED StageOf
  BY Kinds
<1>i. RuntimeBase /\ OneExecution /\ CheckpointInv /\ AnswersInv /\ AnswerToItsQuestion
  BY DEF RuntimeInv
<1>f. /\ ckpt.pos \in Nat /\ ckpt.last \in Nat /\ ckpt.answer \in Nat /\ row.version \in Nat \ {0}
      /\ Len(Path) \in Nat /\ asked \in [Execs -> Question] /\ row.shown \in Question
  BY <1>i, Fields, Bounds, Typed DEF RuntimeBase, ARow
<1>n. \A g : NoQuestion # AboutGate(g)
  BY DEF NoQuestion, AboutGate
<1>1. ASSUME \/ Still \/ AgentCrash
             \/ \E s \in Streams : Moves(s) \/ Open(s) \/ WorkerGone(s) \/ Enters(s)
      PROVE UNCHANGED StageOf
  <2>1. UNCHANGED <<row, asked, applied>>
    BY <1>1, Aside DEF Enters, apiVars
  <2> QED BY <2>1, StageSame, NoneMoves
<1>2. ASSUME NEW s \in Streams, Ends(s) PROVE UNCHANGED StageOf
  <2>1. /\ asked' = asked /\ applied' = applied
        /\ row' = row \/ (row.state = "open" /\ row'.shown = NoQuestion)
    <3>1. Deliver(s, "over", NoQuestion) \/ UNCHANGED apiVars
      BY <1>2 DEF Ends
    <3> QED BY <3>1, Framed, <1>2 DEF Ends
  <2>2. row'.shown = row.shown
    BY <2>1, <1>i DEF CheckpointInv
  <2> QED BY <2>1, <2>2, StageSame, NoneMoves
<1>3. ASSUME NEW s \in Streams, Parks(s) PROVE GateSpec!Next \/ UNCHANGED StageOf
  <2> DEFINE q == [kind |-> KindHere, pos |-> ckpt.pos]
  <2>1. asked' = asked /\ applied' = applied /\ (row' = row \/ row'.shown = q)
    <3>1. Deliver(s, "parked", q)
      BY <1>3 DEF Parks
    <3> HIDE DEF q
    <3> QED BY <3>1, Framed, <1>3 DEF Parks
  <2>2. row.shown = NoQuestion
    BY <1>3, Holder DEF Parks
  <2>3. CASE row'.shown = q /\ AtGate(ckpt.pos)
    <3>1. q = AboutGate(ckpt.pos) /\ ckpt.pos \in GatePositions
      BY <2>3 DEF KindHere, AboutGate, GatePositions, AtGate
    <3>2. \A g \in GatePositions \ {ckpt.pos} : Stage(g)' = Stage(g)
      <4>1. \A g \in GatePositions \ {ckpt.pos} : row'.shown # AboutGate(g)
        BY <2>3, <3>1 DEF AboutGate
      <4> QED BY <2>1, <2>2, <4>1, <1>n, StageSame
    <3>3. Stage(ckpt.pos) = "ahead"
      <4>1. \A a \in applied : a[2] # ckpt.pos
        BY <1>f, <1>i, NotTaken
      <4>2. \A e \in Execs : ~(asked[e].kind = "gate" /\ asked[e].pos = ckpt.pos)
        BY <1>3, <1>f, <1>i, <2>3 DEF Parks, AnswersInv
      <4>3. \A e \in Execs : asked[e] # AboutGate(ckpt.pos)
        BY <4>2 DEF AboutGate
      <4>4. \A e \in Execs : <<e, ckpt.pos>> \notin applied
        BY <4>1
      <4> QED BY <4>3, <4>4, <2>2, <1>n DEF Stage, AboutGate
    <3>4. Stage(ckpt.pos)' = "asked"
      <4>1. ckpt'.pos = ckpt.pos
        BY <1>3 DEF Parks
      <4> QED BY <2>3, <3>1, <4>1 DEF Stage, AboutGate
    <3>5. GateSpec!Move(ckpt.pos, "ahead", "asked")
      <4>1. PICK p \in GatePositions : p = ckpt.pos
        BY <3>1
      <4>2. Stage(p) = "ahead" /\ Stage(p)' = "asked" /\ \A g \in GatePositions \ {p} : Stage(g)' = Stage(g)
        BY <1>3, <3>2, <3>3, <3>4, <4>1 DEF Parks
      <4> QED BY <4>1, <4>2, OneMoves
    <3> QED BY <3>1, <3>5 DEF GateSpec!Next, GateSpec!Ask
  <2>4. CASE row'.shown = q /\ ~AtGate(ckpt.pos)
    <3>1. \A g : row'.shown # AboutGate(g)
      BY <2>4 DEF KindHere, AboutGate
    <3> QED BY <2>1, <2>2, <3>1, <1>n, StageSame, NoneMoves
  <2>5. CASE row' = row
    BY <2>1, <2>5, StageSame, NoneMoves
  <2> QED BY <2>1, <2>3, <2>4, <2>5
<1>4. ASSUME NEW s \in Streams, Completes(s) PROVE GateSpec!Next \/ UNCHANGED StageOf
  <2>1. UNCHANGED <<row, asked>> /\ row.shown = NoQuestion
    BY <1>4, Holder DEF Completes, apiVars, HoldsLock
  <2>2. CASE ~AtGate(ckpt.pos)
    BY <1>4, <2>1, <2>2, StageSame, NoneMoves DEF Completes
  <2>3. CASE AtGate(ckpt.pos)
    <3>1. PICK p \in GatePositions : p = ckpt.pos
      BY <2>3 DEF GatePositions, AtGate
    <3>2. applied' = applied \cup {<<ckpt.answer, p>>} /\ ckpt.answer \in Execs
      BY <1>4, <1>i, <2>3, <3>1, Fields DEF Completes, Execs
    <3>3. asked[ckpt.answer] = AboutGate(p)
      BY <1>4, <1>i, <2>3, <3>1 DEF Completes, AnswersInv, AboutGate
    <3>4. \A e \in Execs : <<e, p>> \notin applied
      BY <1>f, <1>i, <3>1, NotTaken
    <3>5. Stage(p) = "answered"
      BY <2>1, <3>2, <3>3, <3>4, <1>n DEF Stage, AboutGate
    <3>6. Stage(p)' = "applied"
      BY <2>1, <3>2, <1>n DEF Stage, AboutGate
    <3>7. \A g \in GatePositions \ {p} : Stage(g)' = Stage(g)
      BY <2>1, <3>2 DEF Stage
    <3> QED BY <3>5, <3>6, <3>7, OneMoves DEF GateSpec!Next, GateSpec!Apply
  <2> QED BY <2>2, <2>3
<1>5. ASSUME HumanAnswers PROVE GateSpec!Next \/ UNCHANGED StageOf
  <2> DEFINE v == row.version + 1
  <2>1. /\ row.state = "parked" /\ PendingAt(row.shown) /\ v \in Execs
        /\ asked' = [asked EXCEPT ![v] = row.shown] /\ UNCHANGED <<ckpt, applied>>
        /\ row'.shown = NoQuestion
    BY <1>5, <1>f, <1>i, Bounds DEF HumanAnswers, CheckpointInv, Execs
  <2>2. asked'[v] = row.shown /\ \A e \in Execs \ {v} : asked'[e] = asked[e]
    BY <2>1, <1>f
  <2>3. asked[v].kind # "gate"
    BY <1>f, <1>i, <2>1 DEF AnswersInv
  <2>4. \A g : asked[v] # AboutGate(g)
    BY <2>3 DEF AboutGate
  <2> HIDE DEF v
  <2>5. ASSUME NEW g \in GatePositions, row.shown # AboutGate(g) PROVE Stage(g)' = Stage(g)
    <3>1. (\E e \in Execs : asked'[e] = AboutGate(g)) <=> (\E e \in Execs : asked[e] = AboutGate(g))
      BY <2>1, <2>2, <2>4, <2>5
    <3> QED BY <2>1, <2>5, <3>1, <1>n DEF Stage, AboutGate
  <2>6. CASE \E g \in GatePositions : row.shown = AboutGate(g)
    <3>1. PICK p \in GatePositions : row.shown = AboutGate(p)
      BY <2>6
    <3>2. p = ckpt.pos
      BY <2>1, <3>1 DEF PendingAt, AboutGate
    <3>3. \A e \in Execs : <<e, p>> \notin applied
      BY <1>f, <1>i, <3>2, NotTaken
    <3>4. Stage(p) = "asked"
      BY <3>1 DEF Stage, AboutGate
    <3>5. Stage(p)' = "answered"
      BY <2>1, <2>2, <3>1, <3>3, <1>n DEF Stage, AboutGate
    <3>6. \A g \in GatePositions \ {p} : row.shown # AboutGate(g)
      BY <3>1 DEF AboutGate
    <3> QED BY <2>5, <3>4, <3>5, <3>6, OneMoves DEF GateSpec!Next, GateSpec!Answer
  <2> QED BY <2>5, <2>6, NoneMoves
<1> QED BY <1>0, <1>1, <1>2, <1>3, <1>4, <1>5

LEMMA GateInit == Init => GateSpec!Init
<1> SUFFICES ASSUME Init PROVE GateSpec!Init
  OBVIOUS
<1>1. \A g \in GatePositions : Stage(g) = "ahead"
  BY DEF Init, Stage, NoQuestion
<1> QED BY <1>1 DEF GateSpec!Init

\* Under the same conditions the runtime keeps the gates' promise: a gate asks
\* before it is answered, is answered before it goes on, takes that answer
\* once, and does not ask again what the human has answered.
THEOREM GatesKeepTheirPromise ==
    ASSUME ~LiveStalls, CreditsAnswers \subseteq {"continue"}
    PROVE  Spec => ImplementsGateProtocol
<1>1. Patient
  BY DEF Patient
<1>2. RuntimeInv /\ [Next]_vars => [GateSpec!Next]_StageOf
  BY <1>1, GateStep
<1> QED BY <1>1, <1>2, GateInit, RuntimeInvariance, PTL
        DEF ImplementsGateProtocol, GateSpec!Spec, Spec, StageOf
=============================================================================
