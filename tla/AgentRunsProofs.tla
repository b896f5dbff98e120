--------------------------- MODULE AgentRunsProofs ---------------------------
(***************************************************************************)
(* Theorems about AgentRuns, for every number of runs, events and clients. *)
(***************************************************************************)
EXTENDS AgentRuns, SequenceTheorems, TLAPS

USE AgentRunsAssumption

-----------------------------------------------------------------------------
(* Type correctness.                                                       *)

\* What a subscriber's queue gets is a sequence of numbers.
LEMMA FanOutItems ==
  ASSUME NEW q \in Seq(Nat), NEW m \in Nat, NEW n \in Nat, NEW w \in BOOLEAN
  PROVE  q \o [i \in 1..n |-> m + i] \o (IF w THEN <<END>> ELSE <<>>) \in Seq(Nat)
<1> DEFINE new == [i \in 1..n |-> m + i]
           end == IF w THEN <<END>> ELSE <<>>
<1>1. new \in Seq(Nat)
  BY IsASeq
<1>2. end \in Seq(Nat)
  BY DEF END
<1>3. q \o new \in Seq(Nat)
  BY <1>1, ConcatProperties
<1> QED  BY <1>2, <1>3, ConcatProperties

LEMMA FanOutType ==
  ASSUME TypeOK, NEW r \in Run, NEW n \in Nat, NEW w \in BOOLEAN, FanOut(r, n, w)
  PROVE  len' \in [Run -> Nat] /\ queue' \in [Clients -> Seq(Nat)]
<1>1. len' \in [Run -> Nat]
  BY DEF FanOut, TypeOK
<1>2. ASSUME NEW c \in Clients
      PROVE  (IF c \in Subscribers(r)
              THEN queue[c] \o [i \in 1..n |-> len[r] + i] \o (IF w THEN <<END>> ELSE <<>>)
              ELSE queue[c]) \in Seq(Nat)
  BY FanOutItems, ZenonT(60) DEF TypeOK
<1> QED  BY <1>1, <1>2 DEF FanOut

LEMMA CancelType ==
  ASSUME TypeOK, NEW r \in Run, Cancel(r)
  PROVE  cancelled' \in [Run -> BOOLEAN] /\ strikes' \in [Run -> 0..2]
<1>1. cancelled' \in [Run -> BOOLEAN]
  BY DEF Cancel, TypeOK
<1>2. CASE strikes' = strikes
  BY <1>1, <1>2 DEF TypeOK
<1>3. CASE strikes[r] < 2 /\ strikes' = [strikes EXCEPT ![r] = @ + 1]
  <2>1. strikes \in [Run -> 0..2]
    BY DEF TypeOK
  <2>2. strikes[r] + 1 \in 0..2
    BY <1>3, <2>1
  <2> QED  BY <1>1, <1>3, <2>1, <2>2
<1> QED  BY <1>2, <1>3 DEF Cancel

LEMMA ReturnType ==
  ASSUME TypeOK, NEW r \in Run, NEW s \in Status, NEW n \in Nat, NEW w \in BOOLEAN,
         Return(r, s, n, w)
  PROVE  TypeOK'
<1>1. len' \in [Run -> Nat] /\ queue' \in [Clients -> Seq(Nat)]
  BY FanOutType DEF Return
<1> QED  BY <1>1 DEF Return, ScheduleEvict, TypeOK, TaskPc

LEMMA MoveToType ==
  ASSUME TypeOK, NEW r \in Run, NEW p \in TaskPc, MoveTo(r, p)
  PROVE  TypeOK'
BY DEF MoveTo, TypeOK, clientVars

LEMMA LeaveType ==
  ASSUME TypeOK, NEW c \in Clients, NEW p \in ClientPhase, Leave(c, p)
  PROVE  TypeOK'
BY DEF Leave, ScheduleEvict, TypeOK, taskVars

LEMMA YieldType ==
  ASSUME TypeOK, NEW c \in Clients, NEW s \in Nat, Yield(c, s)
  PROVE  got' \in [Clients -> Seq(Nat)] /\ next' \in [Clients -> Nat]
BY AppendProperties DEF Yield, TypeOK

LEMMA RegisterType ==
  ASSUME TypeOK, count < MaxRuns, NEW C \in NewResponse, Register(count + 1, C)
  PROVE  /\ registered' \in Run /\ count' \in 0..MaxRuns
         /\ phase' \in [Clients -> ClientPhase]
         /\ bound' \in [Clients -> Run \cup {NoRun}]
         /\ count + 1 \in Run
BY DEF Register, TypeOK, Run, ClientPhase

LEMMA TypeInit == Init => TypeOK
BY EmptySeq DEF Init, TypeOK, Run, NoRun, Status, TaskPc, ClientPhase

LEMMA TypeStep == TypeOK /\ [Next]_vars => TypeOK'
<1> SUFFICES ASSUME TypeOK, [Next]_vars PROVE TypeOK'
  OBVIOUS
<1>1. CASE StartFresh
  <2>1. PICK C \in NewResponse : Register(count + 1, C)
    BY <1>1 DEF StartFresh
  <2>2. count < MaxRuns
    BY <1>1 DEF StartFresh
  <2> QED  BY <1>1, <2>1, <2>2, RegisterType DEF StartFresh, TypeOK, TaskPc
<1>2. CASE StartReplacing
  <2>1. PICK C \in NewResponse : Register(count + 1, C)
    BY <1>2 DEF StartReplacing
  <2>2. count < MaxRuns /\ registered \in Run
    BY <1>2 DEF StartReplacing, InFlight, TypeOK
  <2>3. len' \in [Run -> Nat] /\ queue' \in [Clients -> Seq(Nat)]
    BY <1>2, <2>2, FanOutType DEF StartReplacing, Supersede
  <2>4. cancelled' \in [Run -> BOOLEAN] /\ strikes' \in [Run -> 0..2]
    BY <1>2, <2>2, CancelType DEF StartReplacing, Supersede
  <2>5. status' \in [Run -> Status]
    BY <1>2 DEF StartReplacing, Supersede, TypeOK, Status
  <2>6. pc' \in [Run -> TaskPc] /\ prev' \in [Run -> Run \cup {NoRun}]
    BY <1>2, <2>2 DEF StartReplacing, TypeOK, TaskPc
  <2> QED  BY <1>2, <2>1, <2>2, <2>3, <2>4, <2>5, <2>6, RegisterType
           DEF StartReplacing, Supersede, TypeOK
<1>3. ASSUME NEW r \in Run, Stop(r) PROVE TypeOK'
  BY <1>3, CancelType DEF Stop, TypeOK, clientVars
<1>4. ASSUME NEW r \in Run, Drain(r) PROVE TypeOK'
  <2>1. CASE Begin(r)
    BY <2>1, MoveToType DEF Begin, TaskPc
  <2>2. CASE PredecessorDone(r)
    BY <2>2, MoveToType DEF PredecessorDone, TaskPc
  <2>3. CASE CancelledWaiting(r)
    <3>1. CASE Return(r, "stopped", 0, TRUE)
      BY <3>1, ReturnType DEF Status
    <3>2. CASE ~Return(r, "stopped", 0, TRUE)
      <4>1. FanOut(r, 0, TRUE)
        BY <2>3, <3>2 DEF CancelledWaiting
      <4>2. len' \in [Run -> Nat] /\ queue' \in [Clients -> Seq(Nat)]
        BY <4>1, FanOutType
      <4> QED  BY <2>3, <3>2, <4>2 DEF CancelledWaiting, TypeOK, Status, TaskPc
    <3> QED  BY <3>1, <3>2
  <2>4. CASE LeaveBarrier(r)
    BY <2>4, ReturnType DEF LeaveBarrier, TypeOK
  <2>5. CASE CancelledStreaming(r)
    BY <2>5, MoveToType DEF CancelledStreaming, TaskPc
  <2>6. CASE CancelledClosing(r)
    BY <2>6, MoveToType DEF CancelledClosing, TaskPc
  <2>7. CASE CloseEnd(r)
    BY <2>7, ReturnType DEF CloseEnd, Status
  <2> QED  BY <1>4, <2>1, <2>2, <2>3, <2>4, <2>5, <2>6, <2>7 DEF Drain
<1>5. ASSUME NEW r \in Run, StreamEvent(r) PROVE TypeOK'
  <2>1. len' \in [Run -> Nat] /\ queue' \in [Clients -> Seq(Nat)]
    BY <1>5, FanOutType DEF StreamEvent
  <2> QED  BY <1>5, <2>1 DEF StreamEvent, TypeOK
<1>6. ASSUME NEW r \in Run, StreamEnd(r) PROVE TypeOK'
  <2>1. (IF Terminal(r) THEN status[r] ELSE "done") \in Status
    BY DEF TypeOK, Status
  <2> QED  BY <1>6, <2>1, ReturnType DEF StreamEnd, Status
<1>7. ASSUME NEW r \in Run, Evict(r) PROVE TypeOK'
  BY <1>7 DEF Evict, TypeOK, taskVars, clientVars
<1>8. ASSUME NEW c \in Clients, Resume(c) PROVE TypeOK'
  BY <1>8 DEF Resume, TypeOK, taskVars, ClientPhase
<1>9. ASSUME NEW c \in Clients, Subscribe(c) PROVE TypeOK'
  BY <1>9, EmptySeq DEF Subscribe, TypeOK, taskVars, ClientPhase
<1>10. ASSUME NEW c \in Clients, Replay(c) PROVE TypeOK'
  <2>1. CASE Yield(c, next[c] + 1) /\ UNCHANGED <<registered, count, taskVars, armed,
               phase, bound, queue, strikes, deserted>>
    BY <2>1, YieldType, SMTT(60) DEF TypeOK, taskVars
  <2>2. CASE Leave(c, "closed")
    BY <2>2, LeaveType DEF ClientPhase
  <2>3. CASE phase' = [phase EXCEPT ![c] = "live"] /\ UNCHANGED <<registered, count,
               taskVars, armed, bound, queue, next, got, strikes, deserted>>
    BY <2>3 DEF TypeOK, taskVars, ClientPhase
  <2> QED  BY <1>10, <2>1, <2>2, <2>3 DEF Replay
<1>11. ASSUME NEW c \in Clients, Take(c) PROVE TypeOK'
  <2>1. queue[c] \in Seq(Nat) /\ queue[c] # <<>>
    BY <1>11 DEF Take, TypeOK
  <2>2. Head(queue[c]) \in Nat /\ Tail(queue[c]) \in Seq(Nat)
    BY <2>1, HeadTailProperties
  <2>3. queue' \in [Clients -> Seq(Nat)]
    BY <1>11, <2>2 DEF Take, TypeOK
  <2>4. phase' \in [Clients -> ClientPhase]
    BY <1>11 DEF Take, TypeOK, ClientPhase
  <2>5. got' \in [Clients -> Seq(Nat)] /\ next' \in [Clients -> Nat]
    <3>1. CASE Yield(c, Head(queue[c]))
      BY <2>2, <3>1, YieldType
    <3>2. CASE UNCHANGED <<next, got>>
      BY <3>2 DEF TypeOK
    <3> QED  BY <1>11, <3>1, <3>2 DEF Take
  <2> QED  BY <1>11, <2>3, <2>4, <2>5 DEF Take, TypeOK, taskVars
<1>12. ASSUME NEW c \in Clients, HeartbeatTimeout(c) PROVE TypeOK'
  BY <1>12 DEF HeartbeatTimeout, TypeOK, taskVars, ClientPhase
<1>13. ASSUME NEW c \in Clients, Flush(c) PROVE TypeOK'
  <2>1. CASE Yield(c, next[c] + 1) /\ UNCHANGED <<registered, count, taskVars, armed,
               phase, bound, queue, strikes, deserted>>
    BY <2>1, YieldType DEF TypeOK, taskVars
  <2>2. CASE Leave(c, "closed")
    BY <2>2, LeaveType DEF ClientPhase
  <2> QED  BY <1>13, <2>1, <2>2 DEF Flush
<1>14. ASSUME NEW c \in Clients, Disconnect(c) PROVE TypeOK'
  BY <1>14, LeaveType DEF Disconnect, TypeOK, taskVars, ClientPhase
<1>15. CASE UNCHANGED vars
  BY <1>15 DEF vars, taskVars, clientVars, TypeOK
<1> QED
  BY <1>1, <1>2, <1>3, <1>4, <1>5, <1>6, <1>7, <1>8, <1>9, <1>10, <1>11, <1>12,
     <1>13, <1>14, <1>15 DEF Next, Body

\* Every variable keeps its type.
THEOREM TypeCorrect == Spec => []TypeOK
<1>1. Init => TypeOK
  BY TypeInit
<1>2. TypeOK /\ [Next]_vars => TypeOK'
  BY TypeStep
<1> QED  BY <1>1, <1>2, PTL DEF Spec

-----------------------------------------------------------------------------
(* The save order of runs that replace one another.  The inductive         *)
(* invariant says, of every run that may still write and every later run   *)
(* that has passed its wait, that a breach lies between them.              *)

\* The run has not written for the last time yet.
Live(r) == pc[r] \notin {"barrier", "done", "unborn"}

Covered(r, s) == \E k \in Run : r < k /\ k < s /\ Breach(k)

\* Only the newest run is registered, and each run waits for the one before it.
ChainShape ==
  /\ registered \in {NoRun, count}
  /\ \A r \in Run : pc[r] = "absent" <=> r > count
  /\ \A r \in Run : prev[r] \in {NoRun, r - 1}
  /\ \A r \in Run : pc[r] = "absent" =>
       ~cancelled[r] /\ status[r] = "running" /\ prev[r] = NoRun
  /\ registered = NoRun /\ count # 0 => Finished(count) \/ count \in deserted
  /\ \A r \in deserted : ~Live(r)

\* strikes counts what took a waiting task to where it is.
StrikeCount ==
  \A r \in Run : Waits(r) =>
    /\ cancelled[r] \/ pc[r] = "barrier" => strikes[r] # 0
    /\ cancelled[r] /\ pc[r] = "barrier" => strikes[r] = 2

Separated ==
  \A r, s \in Run : r < s /\ Live(r) =>
    /\ Finished(s) => Covered(r, s) \/ Breach(s)
    /\ Writing(s) => Covered(r, s)
    /\ pc[s] # "absent" /\ prev[s] = NoRun => Covered(r, s)

OrderInv ==
  /\ TypeOK
  /\ ChainShape
  /\ StrikeCount
  /\ TerminalMeansSaved
  /\ TimerOfRegistered
  /\ Separated

\* A step of run r's task, as the save order sees it: where it goes and why.
TaskMove(r, p) ==
  /\ pc' = [pc EXCEPT ![r] = p]
  /\ cancelled' = [cancelled EXCEPT ![r] = FALSE]
  /\ UNCHANGED <<registered, count, prev, strikes, deserted>>
  /\ \/ status' = status
     \/ p \in {"barrier", "done"} /\ \A k \in Run \ {r} : status'[k] = status[k]
  /\ \A k \in Run : armed'[k] => armed[k] \/ (k = r /\ registered = r)
  /\ \/ pc[r] = "created" /\ p = "unborn"
     \/ pc[r] = "created" /\ p = "waiting" /\ ~cancelled[r]
     \/ pc[r] \in {"created", "waiting"} /\ p = "streaming" /\ ~Waits(r)
     \/ pc[r] = "waiting" /\ p = "done" /\ ~Waits(r)
     \/ pc[r] = "waiting" /\ p = "barrier" /\ cancelled[r]
     \/ pc[r] = "barrier" /\ p = "done" /\ (cancelled[r] \/ ~Waits(r))
     \/ pc[r] \in {"streaming", "closing"} /\ p \in {"closing", "done"}

LEMMA ReturnMoves ==
  ASSUME TypeOK, NEW r \in Run, NEW s, NEW n, NEW w, Return(r, s, n, w),
         \/ pc[r] \in {"streaming", "closing"}
         \/ pc[r] = "waiting" /\ ~Waits(r)
         \/ pc[r] = "barrier" /\ (cancelled[r] \/ ~Waits(r))
  PROVE  TaskMove(r, "done")
<1>1. \A k \in Run \ {r} : status'[k] = status[k]
  BY DEF Return, TypeOK
<1>2. \A k \in Run : armed'[k] => armed[k] \/ (k = r /\ registered = r)
  BY DEF Return, ScheduleEvict, TypeOK
<1> QED  BY <1>1, <1>2 DEF Return, TaskMove

LEMMA DrainMoves ==
  ASSUME TypeOK, NEW r \in Run, Drain(r) \/ StreamEnd(r)
  PROVE  \E p \in TaskPc : TaskMove(r, p)
<1>1. CASE Begin(r)
  <2>1. CASE cancelled[r]
    BY <1>1, <2>1 DEF Begin, MoveTo, TaskMove, TaskPc
  <2>2. CASE ~cancelled[r] /\ Waits(r)
    BY <1>1, <2>2 DEF Begin, MoveTo, TaskMove, TaskPc
  <2>3. CASE ~cancelled[r] /\ ~Waits(r)
    BY <1>1, <2>3 DEF Begin, MoveTo, TaskMove, TaskPc
  <2> QED  BY <2>1, <2>2, <2>3
<1>2. CASE PredecessorDone(r)
  BY <1>2 DEF PredecessorDone, MoveTo, TaskMove, TaskPc
<1>3. CASE CancelledWaiting(r)
  <2>1. CASE ~Waits(r)
    <3>1. TaskMove(r, "done")
      BY <1>3, <2>1, ReturnMoves DEF CancelledWaiting
    <3> QED  BY <3>1 DEF TaskPc
  <2>2. CASE Waits(r)
    <3>1. \A k \in Run \ {r} : status'[k] = status[k]
      BY <1>3, <2>2 DEF CancelledWaiting, TypeOK
    <3>2. TaskMove(r, "barrier")
      BY <1>3, <2>2, <3>1 DEF CancelledWaiting, TaskMove
    <3> QED  BY <3>2 DEF TaskPc
  <2> QED  BY <2>1, <2>2
<1>4. CASE LeaveBarrier(r)
  <2>1. TaskMove(r, "done")
    BY <1>4, ReturnMoves DEF LeaveBarrier
  <2> QED  BY <2>1 DEF TaskPc
<1>5. CASE CancelledStreaming(r) \/ CancelledClosing(r)
  <2>1. TaskMove(r, "closing")
    BY <1>5 DEF CancelledStreaming, CancelledClosing, MoveTo, TaskMove
  <2> QED  BY <2>1 DEF TaskPc
<1>6. CASE CloseEnd(r) \/ StreamEnd(r)
  <2>1. TaskMove(r, "done")
    BY <1>6, ReturnMoves DEF CloseEnd, StreamEnd
  <2> QED  BY <2>1 DEF TaskPc
<1> QED  BY <1>1, <1>2, <1>3, <1>4, <1>5, <1>6 DEF Drain

\* The steps that the save order does not see, but for timers.
orderVars == <<registered, count, status, pc, prev, cancelled, strikes, deserted>>

Aside ==
  /\ UNCHANGED orderVars
  /\ \A r \in Run : armed'[r] => armed[r] \/ registered = r

LEMMA LeaveIsAside ==
  ASSUME TypeOK, NEW c \in Clients, NEW p, Leave(c, p)
  PROVE  Aside
BY DEF Leave, ScheduleEvict, Aside, orderVars, TypeOK, taskVars

LEMMA ClientsAreAside ==
  ASSUME TypeOK, NEW c \in Clients,
         Resume(c) \/ Body(c) \/ HeartbeatTimeout(c) \/ Disconnect(c)
  PROVE  Aside
<1>1. CASE Resume(c)
  BY <1>1 DEF Resume, Aside, orderVars, taskVars
<1>2. CASE Subscribe(c)
  BY <1>2 DEF Subscribe, Aside, orderVars, taskVars, TypeOK
<1>3. CASE Replay(c)
  BY <1>3, LeaveIsAside DEF Replay, Aside, orderVars, taskVars
<1>4. CASE Take(c)
  BY <1>4 DEF Take, Aside, orderVars, taskVars
<1>5. CASE Flush(c)
  BY <1>5, LeaveIsAside DEF Flush, Aside, orderVars, taskVars
<1>6. CASE HeartbeatTimeout(c)
  BY <1>6 DEF HeartbeatTimeout, Aside, orderVars, taskVars
<1>7. CASE Disconnect(c)
  BY <1>7, LeaveIsAside DEF Disconnect, Aside, orderVars, taskVars
<1> QED  BY <1>1, <1>2, <1>3, <1>4, <1>5, <1>6, <1>7 DEF Body

\* Every step of the specification is one of six as far as saves go.
LEMMA StepKinds ==
  ASSUME TypeOK, [Next]_vars
  PROVE  \/ StartFresh \/ StartReplacing
         \/ \E r \in Run : Stop(r) \/ Evict(r) \/ \E p \in TaskPc : TaskMove(r, p)
         \/ Aside
<1>1. ASSUME NEW r \in Run, StreamEvent(r) PROVE Aside
  BY <1>1 DEF StreamEvent, Aside, orderVars
<1>2. CASE UNCHANGED vars
  BY <1>2 DEF vars, taskVars, Aside, orderVars
<1> QED  BY <1>1, <1>2, DrainMoves, ClientsAreAside DEF Next

-----------------------------------------------------------------------------
(* Each conjunct of the invariant, for each kind of step.                  *)

LEMMA OrderInit == Init => OrderInv
<1> SUFFICES ASSUME Init PROVE OrderInv
  OBVIOUS
<1>1. TypeOK
  BY TypeInit
<1>2. ChainShape
  BY DEF Init, ChainShape, Run, NoRun, Live
<1>3. StrikeCount /\ TerminalMeansSaved /\ TimerOfRegistered /\ Separated
  BY DEF Init, StrikeCount, TerminalMeansSaved, TimerOfRegistered, Separated, Run, NoRun,
         Waits, InFlight, Finished, Writing, Terminal
<1> QED  BY <1>1, <1>2, <1>3 DEF OrderInv

\* Where the registered run and the next one stand.
LEMMA NewRun ==
  ASSUME OrderInv, count < MaxRuns
  PROVE  /\ count \in Nat /\ count + 1 \in Run
         /\ pc[count + 1] = "absent" /\ ~cancelled[count + 1]
         /\ status[count + 1] = "running"
         /\ \A r \in Run : r # count + 1 => (pc[r] = "absent" <=> r > count + 1)
         /\ \A r \in Run : r < count + 1 => pc[r] # "absent"
BY DEF OrderInv, TypeOK, ChainShape, Run

LEMMA FreshShape ==
  ASSUME OrderInv, StartFresh
  PROVE  ChainShape'
<1>1. count < MaxRuns /\ count' = count + 1 /\ registered' = count + 1
  BY DEF StartFresh, Register
<1>2. pc' = [pc EXCEPT ![count + 1] = "created"]
  BY DEF StartFresh
<1>3. UNCHANGED <<status, prev, cancelled, deserted>>
  BY DEF StartFresh
<1> QED  BY <1>1, <1>2, <1>3, NewRun DEF OrderInv, TypeOK, ChainShape, Finished, Live, NoRun, Run

LEMMA ReplacingShape ==
  ASSUME OrderInv, StartReplacing
  PROVE  ChainShape'
<1>1. count < MaxRuns /\ count' = count + 1 /\ registered' = count + 1
  BY DEF StartReplacing, Register
<1>2. pc' = [pc EXCEPT ![count + 1] = "created"] /\ deserted' = deserted
  BY DEF StartReplacing
<1>3. registered = count /\ registered \in Run
  BY DEF StartReplacing, InFlight, OrderInv, TypeOK, ChainShape
<1>4. prev' = [prev EXCEPT ![count + 1] = count]
  BY <1>3 DEF StartReplacing
<1>5. \A r \in Run : r # count => status'[r] = status[r] /\ cancelled'[r] = cancelled[r]
  BY <1>3 DEF StartReplacing, Supersede, Cancel, OrderInv, TypeOK
<1> QED  BY <1>1, <1>2, <1>3, <1>4, <1>5, NewRun
         DEF OrderInv, TypeOK, ChainShape, Finished, Live, NoRun, Run

LEMMA OtherShape ==
  ASSUME OrderInv, NEW r \in Run,
         Stop(r) \/ Evict(r) \/ \E p \in TaskPc : TaskMove(r, p)
  PROVE  ChainShape'
<1>1. CASE Stop(r)
  <2>1. pc[r] # "absent"
    BY <1>1 DEF Stop, OrderInv, TypeOK, ChainShape, Run, NoRun
  <2>2. \A k \in Run : pc[k] = "absent" => cancelled'[k] = cancelled[k]
    BY <1>1, <2>1 DEF Stop, Cancel, OrderInv, TypeOK
  <2>3. UNCHANGED <<registered, count, pc, prev, status, deserted>>
    BY <1>1 DEF Stop
  <2> QED  BY <2>2, <2>3 DEF OrderInv, ChainShape, Finished, Live
<1>2. CASE Evict(r)
  <2>1. CASE registered' = registered /\ deserted' = deserted
    BY <1>2, <2>1 DEF Evict, taskVars, OrderInv, ChainShape, Finished, Live
  <2>2. CASE ~(registered' = registered /\ deserted' = deserted)
    <3>1. registered = r /\ Terminal(r) /\ registered' = NoRun
      BY <1>2, <2>2 DEF Evict
    <3>2. r = count /\ ~Live(r)
      BY <3>1 DEF OrderInv, ChainShape, TerminalMeansSaved, Live, NoRun, Run
    <3>3. deserted' = IF Finished(r) THEN deserted ELSE deserted \cup {r}
      BY <1>2, <2>2 DEF Evict
    <3> QED  BY <1>2, <3>1, <3>2, <3>3
             DEF Evict, taskVars, OrderInv, TypeOK, ChainShape, Finished, Live
  <2> QED  BY <2>1, <2>2
<1>3. ASSUME NEW p \in TaskPc, TaskMove(r, p) PROVE ChainShape'
  <2>1. p # "absent" /\ pc[r] # "absent"
    BY <1>3 DEF TaskMove
  <2>2. \A k \in Run : pc'[k] = "absent" <=> pc[k] = "absent"
    BY <1>3, <2>1 DEF TaskMove, OrderInv, TypeOK
  <2>3. \A k \in Run : pc'[k] = "absent" =>
          ~cancelled'[k] /\ status'[k] = "running" /\ prev'[k] = NoRun
    BY <1>3, <2>1, <2>2 DEF TaskMove, OrderInv, TypeOK, ChainShape
  <2>4. \A k \in Run : (Finished(k) => Finished(k)') /\ (~Live(k) => ~Live(k)')
    BY <1>3 DEF TaskMove, OrderInv, TypeOK, Finished, Live
  <2>5. registered' = NoRun /\ count' # 0 => Finished(count)' \/ count' \in deserted'
    <3>1. CASE count = 0
      BY <1>3, <3>1 DEF TaskMove
    <3>2. CASE count # 0
      <4>1. count \in Run
        BY <3>2 DEF OrderInv, TypeOK, Run
      <4> QED  BY <1>3, <2>4, <4>1 DEF TaskMove, OrderInv, ChainShape, Finished
    <3> QED  BY <3>1, <3>2
  <2>6. deserted' \subseteq Run /\ \A k \in deserted' : ~Live(k)'
    BY <1>3, <2>4 DEF TaskMove, OrderInv, TypeOK, ChainShape
  <2> QED  BY <1>3, <2>2, <2>3, <2>5, <2>6 DEF TaskMove, OrderInv, ChainShape
<1> QED  BY <1>1, <1>2, <1>3

LEMMA ShapeStep == OrderInv /\ [Next]_vars => ChainShape'
<1> SUFFICES ASSUME OrderInv, [Next]_vars PROVE ChainShape'
  OBVIOUS
<1>1. CASE Aside
  BY <1>1 DEF Aside, orderVars, OrderInv, ChainShape, Finished, Live
<1> QED  BY <1>1, StepKinds, FreshShape, ReplacingShape, OtherShape DEF OrderInv

\* A cancellation of a waiting task is counted, up to two.
LEMMA CancelStrikes ==
  ASSUME OrderInv, NEW r \in Run, Cancel(r), NEW k \in Run, Waits(k)
  PROVE  /\ cancelled'[k] \/ pc[k] = "barrier" => strikes'[k] # 0
         /\ cancelled'[k] /\ pc[k] = "barrier" => strikes'[k] = 2
<1>1. strikes \in [Run -> 0..2] /\ cancelled' = [cancelled EXCEPT ![r] = TRUE]
  BY DEF OrderInv, TypeOK, Cancel
<1>2. /\ cancelled[k] \/ pc[k] = "barrier" => strikes[k] # 0
      /\ cancelled[k] /\ pc[k] = "barrier" => strikes[k] = 2
  BY DEF OrderInv, StrikeCount
<1>3. CASE k # r
  BY <1>1, <1>2, <1>3 DEF OrderInv, TypeOK, Cancel
<1>4. CASE k = r /\ ~cancelled[r] /\ strikes[r] < 2
  <2>1. strikes'[r] = strikes[r] + 1
    BY <1>1, <1>4 DEF Cancel
  <2> QED  BY <1>1, <1>2, <1>4, <2>1
<1>5. CASE k = r /\ (cancelled[r] \/ ~(strikes[r] < 2))
  <2>1. strikes' = strikes
    BY <1>5 DEF Cancel
  <2> QED  BY <1>1, <1>2, <1>5, <2>1
<1> QED  BY <1>3, <1>4, <1>5

\* The counts of a waiting task keep up with its cancellations.
LEMMA StrikeStep == OrderInv /\ [Next]_vars => StrikeCount'
<1> SUFFICES ASSUME OrderInv, [Next]_vars PROVE StrikeCount'
  OBVIOUS
<1>1. CASE StartFresh
  <2>1. count + 1 \in Run /\ pc[count + 1] = "absent" /\ ~cancelled[count + 1]
    BY <1>1, NewRun DEF StartFresh
  <2>2. \A r \in Run : Waits(r)' => Waits(r) \/ prev[r] = count + 1
    BY <1>1, <2>1 DEF StartFresh, Waits, InFlight, Finished, OrderInv, TypeOK, NoRun
  <2>3. \A r \in Run : prev[r] # count + 1
    BY <2>1, NewRun, <1>1 DEF StartFresh, OrderInv, ChainShape, Run, NoRun
  <2> QED  BY <1>1, <2>1, <2>2, <2>3 DEF StartFresh, OrderInv, TypeOK, StrikeCount
<1>2. CASE StartReplacing
  <2>1. count + 1 \in Run /\ pc[count + 1] = "absent" /\ ~cancelled[count + 1]
    BY <1>2, NewRun DEF StartReplacing
  <2>2. registered \in Run /\ registered # count + 1
    BY <1>2, <2>1 DEF StartReplacing, InFlight, OrderInv, TypeOK, ChainShape
  <2>3. \A r \in Run : prev[r] # count + 1
    BY <1>2, NewRun DEF StartReplacing, OrderInv, ChainShape, Run, NoRun
  <2>4. \A r \in Run : r # count + 1 => (Waits(r)' => Waits(r))
    BY <1>2, <2>1, <2>3 DEF StartReplacing, Waits, InFlight, Finished, OrderInv, TypeOK, NoRun
  <2>5. Cancel(registered)
    BY <1>2 DEF StartReplacing, Supersede
  <2>6. \A r \in Run : r # count + 1 => pc'[r] = pc[r]
    BY <1>2, <2>1 DEF StartReplacing, OrderInv, TypeOK
  <2>7. pc'[count + 1] = "created" /\ ~cancelled'[count + 1]
    BY <1>2, <2>1, <2>2, <2>5 DEF StartReplacing, Cancel, OrderInv, TypeOK
  <2> QED  BY <2>2, <2>4, <2>5, <2>6, <2>7, CancelStrikes DEF StrikeCount
<1>3. ASSUME NEW r \in Run, Stop(r) PROVE StrikeCount'
  <2>1. Cancel(r) /\ UNCHANGED <<pc, prev>>
    BY <1>3 DEF Stop
  <2> QED  BY <2>1, CancelStrikes DEF StrikeCount, Waits, InFlight, Finished
<1>4. ASSUME NEW r \in Run, Evict(r) PROVE StrikeCount'
  BY <1>4 DEF Evict, taskVars, OrderInv, StrikeCount, Waits, InFlight, Finished
<1>5. ASSUME NEW r \in Run, NEW p \in TaskPc, TaskMove(r, p) PROVE StrikeCount'
  <2>1. \A k \in Run : Waits(k)' => Waits(k)
    BY <1>5 DEF TaskMove, Waits, InFlight, Finished, OrderInv, TypeOK
  <2> QED  BY <1>5, <2>1 DEF TaskMove, OrderInv, TypeOK, StrikeCount
<1>6. CASE Aside
  BY <1>6 DEF Aside, orderVars, OrderInv, StrikeCount, Waits, InFlight, Finished
<1> QED  BY <1>1, <1>2, <1>3, <1>4, <1>5, <1>6, StepKinds DEF OrderInv

LEMMA SavedStep == OrderInv /\ [Next]_vars => TerminalMeansSaved'
<1> SUFFICES ASSUME OrderInv, [Next]_vars PROVE TerminalMeansSaved'
  OBVIOUS
<1>1. CASE StartFresh \/ StartReplacing
  <2>1. count < MaxRuns /\ registered' = count + 1
    BY <1>1 DEF StartFresh, StartReplacing, Register
  <2>2. count + 1 \in Run /\ status[count + 1] = "running" /\ pc[count + 1] = "absent"
    BY <2>1, NewRun
  <2>3. CASE StartFresh
    BY <2>1, <2>2, <2>3 DEF StartFresh, TerminalMeansSaved, Terminal
  <2>4. CASE StartReplacing
    <3>1. registered # count + 1
      BY <2>2, <2>4 DEF StartReplacing, InFlight, OrderInv, ChainShape, TypeOK
    <3>2. status'[count + 1] = "running"
      BY <2>2, <2>4, <3>1 DEF StartReplacing, Supersede, OrderInv, TypeOK
    <3> QED  BY <2>1, <3>2 DEF TerminalMeansSaved, Terminal
  <2> QED  BY <1>1, <2>3, <2>4
<1>2. ASSUME NEW r \in Run, Stop(r) PROVE TerminalMeansSaved'
  BY <1>2 DEF Stop, OrderInv, TerminalMeansSaved, Terminal
<1>3. ASSUME NEW r \in Run, Evict(r) PROVE TerminalMeansSaved'
  BY <1>3 DEF Evict, taskVars, OrderInv, TerminalMeansSaved, Terminal, Run, NoRun
<1>4. ASSUME NEW r \in Run, NEW p \in TaskPc, TaskMove(r, p) PROVE TerminalMeansSaved'
  <2>1. \A k \in Run \ {r} : status'[k] = status[k] /\ pc'[k] = pc[k]
    BY <1>4 DEF TaskMove, OrderInv, TypeOK
  <2>2. p \in {"barrier", "done"} \/ (status' = status /\ pc[r] \notin {"barrier", "done"})
    BY <1>4 DEF TaskMove
  <2>3. pc'[r] = p
    BY <1>4 DEF TaskMove, OrderInv, TypeOK
  <2> QED  BY <1>4, <2>1, <2>2, <2>3 DEF TaskMove, OrderInv, TerminalMeansSaved, Terminal
<1>5. CASE Aside
  BY <1>5 DEF Aside, orderVars, OrderInv, TerminalMeansSaved, Terminal
<1> QED  BY <1>1, <1>2, <1>3, <1>4, <1>5, StepKinds DEF OrderInv

LEMMA TimerStep == OrderInv /\ [Next]_vars => TimerOfRegistered'
<1> SUFFICES ASSUME OrderInv, [Next]_vars PROVE TimerOfRegistered'
  OBVIOUS
<1>1. CASE StartFresh
  BY <1>1 DEF StartFresh, OrderInv, TimerOfRegistered
<1>2. CASE StartReplacing
  BY <1>2 DEF StartReplacing, Supersede, OrderInv, TypeOK, TimerOfRegistered
<1>3. ASSUME NEW r \in Run, Stop(r) PROVE TimerOfRegistered'
  BY <1>3 DEF Stop, OrderInv, TimerOfRegistered
<1>4. ASSUME NEW r \in Run, Evict(r) PROVE TimerOfRegistered'
  BY <1>4 DEF Evict, OrderInv, TypeOK, TimerOfRegistered
<1>5. ASSUME NEW r \in Run, NEW p \in TaskPc, TaskMove(r, p) PROVE TimerOfRegistered'
  BY <1>5 DEF TaskMove, OrderInv, TimerOfRegistered
<1>6. CASE Aside
  BY <1>6 DEF Aside, orderVars, OrderInv, TimerOfRegistered
<1> QED  BY <1>1, <1>2, <1>3, <1>4, <1>5, <1>6, StepKinds DEF OrderInv

\* A run that has nothing to wait for is separated from the live ones before it.
LEMMA NothingToWaitFor ==
  ASSUME OrderInv, NEW r \in Run, NEW s \in Run, r < s, Live(r),
         pc[s] # "absent", ~Waits(s)
  PROVE  Covered(r, s)
<1>1. CASE prev[s] = NoRun
  BY <1>1 DEF OrderInv, Separated
<1>2. CASE prev[s] # NoRun
  <2>1. prev[s] = s - 1 /\ prev[s] \in Run /\ Finished(s - 1)
    BY <1>2 DEF OrderInv, TypeOK, ChainShape, Waits, InFlight
  <2>2. r < s - 1
    BY <2>1 DEF Live, Finished, Run
  <2>3. Covered(r, s - 1) \/ Breach(s - 1)
    BY <2>1, <2>2 DEF OrderInv, Separated
  <2> QED  BY <2>1, <2>2, <2>3 DEF Covered, Run
<1> QED  BY <1>1, <1>2

\* A step that lets no breach and no finished run come undone, and after which
\* every run that is newly past its wait is separated, keeps Separated.
LEMMA SeparatedKept ==
  ASSUME OrderInv,
         \A r \in Run : Live(r)' => Live(r),
         \A k \in Run : Breach(k) => Breach(k)',
         \A s \in Run : Finished(s)' =>
           Finished(s) \/ Breach(s)' \/ (pc[s] # "absent" /\ (Writing(s) \/ ~Waits(s))),
         \A s \in Run : Writing(s)' => Writing(s) \/ (pc[s] # "absent" /\ ~Waits(s)),
         \A r, s \in Run : r < s /\ Live(r) /\ pc'[s] # "absent" /\ prev'[s] = NoRun =>
           Covered(r, s)' \/ (pc[s] # "absent" /\ prev[s] = NoRun)
  PROVE  Separated'
<1>1. ASSUME NEW r \in Run, NEW s \in Run, Covered(r, s) PROVE Covered(r, s)'
  BY <1>1 DEF Covered
<1>2. ASSUME NEW r \in Run, NEW s \in Run, r < s, Live(r)', Finished(s)'
      PROVE  Covered(r, s)' \/ Breach(s)'
  <2>1. Live(r)
    BY <1>2
  <2>2. CASE Finished(s)
    BY <1>1, <1>2, <2>1, <2>2 DEF OrderInv, Separated
  <2>3. CASE Writing(s)
    BY <1>1, <1>2, <2>1, <2>3 DEF OrderInv, Separated
  <2>4. CASE pc[s] # "absent" /\ ~Waits(s)
    BY <1>1, <1>2, <2>1, <2>4, NothingToWaitFor
  <2> QED  BY <1>2, <2>2, <2>3, <2>4
<1>3. ASSUME NEW r \in Run, NEW s \in Run, r < s, Live(r)', Writing(s)'
      PROVE  Covered(r, s)'
  <2>1. Live(r)
    BY <1>3
  <2>2. CASE Writing(s)
    BY <1>1, <1>3, <2>1, <2>2 DEF OrderInv, Separated
  <2>3. CASE pc[s] # "absent" /\ ~Waits(s)
    BY <1>1, <1>3, <2>1, <2>3, NothingToWaitFor
  <2> QED  BY <1>3, <2>2, <2>3
<1>4. ASSUME NEW r \in Run, NEW s \in Run, r < s, Live(r)', pc'[s] # "absent", prev'[s] = NoRun
      PROVE  Covered(r, s)'
  <2>1. Live(r)
    BY <1>4
  <2>2. CASE pc[s] # "absent" /\ prev[s] = NoRun
    BY <1>1, <1>4, <2>1, <2>2 DEF OrderInv, Separated
  <2> QED  BY <1>4, <2>1, <2>2
<1> QED  BY <1>2, <1>3, <1>4 DEF Separated

\* Starting a run: the new run is the only one that can break the order.
LEMMA SeparatedStart ==
  ASSUME OrderInv, StartFresh \/ StartReplacing
  PROVE  Separated'
<1>1. count \in Nat /\ count + 1 \in Run /\ pc[count + 1] = "absent"
  BY NewRun DEF StartFresh, StartReplacing
<1>2. pc' = [pc EXCEPT ![count + 1] = "created"] /\ deserted' = deserted
  BY DEF StartFresh, StartReplacing
<1>3. \A k \in Run : strikes[k] = 2 => strikes'[k] = 2
  BY DEF StartFresh, StartReplacing, Supersede, Cancel, OrderInv, TypeOK
<1>4. \A k \in Run : k # count + 1 => pc'[k] = pc[k] /\ prev'[k] = prev[k]
  BY <1>2 DEF StartFresh, StartReplacing, OrderInv, TypeOK
<1>5. pc'[count + 1] = "created"
  BY <1>1, <1>2 DEF OrderInv, TypeOK
<1>6. \A r \in Run : Live(r)' => Live(r)
  BY <1>1, <1>4 DEF Live
<1>7. \A k \in Run : Breach(k) => Breach(k)'
  BY <1>1, <1>2, <1>3, <1>4 DEF Breach
<1>8. \A s \in Run : (Finished(s)' => Finished(s)) /\ (Writing(s)' => Writing(s))
  BY <1>4, <1>5 DEF Finished, Writing
<1>9. ASSUME NEW r \in Run, NEW s \in Run, r < s, Live(r), pc'[s] # "absent", prev'[s] = NoRun
      PROVE  Covered(r, s)' \/ (pc[s] # "absent" /\ prev[s] = NoRun)
  <2>1. CASE s # count + 1
    BY <1>4, <1>9, <2>1
  <2>2. CASE s = count + 1
    <3>1. StartFresh
      <4>1. CASE StartReplacing
        <5>1. prev'[s] = registered
          BY <1>1, <2>2, <4>1 DEF StartReplacing, OrderInv, TypeOK
        <5> QED  BY <1>9, <4>1, <5>1 DEF StartReplacing, InFlight
      <4> QED  BY <4>1
    <3>2. r < count + 1 /\ count # 0 /\ count \in Run /\ r <= count
      BY <1>1, <1>9, <2>2 DEF Run
    <3>3. Finished(count) \/ count \in deserted
      BY <3>1, <3>2 DEF StartFresh, InFlight, OrderInv, ChainShape
    <3>4. ~Live(count)
      BY <3>3 DEF Finished, Live, OrderInv, ChainShape
    <3>5. r < count
      BY <1>9, <3>2, <3>4 DEF Run
    <3>6. Covered(r, count) \/ Breach(count)
      BY <1>9, <3>2, <3>3, <3>5 DEF OrderInv, Separated, Breach
    <3>7. PICK k \in Run : r < k /\ k <= count /\ Breach(k)
      BY <3>2, <3>5, <3>6 DEF Covered, Run
    <3> QED  BY <1>1, <1>7, <2>2, <3>7 DEF Covered, Run
  <2> QED  BY <2>1, <2>2
<1> QED  BY <1>6, <1>7, <1>8, <1>9, SeparatedKept

\* A task's own step: what it passes, it was separated from.
LEMMA SeparatedMove ==
  ASSUME OrderInv, NEW r \in Run, NEW p \in TaskPc, TaskMove(r, p)
  PROVE  Separated'
<1>1. pc'[r] = p /\ pc[r] # "absent" /\ \A k \in Run \ {r} : pc'[k] = pc[k]
  BY DEF TaskMove, OrderInv, TypeOK
<1>2. UNCHANGED <<prev, strikes, deserted>>
  BY DEF TaskMove
<1>3. \A k \in Run : Live(k)' => Live(k)
  BY <1>1 DEF TaskMove, Live
<1>4. \A k \in Run : Breach(k) => Breach(k)'
  BY <1>1, <1>2 DEF TaskMove, Breach
<1>5. ASSUME Finished(r)'
      PROVE  Breach(r)' \/ Writing(r) \/ ~Waits(r)
  <2>1. CASE p = "unborn"
    BY <1>1, <2>1 DEF Breach
  <2>2. CASE pc[r] = "barrier" /\ cancelled[r] /\ Waits(r)
    <3>1. strikes[r] = 2
      BY <2>2 DEF OrderInv, StrikeCount
    <3> QED  BY <1>2, <3>1 DEF Breach
  <2>3. CASE p # "unborn" /\ ~(pc[r] = "barrier" /\ cancelled[r] /\ Waits(r))
    BY <1>1, <1>5, <2>3 DEF TaskMove, Finished, Writing
  <2> QED  BY <2>1, <2>2, <2>3
<1>6. Writing(r)' => Writing(r) \/ ~Waits(r)
  BY <1>1 DEF TaskMove, Writing
<1>7. \A s \in Run : Finished(s)' =>
        Finished(s) \/ Breach(s)' \/ (pc[s] # "absent" /\ (Writing(s) \/ ~Waits(s)))
  BY <1>1, <1>5 DEF Finished
<1>8. \A s \in Run : Writing(s)' => Writing(s) \/ (pc[s] # "absent" /\ ~Waits(s))
  BY <1>1, <1>6 DEF Writing
<1>9. \A s \in Run : pc'[s] # "absent" /\ prev'[s] = NoRun => pc[s] # "absent" /\ prev[s] = NoRun
  BY <1>1, <1>2
<1> QED  BY <1>3, <1>4, <1>7, <1>8, <1>9, SeparatedKept

LEMMA SeparatedStep == OrderInv /\ [Next]_vars => Separated'
<1> SUFFICES ASSUME OrderInv, [Next]_vars PROVE Separated'
  OBVIOUS
<1>1. ASSUME UNCHANGED <<pc, prev>>, \A k \in Run : Breach(k) => Breach(k)'
      PROVE  Separated'
  <2>1. \A s \in Run : /\ (Live(s)' <=> Live(s)) /\ (Finished(s)' <=> Finished(s))
                        /\ (Writing(s)' <=> Writing(s))
    BY <1>1 DEF Live, Finished, Writing
  <2> QED  BY <1>1, <2>1, SeparatedKept
<1>2. ASSUME NEW r \in Run, Stop(r) PROVE Separated'
  <2>1. \A k \in Run : strikes[k] = 2 => strikes'[k] = 2
    BY <1>2 DEF Stop, Cancel, OrderInv, TypeOK
  <2> QED  BY <1>1, <1>2, <2>1 DEF Stop, Breach
<1>3. ASSUME NEW r \in Run, Evict(r) PROVE Separated'
  BY <1>1, <1>3 DEF Evict, taskVars, Breach
<1>4. CASE Aside
  BY <1>1, <1>4 DEF Aside, orderVars, Breach
<1> QED  BY <1>2, <1>3, <1>4, SeparatedStart, SeparatedMove, StepKinds DEF OrderInv

-----------------------------------------------------------------------------
\* The invariant holds in every reachable state.
THEOREM OrderInvariant == Spec => []OrderInv
<1>1. Init => OrderInv
  BY OrderInit
<1>2. OrderInv /\ [Next]_vars => OrderInv'
  BY TypeStep, ShapeStep, StrikeStep, SavedStep, TimerStep, SeparatedStep DEF OrderInv
<1> QED  BY <1>1, <1>2, PTL DEF Spec

\* agent_runs.py:128-150: two runs write to the session at once only if a run
\* between them lost its place in the chain of waiting tasks.
THEOREM SavesOverlapOnlyAfterBreach == Spec => []OverlapNeedsBreach
<1>1. OrderInv => OverlapNeedsBreach
  BY DEF OrderInv, Separated, OverlapNeedsBreach, Covered, Writing, Live
<1> QED  BY <1>1, OrderInvariant, PTL

\* agent_runs.py:93-95: when the registered run is not active, it has saved.
THEOREM InactiveRunHasSaved == Spec => []TerminalMeansSaved
<1>1. OrderInv => TerminalMeansSaved
  BY DEF OrderInv
<1> QED  BY <1>1, OrderInvariant, PTL

\* agent_runs.py:69-90: no grace timer outlives the registration of its run.
THEOREM NoStaleTimer == Spec => []TimerOfRegistered
<1>1. OrderInv => TimerOfRegistered
  BY DEF OrderInv
<1> QED  BY <1>1, OrderInvariant, PTL

\* agent_runs.py:81-88: eviction spares watched runs and runs that still save.
THEOREM EvictionSpares == Spec => EvictionIsSafe
<1>1. ASSUME OrderInv, [Next]_vars, NEW r \in Run, registered = r, registered' = NoRun
      PROVE  Subscribers(r) = {} /\ ~Writing(r) /\ pc[r] # "waiting"
  <2>1. registered' # registered
    BY <1>1 DEF Run, NoRun
  <2>2. ~StartFresh /\ ~StartReplacing
    BY <1>1, NewRun DEF StartFresh, StartReplacing, Register, Run, NoRun
  <2>3. PICK k \in Run : Evict(k)
    BY <1>1, <2>1, <2>2, StepKinds DEF OrderInv, Stop, TaskMove, Aside, orderVars
  <2>4. k = r /\ Terminal(r) /\ Subscribers(r) = {}
    BY <1>1, <2>1, <2>3 DEF Evict
  <2> QED  BY <1>1, <2>4 DEF OrderInv, TerminalMeansSaved, Writing
<1>2. OrderInv /\ [Next]_vars =>
        [\A r \in Run : registered = r /\ registered' = NoRun =>
           Subscribers(r) = {} /\ ~Writing(r) /\ pc[r] # "waiting"]_vars
  BY <1>1
<1> QED  BY <1>2, OrderInvariant, PTL DEF Spec, EvictionIsSafe

-----------------------------------------------------------------------------
(* What a client receives.                                                 *)

(* The queue of a subscription.  q feeds a reader that has had x of m      *)
(* events when every event it still lacks is in q, in increasing order.    *)

Feeds(q, x, m) ==
  /\ \A s \in Nat : x < s /\ s <= m => \E i \in 1..Len(q) : q[i] = s
  /\ \A i, j \in 1..Len(q) : i < j /\ q[i] # END /\ q[j] # END => q[i] < q[j]
  /\ \A i \in 1..Len(q) : q[i] <= m

LEMMA FeedsAppend ==
  ASSUME NEW q \in Seq(Nat), NEW t \in Seq(Nat), NEW x \in Nat, NEW m \in Nat, NEW n \in Nat,
         Feeds(q, x, m), m <= n,
         \A s \in Nat : m < s /\ s <= n => \E i \in 1..Len(t) : t[i] = s,
         \A i, j \in 1..Len(t) : i < j /\ t[i] # END /\ t[j] # END => t[i] < t[j],
         \A i \in 1..Len(t) : t[i] # END => m < t[i],
         \A i \in 1..Len(t) : t[i] <= n
  PROVE  Feeds(q \o t, x, n)
<1> DEFINE u == q \o t
           k == Len(q)
           l == Len(t)
<1>1. k \in Nat /\ l \in Nat /\ q \in [1..k -> Nat] /\ t \in [1..l -> Nat]
  BY LenProperties
<1>2. /\ Len(u) = k + l
      /\ \A i \in 1..(k + l) : u[i] = IF i <= k THEN q[i] ELSE t[i - k]
  BY ConcatProperties
<1> HIDE DEF u, k, l
<1>3. \A i \in 1..k : i \in 1..(k + l) /\ u[i] = q[i] /\ q[i] \in Nat
  BY <1>1, <1>2
<1>4. \A i \in 1..l : /\ i + k \in 1..(k + l) /\ ~(i + k <= k) /\ (i + k) - k = i
                     /\ t[i] \in Nat
  BY <1>1
<1>8. \A i \in 1..l : u[i + k] = t[i]
  BY <1>2, <1>4
<1>5. ASSUME NEW s \in Nat, x < s, s <= n PROVE \E i \in 1..(k + l) : u[i] = s
  <2>1. CASE s <= m
    <3>1. PICK i \in 1..k : q[i] = s
      BY <1>5, <2>1 DEF Feeds, k
    <3> QED  BY <1>3, <3>1
  <2>2. CASE m < s
    <3>1. PICK i \in 1..l : t[i] = s
      BY <1>5, <2>2 DEF l
    <3> QED  BY <1>4, <1>8, <3>1
  <2> QED  BY <2>1, <2>2
<1>6. ASSUME NEW i \in 1..(k + l), NEW j \in 1..(k + l), i < j, u[i] # END, u[j] # END
      PROVE  u[i] < u[j]
  <2>1. CASE j <= k
    <3>1. i \in 1..k /\ j \in 1..k
      BY <1>1, <1>6, <2>1
    <3> QED  BY <1>3, <1>6, <3>1 DEF Feeds, k
  <2>2. CASE i <= k /\ k < j
    <3>1. i \in 1..k /\ j - k \in 1..l
      BY <1>1, <2>2
    <3>2. u[i] = q[i] /\ q[i] \in Nat /\ q[i] <= m
      BY <1>3, <3>1 DEF Feeds, k
    <3>3. u[j] = t[j - k] /\ t[j - k] \in Nat
      BY <1>1, <1>2, <2>2, <3>1
    <3>4. m < u[j]
      BY <1>6, <3>1, <3>3 DEF l
    <3> QED  BY <3>2, <3>3, <3>4
  <2>3. CASE k < i
    <3>1. i - k \in 1..l /\ j - k \in 1..l /\ i - k < j - k
      BY <1>1, <1>6, <2>3
    <3>2. u[i] = t[i - k] /\ u[j] = t[j - k]
      BY <1>1, <1>2, <1>6, <2>3
    <3> QED  BY <1>6, <3>1, <3>2 DEF l
  <2> QED  BY <1>1, <2>1, <2>2, <2>3
<1>7. ASSUME NEW i \in 1..(k + l) PROVE u[i] <= n
  <2>1. CASE i <= k
    <3>1. i \in 1..k
      BY <1>1, <2>1
    <3>2. u[i] \in Nat /\ u[i] <= m
      BY <1>3, <3>1 DEF Feeds, k
    <3> QED  BY <3>2
  <2>2. CASE k < i
    <3>1. i - k \in 1..l /\ u[i] = t[i - k]
      BY <1>1, <1>2, <2>2
    <3> QED  BY <3>1 DEF l
  <2> QED  BY <1>1, <2>1, <2>2
<1>9. Feeds(u, x, n)
  BY <1>2, <1>5, <1>6, <1>7 DEF Feeds
<1> QED  BY <1>9 DEF u

\* What _publish and _wake_run_subscribers put keeps a queue feeding.
LEMMA FanOutFeeds ==
  ASSUME NEW q \in Seq(Nat), NEW x \in Nat, NEW m \in Nat, NEW n \in Nat, NEW w \in BOOLEAN,
         Feeds(q, x, m)
  PROVE  Feeds(q \o [i \in 1..n |-> m + i] \o (IF w THEN <<END>> ELSE <<>>), x, m + n)
<1> DEFINE new == [i \in 1..n |-> m + i]
           end == IF w THEN <<END>> ELSE <<>>
<1>1. new \in Seq(Nat) /\ Len(new) = n
  BY IsASeq
<1>2. q \o new \in Seq(Nat)
  BY <1>1, ConcatProperties
<1>3. Feeds(q \o new, x, m + n)
  <2>1. \A s \in Nat : m < s /\ s <= m + n => s - m \in 1..Len(new) /\ new[s - m] = s
    BY <1>1
  <2>2. \A i \in 1..Len(new) : new[i] = m + i
    BY <1>1
  <2> HIDE DEF new
  <2>3. \A i, j \in 1..Len(new) : i < j => new[i] < new[j]
    BY <1>1, <2>2
  <2>4. \A i \in 1..Len(new) : m < new[i] /\ new[i] <= m + n
    BY <1>1, <2>2
  <2>5. \A s \in Nat : m < s /\ s <= m + n => \E i \in 1..Len(new) : new[i] = s
    BY <2>1
  <2>6. m + n \in Nat /\ m <= m + n
    OBVIOUS
  <2> QED  BY <1>1, <2>3, <2>4, <2>5, <2>6, FeedsAppend
<1>4. end \in Seq(Nat) /\ \A i \in 1..Len(end) : end[i] = END
  BY DEF END
<1> HIDE DEF new, end
<1>5. Feeds((q \o new) \o end, x, m + n)
  <2>1. \A i \in 1..Len(end) : end[i] <= m + n
    BY <1>4 DEF END
  <2>2. m + n \in Nat /\ m + n <= m + n
    OBVIOUS
  <2>3. \A s \in Nat : m + n < s /\ s <= m + n => \E i \in 1..Len(end) : end[i] = s
    OBVIOUS
  <2>4. \A i, j \in 1..Len(end) : i < j /\ end[i] # END /\ end[j] # END => end[i] < end[j]
    BY <1>4
  <2>5. \A i \in 1..Len(end) : end[i] # END => m + n < end[i]
    BY <1>4
  <2> QED  BY <1>2, <1>3, <1>4, <2>1, <2>2, <2>3, <2>4, <2>5, FeedsAppend
<1> QED  BY <1>5 DEF new, end

\* The head of a feeding queue is the next event, or one already had, or END.
LEMMA TakeFeeds ==
  ASSUME NEW q \in Seq(Nat), q # <<>>, NEW x \in Nat, NEW m \in Nat, Feeds(q, x, m),
         Head(q) # END
  PROVE  /\ x < Head(q) => Head(q) = x + 1 /\ Head(q) <= m /\ Feeds(Tail(q), Head(q), m)
         /\ Head(q) <= x => Feeds(Tail(q), x, m)
<1>1. /\ Head(q) \in Nat /\ Tail(q) \in Seq(Nat) /\ Len(Tail(q)) = Len(q) - 1
      /\ \A i \in 1..Len(Tail(q)) : Tail(q)[i] = q[i + 1]
  BY HeadTailProperties
<1>2. Len(q) \in Nat /\ Len(q) # 0 /\ Head(q) = q[1]
  BY LenProperties, EmptySeq
<1>3. \A i \in 1..Len(Tail(q)) : i + 1 \in 1..Len(q)
  BY <1>1, <1>2
<1>4. \A i \in 1..Len(q) : q[i] \in Nat
  BY ElementOfSeq
<1>5. ASSUME NEW y \in Nat, x <= y, Head(q) <= y PROVE Feeds(Tail(q), y, m)
  <2>1. ASSUME NEW s \in Nat, y < s, s <= m PROVE \E i \in 1..Len(Tail(q)) : Tail(q)[i] = s
    <3>1. PICK i \in 1..Len(q) : q[i] = s
      BY <1>5, <2>1 DEF Feeds
    <3>2. i # 1
      BY <1>1, <1>2, <1>5, <2>1, <3>1
    <3>3. i - 1 \in 1..Len(Tail(q)) /\ Tail(q)[i - 1] = s
      BY <1>1, <1>2, <3>1, <3>2
    <3> QED  BY <3>3
  <2>2. ASSUME NEW i \in 1..Len(Tail(q)), NEW j \in 1..Len(Tail(q)), i < j,
               Tail(q)[i] # END, Tail(q)[j] # END
        PROVE  Tail(q)[i] < Tail(q)[j]
    BY <1>1, <1>3, <2>2 DEF Feeds
  <2>3. \A i \in 1..Len(Tail(q)) : Tail(q)[i] <= m
    BY <1>1, <1>3 DEF Feeds
  <2> QED  BY <2>1, <2>2, <2>3 DEF Feeds
<1>6. Head(q) <= m
  BY <1>2 DEF Feeds
<1>7. x < Head(q) => Head(q) = x + 1
  <2> SUFFICES ASSUME x + 1 < Head(q) PROVE FALSE
    BY <1>1
  <2>1. PICK i \in 1..Len(q) : q[i] = x + 1
    BY <1>1, <1>6 DEF Feeds
  <2>2. i # 1
    BY <1>1, <1>2, <2>1
  <2>3. q[1] < q[i]
    BY <1>2, <2>1, <2>2 DEF Feeds, END
  <2> QED  BY <1>1, <1>2, <2>1, <2>3
<1> QED  BY <1>1, <1>5, <1>6, <1>7

-----------------------------------------------------------------------------
(* The inductive invariant of delivery.                                    *)

\* A client that is replaying still has the events of its first moment in the
\* buffer and everything later in its queue; a live one has all in its queue.
DeliveryInv ==
  /\ TypeOK
  /\ GapFree
  /\ \A c \in Clients : phase[c] # "idle" => bound[c] \in Run
  /\ \A c \in Clients : Attached(c) => next[c] <= len[bound[c]]
  /\ \A c \in Clients : phase[c] = "replay" =>
       \E y \in Nat : y <= len[bound[c]] /\ Feeds(queue[c], y, len[bound[c]])
  /\ \A c \in Clients : phase[c] = "live" => Feeds(queue[c], next[c], len[bound[c]])

LEMMA GotAppend ==
  ASSUME NEW n \in Nat
  PROVE  Append([i \in 1..n |-> i], n + 1) = [i \in 1..(n + 1) |-> i]
<1> DEFINE s == [i \in 1..n |-> i]
           t == [i \in 1..(n + 1) |-> i]
<1>1. s \in Seq(Nat) /\ Len(s) = n /\ t \in Seq(Nat) /\ Len(t) = n + 1
  BY IsASeq
<1>2. /\ Append(s, n + 1) \in Seq(Nat) /\ Len(Append(s, n + 1)) = n + 1
      /\ \A i \in 1..n : Append(s, n + 1)[i] = s[i]
      /\ Append(s, n + 1)[n + 1] = n + 1
  BY <1>1, AppendProperties
<1>3. \A i \in 1..(n + 1) : Append(s, n + 1)[i] = t[i]
  BY <1>2
<1> HIDE DEF s, t
<1>4. Append(s, n + 1) = t
  BY <1>1, <1>2, <1>3, SeqEqual
<1> QED  BY <1>4 DEF s, t

\* Yielding the next event keeps the delivered sequence gap-free.
LEMMA YieldNext ==
  ASSUME DeliveryInv, NEW c \in Clients, Yield(c, next[c] + 1)
  PROVE  /\ GapFree'
         /\ next'[c] = next[c] + 1
         /\ \A d \in Clients \ {c} : next'[d] = next[d]
<1>1. /\ next' = [next EXCEPT ![c] = next[c] + 1]
      /\ got' = [got EXCEPT ![c] = Append(got[c], next[c] + 1)]
  BY DEF Yield
<1>2. next \in [Clients -> Nat] /\ got \in [Clients -> Seq(Nat)]
  BY DEF DeliveryInv, TypeOK
<1>3. Append(got[c], next[c] + 1) = [i \in 1..(next[c] + 1) |-> i]
  BY <1>2, GotAppend DEF DeliveryInv, GapFree
<1>4. \A d \in Clients : got'[d] = [i \in 1..next'[d] |-> i]
  BY <1>1, <1>2, <1>3 DEF DeliveryInv, GapFree
<1> QED  BY <1>1, <1>2, <1>4 DEF GapFree

\* Publishing and waking: every subscriber's queue keeps feeding it.
LEMMA FanOutDelivers ==
  ASSUME DeliveryInv, TypeOK', NEW r \in Run, NEW n \in Nat, NEW w \in BOOLEAN, FanOut(r, n, w),
         UNCHANGED <<next, got>>,
         \A c \in Clients : \/ phase'[c] = phase[c] /\ bound'[c] = bound[c]
                            \/ phase'[c] = "bound" /\ bound'[c] \in Run
  PROVE  DeliveryInv'
<1>1. len' = [len EXCEPT ![r] = len[r] + n] /\ len \in [Run -> Nat]
  BY DEF FanOut, DeliveryInv, TypeOK
<1>2. \A k \in Run : len[k] <= len'[k] /\ len'[k] \in Nat
  BY <1>1
<1>3. ASSUME NEW c \in Clients, Attached(c), NEW y \in Nat, Feeds(queue[c], y, len[bound[c]])
      PROVE  Feeds(queue'[c], y, len'[bound[c]])
  <2>1. bound[c] \in Run /\ queue[c] \in Seq(Nat)
    BY <1>3 DEF DeliveryInv, TypeOK, Attached
  <2>2. CASE bound[c] = r
    <3>1. queue'[c] = queue[c] \o [i \in 1..n |-> len[r] + i] \o (IF w THEN <<END>> ELSE <<>>)
      BY <1>3, <2>2 DEF FanOut, Subscribers
    <3>2. len[r] \in Nat /\ len'[r] = len[r] + n
      BY <1>1
    <3> QED  BY <1>3, <2>1, <2>2, <3>1, <3>2, FanOutFeeds
  <2>3. CASE bound[c] # r
    <3>1. queue'[c] = queue[c] /\ len'[bound[c]] = len[bound[c]]
      BY <1>1, <2>1, <2>3 DEF FanOut, Subscribers
    <3> QED  BY <1>3, <3>1
  <2> QED  BY <2>2, <2>3
<1>4. \A c \in Clients : Attached(c)' => Attached(c) /\ phase'[c] = phase[c] /\ bound'[c] = bound[c]
  BY DEF Attached
<1>5. GapFree'
  BY DEF DeliveryInv, GapFree
<1>6. \A c \in Clients : phase'[c] # "idle" => bound'[c] \in Run
  BY DEF DeliveryInv
<1>7. ASSUME NEW c \in Clients, Attached(c)' PROVE next'[c] <= len'[bound'[c]]
  <2>1. Attached(c) /\ bound[c] \in Run /\ bound'[c] = bound[c] /\ next[c] \in Nat
    BY <1>4, <1>7 DEF DeliveryInv, TypeOK, Attached
  <2>2. next[c] <= len[bound[c]]
    BY <2>1 DEF DeliveryInv
  <2> QED  BY <1>1, <1>2, <2>1, <2>2
<1>8. ASSUME NEW c \in Clients, phase'[c] = "replay"
      PROVE  \E y \in Nat : y <= len'[bound'[c]] /\ Feeds(queue'[c], y, len'[bound'[c]])
  <2>1. Attached(c) /\ phase[c] = "replay" /\ bound'[c] = bound[c] /\ bound[c] \in Run
    BY <1>8 DEF Attached, DeliveryInv
  <2>2. PICK y \in Nat : y <= len[bound[c]] /\ Feeds(queue[c], y, len[bound[c]])
    BY <2>1 DEF DeliveryInv
  <2>3. y <= len'[bound[c]]
    BY <1>1, <1>2, <2>1, <2>2
  <2> QED  BY <1>3, <2>1, <2>2, <2>3
<1>9. ASSUME NEW c \in Clients, phase'[c] = "live"
      PROVE  Feeds(queue'[c], next'[c], len'[bound'[c]])
  <2>1. Attached(c) /\ phase[c] = "live" /\ bound'[c] = bound[c] /\ next[c] \in Nat
    BY <1>9 DEF Attached, DeliveryInv, TypeOK
  <2> QED  BY <1>3, <2>1 DEF DeliveryInv
<1> QED  BY <1>5, <1>6, <1>7, <1>8, <1>9 DEF DeliveryInv

\* Steps that touch no buffer, no queue and no position: clients only move on.
LEMMA QuietDelivers ==
  ASSUME DeliveryInv, TypeOK', UNCHANGED <<len, queue, next, got>>,
         \A c \in Clients :
           \/ phase'[c] = phase[c] /\ bound'[c] = bound[c]
           \/ phase'[c] \in {"idle", "bound", "closed"} /\ (phase'[c] # "idle" => bound'[c] \in Run)
           \/ phase'[c] = "flush" /\ Attached(c) /\ bound'[c] = bound[c]
           \/ /\ phase[c] = "replay" /\ phase'[c] = "live" /\ bound'[c] = bound[c]
              /\ next[c] >= len[bound[c]]
  PROVE  DeliveryInv'
<1>1. GapFree'
  BY DEF DeliveryInv, GapFree
<1>2. \A c \in Clients : phase'[c] # "idle" => bound'[c] \in Run
  BY DEF DeliveryInv, Attached
<1>3. ASSUME NEW c \in Clients, Attached(c)' PROVE Attached(c) /\ bound'[c] = bound[c]
  BY <1>3 DEF Attached
<1>4. \A c \in Clients : Attached(c)' => next'[c] <= len'[bound'[c]]
  BY <1>3 DEF DeliveryInv
<1>5. \A c \in Clients : phase'[c] = "replay" => phase[c] = "replay" /\ bound'[c] = bound[c]
  OBVIOUS
<1>6. \A c \in Clients : phase'[c] = "replay" =>
        \E y \in Nat : y <= len'[bound'[c]] /\ Feeds(queue'[c], y, len'[bound'[c]])
  BY <1>5 DEF DeliveryInv
<1>7. ASSUME NEW c \in Clients, phase'[c] = "live"
      PROVE  Feeds(queue'[c], next'[c], len'[bound'[c]])
  <2>1. CASE phase[c] = "live"
    BY <1>7, <2>1 DEF DeliveryInv
  <2>2. CASE phase[c] # "live"
    <3>1. phase[c] = "replay" /\ bound'[c] = bound[c] /\ next[c] >= len[bound[c]]
      BY <1>7, <2>2
    <3>2. PICK y \in Nat : y <= len[bound[c]] /\ Feeds(queue[c], y, len[bound[c]])
      BY <3>1 DEF DeliveryInv
    <3>3. bound[c] \in Run /\ len[bound[c]] \in Nat /\ next[c] \in Nat
      BY <3>1 DEF DeliveryInv, TypeOK
    <3>4. Feeds(queue[c], next[c], len[bound[c]])
      BY <3>1, <3>2, <3>3 DEF Feeds
    <3> QED  BY <3>1, <3>4
  <2> QED  BY <2>1, <2>2
<1> QED  BY <1>1, <1>2, <1>4, <1>6, <1>7 DEF DeliveryInv

\* A response that yields the next event of the buffer, in replay or flush.
LEMMA BufferYieldDelivers ==
  ASSUME DeliveryInv, TypeOK', NEW c \in Clients, phase[c] \in {"replay", "flush"},
         next[c] < len[bound[c]], Yield(c, next[c] + 1), UNCHANGED <<len, phase, bound, queue>>
  PROVE  DeliveryInv'
<1>1. /\ GapFree' /\ next'[c] = next[c] + 1
      /\ \A d \in Clients \ {c} : next'[d] = next[d]
  BY YieldNext
<1>2. bound[c] \in Run /\ len[bound[c]] \in Nat /\ next[c] \in Nat
  BY DEF DeliveryInv, TypeOK
<1>3. \A d \in Clients : Attached(d)' => next'[d] <= len'[bound'[d]]
  BY <1>1, <1>2 DEF DeliveryInv, Attached
<1>4. \A d \in Clients : phase'[d] = "live" => Feeds(queue'[d], next'[d], len'[bound'[d]])
  BY <1>1 DEF DeliveryInv
<1> QED  BY <1>1, <1>3, <1>4 DEF DeliveryInv

LEMMA SubscribeDelivers ==
  ASSUME DeliveryInv, TypeOK', NEW c \in Clients, Subscribe(c)
  PROVE  DeliveryInv'
<1>1. /\ phase[c] = "bound" /\ UNCHANGED <<len, bound>>
      /\ phase' = [phase EXCEPT ![c] = "replay"] /\ queue' = [queue EXCEPT ![c] = <<>>]
      /\ next' = [next EXCEPT ![c] = 0] /\ got' = [got EXCEPT ![c] = <<>>]
  BY DEF Subscribe, taskVars
<1>2. bound[c] \in Run /\ len[bound[c]] \in Nat
  BY <1>1 DEF DeliveryInv, TypeOK
<1>3. \A d \in Clients \ {c} : /\ phase'[d] = phase[d] /\ queue'[d] = queue[d]
                              /\ next'[d] = next[d] /\ got'[d] = got[d]
  BY <1>1 DEF DeliveryInv, TypeOK
<1>4. phase'[c] = "replay" /\ queue'[c] = <<>> /\ next'[c] = 0 /\ got'[c] = <<>>
  BY <1>1 DEF DeliveryInv, TypeOK
<1>5. Feeds(queue'[c], len[bound[c]], len[bound[c]])
  BY <1>2, <1>4 DEF Feeds
<1>6. <<>> = [i \in 1..0 |-> i]
  OBVIOUS
<1>7. GapFree'
  BY <1>3, <1>4, <1>6 DEF DeliveryInv, GapFree
<1>8. \A d \in Clients : Attached(d)' => next'[d] <= len'[bound'[d]]
  BY <1>1, <1>2, <1>3, <1>4 DEF DeliveryInv, Attached
<1>9. \A d \in Clients : phase'[d] = "replay" =>
        \E y \in Nat : y <= len'[bound'[d]] /\ Feeds(queue'[d], y, len'[bound'[d]])
  BY <1>1, <1>2, <1>3, <1>5 DEF DeliveryInv
<1>10. \A d \in Clients : phase'[d] = "live" => Feeds(queue'[d], next'[d], len'[bound'[d]])
  BY <1>1, <1>3, <1>4 DEF DeliveryInv
<1> QED  BY <1>1, <1>2, <1>3, <1>7, <1>8, <1>9, <1>10 DEF DeliveryInv

LEMMA TakeDelivers ==
  ASSUME DeliveryInv, TypeOK', NEW c \in Clients, Take(c)
  PROVE  DeliveryInv'
<1> DEFINE s == Head(queue[c])
           m == len[bound[c]]
<1>1. /\ phase[c] = "live" /\ queue[c] # <<>> /\ UNCHANGED <<len, bound>>
      /\ queue' = [queue EXCEPT ![c] = Tail(queue[c])]
  BY DEF Take, taskVars
<1>2. bound[c] \in Run /\ m \in Nat /\ next[c] \in Nat /\ queue[c] \in Seq(Nat)
  BY <1>1 DEF DeliveryInv, TypeOK
<1>3. Feeds(queue[c], next[c], m) /\ next[c] <= m
  BY <1>1 DEF DeliveryInv, Attached
<1>4. s \in Nat
  BY <1>1, <1>2, HeadTailProperties
<1>5. \A d \in Clients \ {c} : queue'[d] = queue[d]
  BY <1>1 DEF DeliveryInv, TypeOK
<1>6. queue'[c] = Tail(queue[c])
  BY <1>1 DEF DeliveryInv, TypeOK
<1>7. s # END => /\ next[c] < s => s = next[c] + 1 /\ s <= m /\ Feeds(Tail(queue[c]), s, m)
                 /\ s <= next[c] => Feeds(Tail(queue[c]), next[c], m)
  BY <1>1, <1>2, <1>3, TakeFeeds
<1>8. CASE s = END
  <2>1. phase' = [phase EXCEPT ![c] = "flush"] /\ UNCHANGED <<next, got>>
    BY <1>8 DEF Take
  <2>2. phase'[c] = "flush" /\ \A d \in Clients \ {c} : phase'[d] = phase[d]
    BY <2>1 DEF DeliveryInv, TypeOK
  <2>3. \A d \in Clients : Attached(d)' => next'[d] <= len'[bound'[d]]
    BY <1>1, <1>3, <2>1, <2>2 DEF DeliveryInv, Attached
  <2>4. GapFree' /\ \A d \in Clients : phase'[d] # "idle" => bound'[d] \in Run
    BY <1>1, <1>2, <2>1, <2>2 DEF DeliveryInv, GapFree
  <2>5. \A d \in Clients : phase'[d] = "replay" =>
          \E y \in Nat : y <= len'[bound'[d]] /\ Feeds(queue'[d], y, len'[bound'[d]])
    BY <1>1, <1>5, <2>2 DEF DeliveryInv
  <2>6. \A d \in Clients : phase'[d] = "live" => Feeds(queue'[d], next'[d], len'[bound'[d]])
    BY <1>1, <1>5, <2>1, <2>2 DEF DeliveryInv
  <2> QED  BY <2>3, <2>4, <2>5, <2>6 DEF DeliveryInv
<1>9. CASE s # END /\ next[c] < s
  <2>1. s = next[c] + 1 /\ Yield(c, next[c] + 1) /\ phase' = phase
    BY <1>2, <1>4, <1>7, <1>9 DEF Take
  <2>2. /\ GapFree' /\ next'[c] = next[c] + 1
        /\ \A d \in Clients \ {c} : next'[d] = next[d]
    BY <2>1, YieldNext
  <2>3. \A d \in Clients : Attached(d)' => next'[d] <= len'[bound'[d]]
    BY <1>1, <1>7, <1>9, <2>1, <2>2 DEF DeliveryInv, Attached
  <2>4. \A d \in Clients : phase'[d] = "replay" =>
          \E y \in Nat : y <= len'[bound'[d]] /\ Feeds(queue'[d], y, len'[bound'[d]])
    BY <1>1, <1>5, <2>1 DEF DeliveryInv
  <2>5. \A d \in Clients : phase'[d] = "live" => Feeds(queue'[d], next'[d], len'[bound'[d]])
    BY <1>1, <1>5, <1>6, <1>7, <1>9, <2>1, <2>2 DEF DeliveryInv
  <2>6. \A d \in Clients : phase'[d] # "idle" => bound'[d] \in Run
    BY <1>1, <2>1 DEF DeliveryInv
  <2> QED  BY <2>2, <2>3, <2>4, <2>5, <2>6 DEF DeliveryInv
<1>10. CASE s # END /\ s <= next[c]
  <2>1. UNCHANGED <<phase, next, got>>
    BY <1>2, <1>4, <1>10 DEF Take
  <2>2. \A d \in Clients : phase'[d] = "replay" =>
          \E y \in Nat : y <= len'[bound'[d]] /\ Feeds(queue'[d], y, len'[bound'[d]])
    BY <1>1, <1>5, <2>1 DEF DeliveryInv
  <2>3. \A d \in Clients : phase'[d] = "live" => Feeds(queue'[d], next'[d], len'[bound'[d]])
    BY <1>1, <1>5, <1>6, <1>7, <1>10, <2>1 DEF DeliveryInv
  <2>4. GapFree' /\ \A d \in Clients : phase'[d] # "idle" => bound'[d] \in Run
    BY <1>1, <2>1 DEF DeliveryInv, GapFree
  <2>5. \A d \in Clients : Attached(d)' => next'[d] <= len'[bound'[d]]
    BY <1>1, <2>1 DEF DeliveryInv, Attached
  <2> QED  BY <2>2, <2>3, <2>4, <2>5 DEF DeliveryInv
<1> QED  BY <1>2, <1>4, <1>8, <1>9, <1>10

\* A client that leaves is not attached any more.
LEMMA LeaveDelivers ==
  ASSUME DeliveryInv, TypeOK', NEW c \in Clients, NEW p \in {"idle", "closed"}, Attached(c),
         Leave(c, p)
  PROVE  DeliveryInv'
<1>1. /\ UNCHANGED <<len, bound, queue, next, got>> /\ phase' = [phase EXCEPT ![c] = p]
      /\ bound[c] \in Run
  BY DEF Leave, taskVars, DeliveryInv, Attached
<1>2. phase'[c] = p /\ \A d \in Clients \ {c} : phase'[d] = phase[d]
  BY <1>1 DEF DeliveryInv, TypeOK
<1> QED  BY <1>1, <1>2, QuietDelivers

LEMMA ReturnDelivers ==
  ASSUME DeliveryInv, TypeOK', NEW r \in Run, NEW s, NEW n \in Nat, NEW w \in BOOLEAN,
         Return(r, s, n, w)
  PROVE  DeliveryInv'
BY FanOutDelivers DEF Return

LEMMA MoveToDelivers ==
  ASSUME DeliveryInv, TypeOK', NEW r \in Run, NEW p, MoveTo(r, p)
  PROVE  DeliveryInv'
BY QuietDelivers DEF MoveTo, clientVars

LEMMA RegisterDelivers ==
  ASSUME TypeOK, count < MaxRuns, NEW C \in NewResponse, Register(count + 1, C)
  PROVE  \A c \in Clients : \/ phase'[c] = phase[c] /\ bound'[c] = bound[c]
                            \/ phase'[c] = "bound" /\ bound'[c] \in Run
BY DEF Register, TypeOK, Run

LEMMA DeliveryInit == Init => DeliveryInv
<1> SUFFICES ASSUME Init PROVE DeliveryInv
  OBVIOUS
<1>1. TypeOK
  BY TypeInit
<1>2. <<>> = [i \in 1..0 |-> i]
  OBVIOUS
<1>3. GapFree
  BY <1>2 DEF Init, GapFree
<1> QED  BY <1>1, <1>3 DEF Init, DeliveryInv, Attached

LEMMA DeliveryStep == DeliveryInv /\ [Next]_vars => DeliveryInv'
<1> SUFFICES ASSUME DeliveryInv, [Next]_vars PROVE DeliveryInv'
  OBVIOUS
<1>0. TypeOK'
  BY TypeStep DEF DeliveryInv
<1>1. CASE StartFresh
  <2>1. PICK C \in NewResponse : Register(count + 1, C)
    BY <1>1 DEF StartFresh
  <2>2. \A c \in Clients : \/ phase'[c] = phase[c] /\ bound'[c] = bound[c]
                           \/ phase'[c] = "bound" /\ bound'[c] \in Run
    BY <1>1, <2>1, RegisterDelivers DEF StartFresh, DeliveryInv
  <2> QED  BY <1>0, <1>1, <2>2, QuietDelivers DEF StartFresh
<1>2. CASE StartReplacing
  <2>1. PICK C \in NewResponse : Register(count + 1, C)
    BY <1>2 DEF StartReplacing
  <2>2. \A c \in Clients : \/ phase'[c] = phase[c] /\ bound'[c] = bound[c]
                           \/ phase'[c] = "bound" /\ bound'[c] \in Run
    BY <1>2, <2>1, RegisterDelivers DEF StartReplacing, DeliveryInv
  <2>3. registered \in Run /\ FanOut(registered, 0, status[registered] = "running")
    BY <1>2 DEF StartReplacing, Supersede, InFlight, DeliveryInv, TypeOK
  <2> QED  BY <1>0, <1>2, <2>2, <2>3, FanOutDelivers DEF StartReplacing
<1>3. ASSUME NEW r \in Run, Stop(r) PROVE DeliveryInv'
  BY <1>0, <1>3, QuietDelivers DEF Stop, clientVars
<1>4. ASSUME NEW r \in Run, Drain(r) PROVE DeliveryInv'
  <2>1. CASE Begin(r) \/ PredecessorDone(r) \/ CancelledStreaming(r) \/ CancelledClosing(r)
    BY <1>0, <2>1, MoveToDelivers
       DEF Begin, PredecessorDone, CancelledStreaming, CancelledClosing
  <2>2. CASE CancelledWaiting(r)
    <3>1. CASE Waits(r)
      BY <1>0, <2>2, <3>1, FanOutDelivers DEF CancelledWaiting
    <3>2. CASE ~Waits(r)
      BY <1>0, <2>2, <3>2, ReturnDelivers DEF CancelledWaiting
    <3> QED  BY <3>1, <3>2
  <2>3. CASE LeaveBarrier(r) \/ CloseEnd(r)
    BY <1>0, <2>3, ReturnDelivers DEF LeaveBarrier, CloseEnd
  <2> QED  BY <1>4, <2>1, <2>2, <2>3 DEF Drain
<1>5. ASSUME NEW r \in Run, StreamEvent(r) PROVE DeliveryInv'
  BY <1>0, <1>5, FanOutDelivers DEF StreamEvent
<1>6. ASSUME NEW r \in Run, StreamEnd(r) PROVE DeliveryInv'
  BY <1>0, <1>6, ReturnDelivers DEF StreamEnd
<1>7. ASSUME NEW r \in Run, Evict(r) PROVE DeliveryInv'
  BY <1>0, <1>7, QuietDelivers DEF Evict, taskVars, clientVars
<1>8. ASSUME NEW c \in Clients, Resume(c) PROVE DeliveryInv'
  <2>1. registered \in Run
    BY <1>8 DEF Resume, DeliveryInv, TypeOK
  <2>2. \A d \in Clients : \/ phase'[d] = phase[d] /\ bound'[d] = bound[d]
                           \/ phase'[d] = "bound" /\ bound'[d] \in Run
    BY <1>8, <2>1 DEF Resume, DeliveryInv, TypeOK
  <2> QED  BY <1>0, <1>8, <2>2, QuietDelivers DEF Resume, taskVars
<1>9. ASSUME NEW c \in Clients, Subscribe(c) PROVE DeliveryInv'
  BY <1>0, <1>9, SubscribeDelivers
<1>10. ASSUME NEW c \in Clients, Replay(c) PROVE DeliveryInv'
  <2>1. CASE next[c] < len[bound[c]] /\ Yield(c, next[c] + 1)
             /\ UNCHANGED <<len, phase, bound, queue>>
    BY <1>0, <1>10, <2>1, BufferYieldDelivers DEF Replay
  <2>2. CASE Leave(c, "closed")
    BY <1>0, <1>10, <2>2, LeaveDelivers DEF Replay, Attached
  <2>3. CASE /\ next[c] >= len[bound[c]]
             /\ phase' = [phase EXCEPT ![c] = "live"] /\ UNCHANGED <<len, bound, queue, next, got>>
    <3>1. phase'[c] = "live" /\ phase[c] = "replay" /\ \A d \in Clients \ {c} : phase'[d] = phase[d]
      BY <1>10, <2>3 DEF Replay, DeliveryInv, TypeOK
    <3> QED  BY <1>0, <2>3, <3>1, QuietDelivers
  <2> QED  BY <1>10, <2>1, <2>2, <2>3 DEF Replay, taskVars
<1>11. ASSUME NEW c \in Clients, Take(c) PROVE DeliveryInv'
  BY <1>0, <1>11, TakeDelivers
<1>12. ASSUME NEW c \in Clients, HeartbeatTimeout(c) PROVE DeliveryInv'
  <2>1. phase'[c] = "flush" /\ Attached(c) /\ \A d \in Clients \ {c} : phase'[d] = phase[d]
    BY <1>12 DEF HeartbeatTimeout, DeliveryInv, TypeOK, Attached
  <2> QED  BY <1>0, <1>12, <2>1, QuietDelivers DEF HeartbeatTimeout, taskVars
<1>13. ASSUME NEW c \in Clients, Flush(c) PROVE DeliveryInv'
  <2>1. CASE next[c] < len[bound[c]] /\ Yield(c, next[c] + 1)
             /\ UNCHANGED <<len, phase, bound, queue>>
    BY <1>0, <1>13, <2>1, BufferYieldDelivers DEF Flush
  <2>2. CASE Leave(c, "closed")
    BY <1>0, <1>13, <2>2, LeaveDelivers DEF Flush, Attached
  <2> QED  BY <1>13, <2>1, <2>2 DEF Flush, taskVars
<1>14. ASSUME NEW c \in Clients, Disconnect(c) PROVE DeliveryInv'
  <2>1. CASE Attached(c) /\ Leave(c, "idle")
    BY <1>0, <2>1, LeaveDelivers
  <2>2. CASE phase' = [phase EXCEPT ![c] = "idle"] /\ UNCHANGED <<len, bound, queue, next, got>>
    <3>1. phase'[c] = "idle" /\ \A d \in Clients \ {c} : phase'[d] = phase[d]
      BY <2>2 DEF DeliveryInv, TypeOK
    <3> QED  BY <1>0, <2>2, <3>1, QuietDelivers
  <2> QED  BY <1>14, <2>1, <2>2 DEF Disconnect, taskVars
<1>15. CASE UNCHANGED vars
  BY <1>0, <1>15, QuietDelivers DEF vars, taskVars, clientVars
<1> QED
  BY <1>1, <1>2, <1>3, <1>4, <1>5, <1>6, <1>7, <1>8, <1>9, <1>10, <1>11, <1>12, <1>13,
     <1>14, <1>15 DEF Next, Body

THEOREM DeliveryInvariant == Spec => []DeliveryInv
<1> QED  BY DeliveryInit, DeliveryStep, PTL DEF Spec

\* subscribe(): every client receives the events of its run in order, without
\* a gap and without a duplicate.
THEOREM DeliveryIsGapFree == Spec => []GapFree
<1>1. DeliveryInv => GapFree
  BY DEF DeliveryInv
<1> QED  BY <1>1, DeliveryInvariant, PTL
=============================================================================
