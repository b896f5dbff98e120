------------------------- MODULE AgentRunsRefinement -------------------------
(***************************************************************************)
(* AgentRuns implements ReplayLog, for every number of runs, events and    *)
(* clients: what the docstring of subscribe() promises holds of the code   *)
(* with its queues, sentinels, heartbeats and timers.                      *)
(***************************************************************************)
EXTENDS AgentRunsProofs

USE AgentRunsAssumption

-----------------------------------------------------------------------------
(* What a run's status says of its task.                                   *)

StatusInv ==
  /\ \A r \in Run : pc[r] \in {"barrier", "done", "unborn"} => Terminal(r)
  /\ \A r \in Run : pc[r] = "created" /\ cancelled[r] => Terminal(r)
  /\ \A r \in Run : Terminal(r) /\ pc[r] \in {"created", "waiting", "streaming"} => cancelled[r]
  /\ \A r \in Run : Terminal(r) /\ pc[r] \in {"created", "waiting", "streaming", "closing"} =>
       \E s \in Run : prev[s] = r
  /\ \A r \in Run : status[r] = "error" => pc[r] = "done"

\* A response is only ended by a run that has ended; one that ended by itself
\* has delivered all, or its run failed after it was replaced.
EndInv ==
  /\ \A c \in Clients : phase[c] \in {"flush", "closed"} => Terminal(bound[c])
  /\ \A c \in Clients : phase[c] \in {"replay", "live"} =>
       \A i \in 1..Len(queue[c]) : queue[c][i] = END => Terminal(bound[c])
  /\ CompleteOnClose

LogInv == OrderInv /\ DeliveryInv /\ StatusInv /\ EndInv

\* A run ends once: no step takes an ending back or makes a failure of it
Endings ==
  /\ \A r \in Run : Terminal(r) => Terminal(r)'
  /\ \A r \in Run : status[r] = "error" => status'[r] = "error"
  /\ \A r, s \in Run : prev[s] = r => prev'[s] = r

LEMMA StatusInit == Init => StatusInv
BY DEF Init, StatusInv, Terminal

LEMMA ReturnStatus ==
  ASSUME OrderInv, StatusInv, NEW r \in Run, NEW s \in Status, NEW n, NEW w, Return(r, s, n, w),
         s # "running", pc[r] \in {"waiting", "barrier", "streaming", "closing"}
  PROVE  StatusInv' /\ Endings
<1>1. /\ pc' = [pc EXCEPT ![r] = "done"] /\ status' = [status EXCEPT ![r] = s]
      /\ cancelled' = [cancelled EXCEPT ![r] = FALSE] /\ prev' = prev
      /\ pc \in [Run -> TaskPc] /\ status \in [Run -> Status] /\ cancelled \in [Run -> BOOLEAN]
  BY DEF Return, OrderInv, TypeOK
<1>2. /\ \A k \in Run \ {r} : pc'[k] = pc[k] /\ status'[k] = status[k] /\ cancelled'[k] = cancelled[k]
      /\ pc'[r] = "done" /\ status'[r] = s
  BY <1>1
<1> QED  BY <1>1, <1>2 DEF StatusInv, Endings, Terminal

LEMMA MoveStatus ==
  ASSUME OrderInv, StatusInv, NEW r \in Run, NEW p \in {"unborn", "waiting", "streaming", "closing"},
         MoveTo(r, p),
         \/ p = "unborn" /\ pc[r] = "created" /\ cancelled[r]
         \/ p \in {"waiting", "streaming"} /\ pc[r] \in {"created", "waiting"} /\ ~cancelled[r]
         \/ p = "closing" /\ pc[r] \in {"streaming", "closing"}
  PROVE  StatusInv' /\ Endings
<1>1. /\ pc' = [pc EXCEPT ![r] = p] /\ status' = status /\ prev' = prev
      /\ cancelled' = [cancelled EXCEPT ![r] = FALSE]
      /\ pc \in [Run -> TaskPc] /\ cancelled \in [Run -> BOOLEAN]
  BY DEF MoveTo, OrderInv, TypeOK
<1>2. /\ \A k \in Run \ {r} : pc'[k] = pc[k] /\ cancelled'[k] = cancelled[k]
      /\ pc'[r] = p
  BY <1>1
<1> QED  BY <1>1, <1>2 DEF StatusInv, Endings, Terminal

LEMMA StartReplacingStatus ==
  ASSUME OrderInv, StatusInv, StartReplacing
  PROVE  StatusInv' /\ Endings
<1> DEFINE p == registered
           n == count + 1
<1>1. /\ p \in Run /\ n \in Run /\ p # n /\ ~Finished(p)
      /\ pc[n] = "absent" /\ prev[n] = NoRun /\ status[n] = "running" /\ ~cancelled[n]
  <2>1. p \in Run /\ ~Finished(p) /\ count < MaxRuns /\ count \in Nat /\ p = count
    BY DEF StartReplacing, InFlight, OrderInv, TypeOK, ChainShape
  <2>2. n \in Run /\ n > count
    BY <2>1 DEF Run
  <2> QED  BY <2>1, <2>2 DEF OrderInv, ChainShape
<1>2. /\ pc' = [pc EXCEPT ![n] = "created"] /\ prev' = [prev EXCEPT ![n] = p]
      /\ status' = [status EXCEPT ![p] = IF @ = "running" THEN "stopped" ELSE @]
      /\ cancelled' = [cancelled EXCEPT ![p] = TRUE]
      /\ pc \in [Run -> TaskPc] /\ status \in [Run -> Status] /\ cancelled \in [Run -> BOOLEAN]
      /\ prev \in [Run -> Run \cup {NoRun}]
  BY DEF StartReplacing, Supersede, Cancel, OrderInv, TypeOK
<1>3. /\ \A k \in Run \ {n} : pc'[k] = pc[k] /\ prev'[k] = prev[k]
      /\ \A k \in Run \ {p} : status'[k] = status[k] /\ cancelled'[k] = cancelled[k]
      /\ pc'[n] = "created" /\ prev'[n] = p /\ cancelled'[p]
      /\ status'[p] = IF status[p] = "running" THEN "stopped" ELSE status[p]
  BY <1>1, <1>2
<1> HIDE DEF p, n
<1>4. \A k \in Run : (\E s \in Run : prev[s] = k) => \E s \in Run : prev'[s] = k
  BY <1>1, <1>3 DEF NoRun, Run
<1>5. Endings
  BY <1>1, <1>3 DEF Endings, Terminal, NoRun, Run
<1>6. StatusInv'
  <2> SUFFICES ASSUME NEW r \in Run
               PROVE  /\ pc'[r] \in {"barrier", "done", "unborn"} => Terminal(r)'
                      /\ pc'[r] = "created" /\ cancelled'[r] => Terminal(r)'
                      /\ Terminal(r)' /\ pc'[r] \in {"created", "waiting", "streaming"} => cancelled'[r]
                      /\ Terminal(r)' /\ pc'[r] \in {"created", "waiting", "streaming", "closing"} =>
                           \E s \in Run : prev'[s] = r
                      /\ status'[r] = "error" => pc'[r] = "done"
    BY DEF StatusInv
  <2>1. CASE r = n
    BY <1>1, <1>3, <2>1 DEF Terminal
  <2>2. CASE r = p
    BY <1>1, <1>3, <2>2 DEF Terminal, StatusInv, Finished
  <2>3. CASE r # n /\ r # p
    BY <1>1, <1>3, <1>4, <2>3 DEF Terminal, StatusInv
  <2> QED  BY <2>1, <2>2, <2>3
<1> QED  BY <1>5, <1>6

LEMMA StartFreshStatus ==
  ASSUME OrderInv, StatusInv, StartFresh
  PROVE  StatusInv' /\ Endings
<1> DEFINE n == count + 1
<1>1. /\ n \in Run /\ pc[n] = "absent" /\ status[n] = "running" /\ ~cancelled[n]
  <2>1. n \in Run /\ n > count
    BY DEF StartFresh, OrderInv, TypeOK, Run
  <2> QED  BY <2>1 DEF OrderInv, ChainShape
<1>2. /\ pc' = [pc EXCEPT ![n] = "created"] /\ UNCHANGED <<status, prev, cancelled>>
      /\ pc \in [Run -> TaskPc]
  BY DEF StartFresh, OrderInv, TypeOK
<1> HIDE DEF n
<1> QED  BY <1>1, <1>2 DEF StatusInv, Endings, Terminal

LEMMA StatusStep == OrderInv /\ StatusInv /\ [Next]_vars => StatusInv' /\ Endings
<1> SUFFICES ASSUME OrderInv, StatusInv, [Next]_vars PROVE StatusInv' /\ Endings
  OBVIOUS
<1>1. CASE UNCHANGED <<status, pc, prev, cancelled>>
  BY <1>1 DEF StatusInv, Endings, Terminal
<1>2. CASE StartFresh
  BY <1>2, StartFreshStatus
<1>3. CASE StartReplacing
  BY <1>3, StartReplacingStatus
<1>4. ASSUME NEW r \in Run, Stop(r) PROVE StatusInv' /\ Endings
  BY <1>4 DEF Stop, Cancel, StatusInv, Endings, Terminal, OrderInv, TypeOK
<1>5. ASSUME NEW r \in Run, Drain(r) \/ StreamEnd(r) PROVE StatusInv' /\ Endings
  <2>1. status[r] \in Status
    BY DEF OrderInv, TypeOK
  <2>2. CASE Begin(r)
    BY <2>2, MoveStatus DEF Begin
  <2>3. CASE PredecessorDone(r)
    BY <2>3, MoveStatus DEF PredecessorDone
  <2>4. CASE CancelledStreaming(r) \/ CancelledClosing(r)
    BY <2>4, MoveStatus DEF CancelledStreaming, CancelledClosing
  <2>5. CASE CancelledWaiting(r) /\ ~Waits(r)
    BY <2>5, ReturnStatus DEF CancelledWaiting, Status
  <2>6. CASE CancelledWaiting(r) /\ Waits(r)
    <3>1. /\ pc' = [pc EXCEPT ![r] = "barrier"] /\ status' = [status EXCEPT ![r] = "stopped"]
          /\ cancelled' = [cancelled EXCEPT ![r] = FALSE] /\ prev' = prev /\ pc[r] = "waiting"
          /\ pc \in [Run -> TaskPc] /\ status \in [Run -> Status]
          /\ cancelled \in [Run -> BOOLEAN]
      BY <2>6 DEF CancelledWaiting, OrderInv, TypeOK
    <3>2. /\ \A k \in Run \ {r} : /\ pc'[k] = pc[k] /\ status'[k] = status[k]
                                  /\ cancelled'[k] = cancelled[k]
          /\ pc'[r] = "barrier" /\ status'[r] = "stopped"
      BY <3>1
    <3> QED  BY <3>1, <3>2 DEF StatusInv, Endings, Terminal
  <2>7. CASE LeaveBarrier(r)
    BY <2>1, <2>7, ReturnStatus DEF LeaveBarrier, StatusInv, Terminal
  <2>8. CASE StreamEnd(r)
    BY <2>1, <2>8, ReturnStatus DEF StreamEnd, Status, Terminal
  <2>9. CASE CloseEnd(r)
    BY <2>9, ReturnStatus DEF CloseEnd, Status
  <2> QED  BY <1>5, <2>2, <2>3, <2>4, <2>5, <2>6, <2>7, <2>8, <2>9 DEF Drain
<1>6. ASSUME NEW r \in Run, StreamEvent(r) \/ Evict(r)
      PROVE  UNCHANGED <<status, pc, prev, cancelled>>
  BY <1>6 DEF StreamEvent, Evict, taskVars
<1>7. ASSUME NEW c \in Clients, Resume(c) \/ Body(c) \/ HeartbeatTimeout(c) \/ Disconnect(c)
      PROVE  UNCHANGED <<status, pc, prev, cancelled>>
  BY <1>7, ClientsAreAside DEF Aside, orderVars, OrderInv
<1>8. CASE UNCHANGED vars
  BY <1>1, <1>8 DEF vars, taskVars
<1> QED  BY <1>1, <1>2, <1>3, <1>4, <1>5, <1>6, <1>7, <1>8 DEF Next

-----------------------------------------------------------------------------
(* How responses end.                                                      *)

LEMMA EndInit == Init => EndInv
BY DEF Init, EndInv, CompleteOnClose

\* A client that has a response is bound to a run
LEMMA BoundRun ==
  ASSUME DeliveryInv, NEW c \in Clients, phase[c] # "idle"
  PROVE  /\ bound[c] \in Run /\ len[bound[c]] \in Nat /\ next[c] \in Nat
         /\ queue[c] \in Seq(Nat)
BY DEF DeliveryInv, TypeOK

\* What FanOut adds to a queue holds END only when it wakes
LEMMA FanOutEnd ==
  ASSUME NEW q \in Seq(Nat), NEW m \in Nat, NEW n \in Nat, NEW w \in BOOLEAN, NEW u,
         u = q \o [j \in 1..n |-> m + j] \o (IF w THEN <<END>> ELSE <<>>),
         NEW i \in 1..Len(u), u[i] = END
  PROVE  w \/ \E k \in 1..Len(q) : q[k] = END
<1> DEFINE new == [j \in 1..n |-> m + j]
<1> SUFFICES ASSUME ~w PROVE \E k \in 1..Len(q) : q[k] = END
  OBVIOUS
<1>1. new \in Seq(Nat) /\ Len(new) = n /\ \A j \in 1..n : new[j] # END
  BY IsASeq DEF END
<1>2. q \o new \in Seq(Nat) /\ (q \o new) \o <<>> = q \o new
  BY <1>1, ConcatProperties, ConcatEmptySeq
<1>3. i \in 1..Len(q \o new) /\ (q \o new)[i] = END
  BY <1>2
<1> HIDE DEF new
<1>4. /\ Len(q) \in Nat /\ Len(q \o new) = Len(q) + n
      /\ (q \o new)[i] = IF i <= Len(q) THEN q[i] ELSE new[i - Len(q)]
  <2>1. /\ Len(q) \in Nat /\ Len(new) = n /\ Len(q \o new) = Len(q) + Len(new)
        /\ \A j \in 1..(Len(q) + Len(new)) :
             (q \o new)[j] = IF j <= Len(q) THEN q[j] ELSE new[j - Len(q)]
    BY <1>1, ConcatProperties, LenProperties
  <2> QED  BY <1>3, <2>1
<1>5. i <= Len(q)
  <2> SUFFICES ASSUME ~(i <= Len(q)) PROVE FALSE
    OBVIOUS
  <2>1. i - Len(q) \in 1..n
    BY <1>3, <1>4
  <2> QED  BY <1>1, <1>3, <1>4, <2>1
<1> QED  BY <1>3, <1>4, <1>5

\* A step of the runs: some events, perhaps the end
LEMMA FanOutEnds ==
  ASSUME DeliveryInv, EndInv, Endings, NEW r \in Run, NEW n \in Nat, NEW w \in BOOLEAN,
         FanOut(r, n, w), UNCHANGED <<next, got>>, w => Terminal(r)',
         n = 0 \/ ~Terminal(r) \/ (status'[r] = "error" /\ \E s \in Run : prev'[s] = r),
         \A c \in Clients : \/ phase'[c] = phase[c] /\ bound'[c] = bound[c]
                            \/ phase'[c] = "bound"
  PROVE  EndInv'
<1>1. \A c \in Clients : phase[c] # "idle" => bound[c] \in Run
  BY BoundRun
<1>2. len' = [len EXCEPT ![r] = @ + n] /\ len \in [Run -> Nat]
  BY DEF FanOut, DeliveryInv, TypeOK
<1>3. \A c \in Clients : phase'[c] \in {"flush", "closed"} => Terminal(bound[c])'
  BY <1>1 DEF EndInv, Endings, Terminal
<1>4. ASSUME NEW c \in Clients, phase'[c] \in {"replay", "live"},
             NEW i \in 1..Len(queue'[c]), queue'[c][i] = END
      PROVE  Terminal(bound[c])'
  <2>1. phase'[c] = phase[c] /\ bound'[c] = bound[c] /\ bound[c] \in Run
        /\ queue[c] \in Seq(Nat) /\ len[r] \in Nat
    BY <1>2, <1>4, BoundRun
  <2>2. CASE bound[c] = r
    <3>1. queue'[c] = queue[c] \o [k \in 1..n |-> len[r] + k] \o (IF w THEN <<END>> ELSE <<>>)
      BY <1>4, <2>1, <2>2 DEF FanOut, Subscribers, Attached
    <3>2. w \/ \E k \in 1..Len(queue[c]) : queue[c][k] = END
      BY Zenon, <1>4, <2>1, <3>1, FanOutEnd
    <3> QED  BY <1>4, <2>1, <2>2, <3>2 DEF EndInv, Endings, Terminal
  <2>3. CASE bound[c] # r
    <3>1. queue'[c] = queue[c]
      BY <2>3 DEF FanOut, Subscribers
    <3> QED  BY <1>4, <2>1, <3>1 DEF EndInv, Endings, Terminal
  <2> QED  BY <2>2, <2>3
<1>5. CompleteOnClose'
  <2> SUFFICES ASSUME NEW c \in Clients, phase'[c] = "closed"
               PROVE  \/ next'[c] = len'[bound'[c]]
                      \/ status'[bound'[c]] = "error" /\ \E s \in Run : prev'[s] = bound'[c]
    BY DEF CompleteOnClose
  <2>1. phase[c] = "closed" /\ bound'[c] = bound[c] /\ bound[c] \in Run /\ Terminal(bound[c])
    BY BoundRun DEF EndInv
  <2>2. CASE status[bound[c]] = "error" /\ \E s \in Run : prev[s] = bound[c]
    BY <2>1, <2>2 DEF Endings
  <2>3. CASE next[c] = len[bound[c]] /\ (bound[c] # r \/ n = 0)
    BY <1>2, <2>1, <2>3
  <2>4. CASE bound[c] = r /\ n # 0
    BY <2>1, <2>4
  <2> QED  BY <2>1, <2>2, <2>3, <2>4 DEF EndInv, CompleteOnClose
<1> QED  BY <1>3, <1>4, <1>5 DEF EndInv

LEMMA ReturnEnds ==
  ASSUME DeliveryInv, EndInv, Endings, NEW r \in Run, NEW s, NEW n \in Nat, NEW w \in BOOLEAN,
         Return(r, s, n, w), s # "running",
         n = 0 \/ ~Terminal(r) \/ (s = "error" /\ \E k \in Run : prev[k] = r)
  PROVE  EndInv'
<1>1. status'[r] = s /\ prev' = prev /\ FanOut(r, n, w) /\ UNCHANGED <<phase, bound, next, got>>
  BY DEF Return, DeliveryInv, TypeOK
<1> QED  BY <1>1, FanOutEnds DEF Terminal

\* A step of one response: it takes from its own queue and buffer alone
LEMMA ResponseEnds ==
  ASSUME DeliveryInv, EndInv, NEW c \in Clients, UNCHANGED <<status, prev, len, bound>>,
         \A d \in Clients \ {c} : phase'[d] = phase[d] /\ queue'[d] = queue[d] /\ next'[d] = next[d],
         phase'[c] \in {"flush", "closed"} => Terminal(bound[c]),
         phase'[c] \in {"replay", "live"} =>
           \A i \in 1..Len(queue'[c]) : queue'[c][i] = END => Terminal(bound[c]),
         phase'[c] = "closed" => next'[c] = len[bound[c]]
  PROVE  EndInv'
<1>1. \A d \in Clients : phase'[d] \in {"flush", "closed"} => Terminal(bound[d])'
  BY DEF EndInv, Terminal
<1>2. \A d \in Clients : phase'[d] \in {"replay", "live"} =>
        \A i \in 1..Len(queue'[d]) : queue'[d][i] = END => Terminal(bound[d])'
  BY DEF EndInv, Terminal
<1>3. CompleteOnClose'
  BY DEF EndInv, CompleteOnClose
<1> QED  BY <1>1, <1>2, <1>3 DEF EndInv

\* Steps that touch no response but to bind it
LEMMA BindEnds ==
  ASSUME DeliveryInv, EndInv, Endings, UNCHANGED <<len, queue, next, got>>,
         \A c \in Clients : \/ phase'[c] = phase[c] /\ bound'[c] = bound[c]
                            \/ phase'[c] = "bound"
  PROVE  EndInv'
<1>1. \A c \in Clients : phase[c] # "idle" => bound[c] \in Run
  BY BoundRun
<1>2. \A c \in Clients : phase'[c] \in {"flush", "closed"} => Terminal(bound[c])'
  BY <1>1 DEF EndInv, Endings, Terminal
<1>3. \A c \in Clients : phase'[c] \in {"replay", "live"} =>
        \A i \in 1..Len(queue'[c]) : queue'[c][i] = END => Terminal(bound[c])'
  BY <1>1 DEF EndInv, Endings, Terminal
<1>4. CompleteOnClose'
  BY <1>1 DEF EndInv, CompleteOnClose, Endings
<1> QED  BY <1>2, <1>3, <1>4 DEF EndInv

LEMMA LeaveEnds ==
  ASSUME DeliveryInv, EndInv, NEW c \in Clients, NEW p \in {"idle", "closed"}, Leave(c, p),
         p = "closed" => Terminal(bound[c]) /\ next[c] = len[bound[c]]
  PROVE  EndInv'
<1>1. /\ phase'[c] = p /\ UNCHANGED <<status, prev, len, bound, queue, next>>
      /\ \A d \in Clients \ {c} : phase'[d] = phase[d]
  BY DEF Leave, taskVars, DeliveryInv, TypeOK
<1> QED  BY <1>1, ResponseEnds

LEMMA YieldEnds ==
  ASSUME DeliveryInv, EndInv, NEW c \in Clients, NEW s, Yield(c, s), phase[c] \in {"replay", "flush"},
         UNCHANGED <<status, prev, len, bound, phase, queue>>
  PROVE  EndInv'
<1>1. \A d \in Clients \ {c} : next'[d] = next[d]
  BY DEF Yield, DeliveryInv, TypeOK
<1> QED  BY <1>1, ResponseEnds DEF EndInv

\* The buffer has been delivered to its end
LEMMA AllRead ==
  ASSUME DeliveryInv, NEW c \in Clients, Attached(c), next[c] >= len[bound[c]]
  PROVE  next[c] = len[bound[c]]
BY BoundRun DEF DeliveryInv, Attached

LEMMA TakeEnds ==
  ASSUME DeliveryInv, EndInv, NEW c \in Clients, Take(c)
  PROVE  EndInv'
<1> DEFINE q == queue[c]
<1>1. /\ phase[c] = "live" /\ q # <<>> /\ UNCHANGED <<status, prev, len, bound>>
      /\ queue'[c] = Tail(q) /\ \A d \in Clients \ {c} : queue'[d] = queue[d]
      /\ phase'[c] = IF Head(q) = END THEN "flush" ELSE "live"
      /\ \A d \in Clients \ {c} : phase'[d] = phase[d] /\ next'[d] = next[d]
  BY DEF Take, Yield, taskVars, DeliveryInv, TypeOK
<1>2. q \in Seq(Nat)
  BY <1>1, BoundRun
<1>3. /\ Head(q) = q[1] /\ Len(q) \in Nat /\ Len(q) # 0 /\ Len(Tail(q)) = Len(q) - 1
      /\ \A i \in 1..Len(Tail(q)) : Tail(q)[i] = q[i + 1]
  BY <1>1, <1>2, HeadTailProperties, LenProperties, EmptySeq
<1>4. \A i \in 1..Len(q) : q[i] = END => Terminal(bound[c])
  BY <1>1 DEF EndInv
<1> HIDE DEF q
<1>5. phase'[c] = "flush" => Terminal(bound[c])
  BY <1>1, <1>3, <1>4
<1>6. \A i \in 1..Len(Tail(q)) : Tail(q)[i] = END => Terminal(bound[c])
  BY <1>3, <1>4
<1> QED  BY <1>1, <1>5, <1>6, ResponseEnds

LEMMA EndStep == LogInv /\ [Next]_vars => EndInv'
<1> SUFFICES ASSUME LogInv, [Next]_vars PROVE EndInv'
  OBVIOUS
<1>0. OrderInv /\ DeliveryInv /\ StatusInv /\ EndInv /\ Endings /\ StatusInv'
  BY StatusStep DEF LogInv
<1>1. ASSUME NEW C \in NewResponse, Register(count + 1, C)
      PROVE  \A c \in Clients : \/ phase'[c] = phase[c] /\ bound'[c] = bound[c]
                                \/ phase'[c] = "bound"
  BY <1>1 DEF Register
<1>2. CASE StartFresh
  BY <1>0, <1>1, <1>2, BindEnds DEF StartFresh
<1>3. CASE StartReplacing
  <2>1. PICK r \in Run : r = registered
    BY <1>0, <1>3 DEF StartReplacing, InFlight, OrderInv, TypeOK
  <2>2. FanOut(r, 0, status[r] = "running")
    BY <1>3, <2>1 DEF StartReplacing, Supersede
  <2>3. status'[r] # "running"
    BY <1>0, <1>3, <2>1 DEF StartReplacing, Supersede, OrderInv, TypeOK
  <2> QED  BY <1>0, <1>1, <1>3, <2>2, <2>3, FanOutEnds DEF StartReplacing, Terminal
<1>4. ASSUME NEW r \in Run, Stop(r) PROVE EndInv'
  BY <1>0, <1>4, BindEnds DEF Stop, clientVars
<1>5. ASSUME NEW r \in Run, MoveTo(r, "closing") \/ (\E p \in TaskPc : MoveTo(r, p))
      PROVE  EndInv'
  BY <1>0, <1>5, BindEnds DEF MoveTo, clientVars
<1>6. ASSUME NEW r \in Run, Drain(r) \/ StreamEnd(r) PROVE EndInv'
  <2>1. CASE Begin(r) \/ PredecessorDone(r) \/ CancelledStreaming(r) \/ CancelledClosing(r)
    BY <1>5, <2>1 DEF Begin, PredecessorDone, CancelledStreaming, CancelledClosing, TaskPc
  <2>2. CASE CancelledWaiting(r) /\ ~Waits(r)
    BY <1>0, <2>2, ReturnEnds DEF CancelledWaiting
  <2>3. CASE CancelledWaiting(r) /\ Waits(r)
    <3>1. FanOut(r, 0, TRUE) /\ UNCHANGED <<phase, bound, next, got>> /\ status'[r] = "stopped"
      BY <1>0, <2>3 DEF CancelledWaiting, OrderInv, TypeOK
    <3> QED  BY <1>0, <3>1, FanOutEnds DEF Terminal
  <2>4. CASE LeaveBarrier(r)
    BY <1>0, <2>4, ReturnEnds DEF LeaveBarrier, StatusInv, Terminal
  <2>5. CASE StreamEnd(r)
    <3>1. CASE Return(r, IF Terminal(r) THEN status[r] ELSE "done", 0, TRUE)
      BY <1>0, <3>1, ReturnEnds DEF Terminal
    <3>2. CASE Return(r, "error", 2, TRUE)
      <4>1. ~Terminal(r)
        BY <1>0, <2>5 DEF StreamEnd, StatusInv
      <4> QED  BY <1>0, <3>2, <4>1, ReturnEnds
    <3> QED  BY <2>5, <3>1, <3>2 DEF StreamEnd
  <2>6. CASE CloseEnd(r)
    <3>1. CASE Return(r, "stopped", 0, TRUE)
      BY <1>0, <3>1, ReturnEnds
    <3>2. CASE Return(r, "error", 2, TRUE)
      <4>1. ~Terminal(r) \/ \E k \in Run : prev[k] = r
        BY <1>0, <2>6 DEF CloseEnd, StatusInv
      <4> QED  BY <1>0, <3>2, <4>1, ReturnEnds
    <3> QED  BY <2>6, <3>1, <3>2 DEF CloseEnd
  <2> QED  BY <1>6, <2>1, <2>2, <2>3, <2>4, <2>5, <2>6 DEF Drain
<1>7. ASSUME NEW r \in Run, StreamEvent(r) PROVE EndInv'
  <2>1. ~Terminal(r)
    BY <1>0, <1>7 DEF StreamEvent, StatusInv
  <2> QED  BY <1>0, <1>7, <2>1, FanOutEnds DEF StreamEvent
<1>8. ASSUME NEW r \in Run, Evict(r) PROVE EndInv'
  BY <1>0, <1>8, BindEnds DEF Evict, taskVars, clientVars
<1>9. ASSUME NEW c \in Clients, Resume(c) PROVE EndInv'
  <2>1. \A d \in Clients : \/ phase'[d] = phase[d] /\ bound'[d] = bound[d]
                           \/ phase'[d] = "bound"
    BY <1>0, <1>9 DEF Resume, OrderInv, TypeOK
  <2> QED  BY <1>0, <1>9, <2>1, BindEnds DEF Resume, taskVars
<1>10. ASSUME NEW c \in Clients, Subscribe(c) PROVE EndInv'
  <2>1. /\ UNCHANGED <<status, prev, len, bound>> /\ phase'[c] = "replay" /\ queue'[c] = <<>>
        /\ \A d \in Clients \ {c} :
             phase'[d] = phase[d] /\ queue'[d] = queue[d] /\ next'[d] = next[d]
    BY <1>0, <1>10 DEF Subscribe, taskVars, OrderInv, TypeOK
  <2>2. \A i \in 1..Len(queue'[c]) : queue'[c][i] = END => Terminal(bound[c])
    BY <2>1
  <2> QED  BY <1>0, <2>1, <2>2, ResponseEnds
<1>11. ASSUME NEW c \in Clients, Replay(c) PROVE EndInv'
  <2>1. CASE Yield(c, next[c] + 1) /\ UNCHANGED <<taskVars, phase, bound, queue>>
    BY <1>0, <1>11, <2>1, YieldEnds DEF Replay, taskVars
  <2>2. CASE next[c] >= len[bound[c]] /\ Terminal(bound[c]) /\ Leave(c, "closed")
    BY <1>0, <1>11, <2>2, AllRead, LeaveEnds DEF Replay, Attached
  <2>3. CASE phase' = [phase EXCEPT ![c] = "live"] /\ UNCHANGED <<taskVars, bound, queue, next>>
    <3>1. phase'[c] = "live" /\ \A d \in Clients \ {c} : phase'[d] = phase[d]
      BY <1>0, <2>3 DEF OrderInv, TypeOK
    <3>2. \A i \in 1..Len(queue[c]) : queue[c][i] = END => Terminal(bound[c])
      BY <1>0, <1>11 DEF Replay, EndInv
    <3> QED  BY <1>0, <2>3, <3>1, <3>2, ResponseEnds DEF taskVars
  <2> QED  BY <1>11, <2>1, <2>2, <2>3 DEF Replay
<1>12. ASSUME NEW c \in Clients, Take(c) PROVE EndInv'
  BY <1>0, <1>12, TakeEnds
<1>13. ASSUME NEW c \in Clients, HeartbeatTimeout(c) PROVE EndInv'
  <2>1. phase'[c] = "flush" /\ \A d \in Clients \ {c} : phase'[d] = phase[d]
    BY <1>0, <1>13 DEF HeartbeatTimeout, OrderInv, TypeOK
  <2> QED  BY <1>0, <1>13, <2>1, ResponseEnds DEF HeartbeatTimeout, taskVars
<1>14. ASSUME NEW c \in Clients, Flush(c) PROVE EndInv'
  <2>1. CASE Yield(c, next[c] + 1) /\ UNCHANGED <<taskVars, phase, bound, queue>>
    BY <1>0, <1>14, <2>1, YieldEnds DEF Flush, taskVars
  <2>2. CASE next[c] >= len[bound[c]] /\ Leave(c, "closed")
    BY <1>0, <1>14, <2>2, AllRead, LeaveEnds DEF Flush, Attached, EndInv
  <2> QED  BY <1>14, <2>1, <2>2 DEF Flush
<1>15. ASSUME NEW c \in Clients, Disconnect(c) PROVE EndInv'
  <2>1. CASE Leave(c, "idle")
    BY <1>0, <2>1, LeaveEnds
  <2>2. CASE phase' = [phase EXCEPT ![c] = "idle"] /\ UNCHANGED <<taskVars, bound, queue, next>>
    <3>1. phase'[c] = "idle" /\ \A d \in Clients \ {c} : phase'[d] = phase[d]
      BY <1>0, <2>2 DEF OrderInv, TypeOK
    <3> QED  BY <1>0, <2>2, <3>1, ResponseEnds DEF taskVars
  <2> QED  BY <1>15, <2>1, <2>2 DEF Disconnect
<1>16. CASE UNCHANGED vars
  BY <1>0, <1>16, BindEnds DEF vars, taskVars, clientVars
<1> QED
  BY <1>2, <1>3, <1>4, <1>6, <1>7, <1>8, <1>9, <1>10, <1>11, <1>12, <1>13, <1>14, <1>15, <1>16
     DEF Next, Body

\* The invariant the refinement rests on: order, delivery, status and ends.
THEOREM LogInvariant == Spec => []LogInv
<1>1. Init => StatusInv /\ EndInv
  BY StatusInit, EndInit
<1>2. OrderInv /\ DeliveryInv /\ StatusInv /\ EndInv /\ [Next]_vars => StatusInv' /\ EndInv'
  BY StatusStep, EndStep DEF LogInv
<1>3. OrderInv /\ DeliveryInv /\ StatusInv /\ EndInv => LogInv
  BY DEF LogInv
<1> QED  BY <1>1, <1>2, <1>3, OrderInvariant, DeliveryInvariant, PTL DEF Spec

\* agent_runs.py:204-254: a response that ended by itself delivered the whole
\* buffer, unless its run failed after it was replaced.
THEOREM ClosedIsComplete == Spec => []CompleteOnClose
<1>1. LogInv => CompleteOnClose
  BY DEF LogInv, EndInv
<1> QED  BY <1>1, LogInvariant, PTL

\* agent_runs.py:204-254: subscribe() delivers the events of its run in order,
\* each once, and all of them if the response ends by itself.
THEOREM DeliveredExactly == Spec => []ExactDelivery
<1>1. GapFree /\ CompleteOnClose => ExactDelivery
  BY DEF ExactDelivery
<1> QED  BY <1>1, DeliveryIsGapFree, ClosedIsComplete, PTL

-----------------------------------------------------------------------------
(* The refinement.                                                         *)

\* The clients as the log sees them: some bind a response that is not read yet
Binding ==
  /\ \A c \in Clients : \/ phase'[c] = phase[c] /\ bound'[c] = bound[c]
                        \/ phase[c] \in {"idle", "closed"} /\ phase'[c] = "bound"
  /\ UNCHANGED got

LEMMA BindingTurns ==
  ASSUME Binding
  PROVE  Log!Turn
BY DEF Binding, Log!Turn, Mode, Attached

\* A step of the runs that is one run's: its log grows, ends or is sealed
OwnStep(r) ==
  /\ Binding
  /\ pc[r] \notin {"done", "unborn"}
  /\ len'[r] >= len[r]
  /\ \A k \in Run \ {r} :
       /\ len'[k] = len[k] /\ status'[k] = status[k]
       /\ pc'[k] # pc[k] => pc[k] = "absent" /\ pc'[k] = "created"

LEMMA RunAdvances ==
  ASSUME TypeOK, TypeOK', StatusInv', Endings, NEW r \in Run, OwnStep(r)
  PROVE  Log!Next
<1>1. Log!Turn
  BY BindingTurns DEF OwnStep
<1>2. \A k \in Run \ {r} : /\ len'[k] = len[k]
                           /\ Finished(k)' = Finished(k)
                           /\ Terminal(k)' = Terminal(k)
  BY DEF OwnStep, Finished, Terminal
<1>3. (Terminal(r) => Terminal(r)') /\ (Finished(r)' => Terminal(r)')
  BY DEF OwnStep, Endings, StatusInv, Finished
<1>4. Log!Advance(r)
  <2>1. ~Finished(r)
    BY DEF OwnStep, Finished
  <2> QED  BY <1>2, <1>3, <2>1 DEF OwnStep, Log!Advance
<1> QED  BY <1>1, <1>4 DEF Log!Next

\* Some responses are bound and no log changes
LEMMA RunsIdle ==
  ASSUME Binding, len' = len,
         \A k \in Run : Finished(k)' = Finished(k) /\ Terminal(k)' = Terminal(k)
  PROVE  Log!Next
<1>1. Log!Turn
  BY BindingTurns
<1>2. UNCHANGED Log!logVars
  BY DEF Log!logVars
<1> QED  BY <1>1, <1>2 DEF Log!Next

\* A step of one response
LEMMA ResponseReads ==
  ASSUME TypeOK, TypeOK', NEW c \in Clients, UNCHANGED <<len, pc, status, bound>>,
         \A d \in Clients \ {c} : phase'[d] = phase[d] /\ got'[d] = got[d],
         \/ Mode(c)' = Mode(c) /\ got'[c] = got[c]
         \/ Mode(c) = "away" /\ Mode(c)' = "reading" /\ Len(got'[c]) = 0
         \/ /\ Mode(c) = "reading" /\ Mode(c)' = "reading"
            /\ Len(got[c]) < len[bound[c]] /\ Len(got'[c]) = Len(got[c]) + 1
         \/ /\ Mode(c) = "reading" /\ Mode(c)' = "complete" /\ got'[c] = got[c]
            /\ Terminal(bound[c]) /\ Len(got[c]) = len[bound[c]] /\ bound[c] \in Run
         \/ Mode(c) = "reading" /\ Mode(c)' = "away" /\ got'[c] = got[c]
  PROVE  [Log!Next]_(Log!vars)
<1> DEFINE md == [d \in Clients |-> Mode(d)]
           ps == [d \in Clients |-> Len(got[d])]
<1>1. UNCHANGED Log!logVars
  BY DEF Log!logVars, Finished, Terminal
<1>2. \A d \in Clients \ {c} : Mode(d)' = Mode(d) /\ Len(got'[d]) = Len(got[d])
  BY DEF Mode, Attached
<1>3. md' = [md EXCEPT ![c] = Mode(c)'] /\ ps' = [ps EXCEPT ![c] = Len(got'[c])]
  BY <1>2
<1>4. md[c] = Mode(c) /\ ps[c] = Len(got[c])
  OBVIOUS
<1>5. CASE Mode(c)' = Mode(c) /\ got'[c] = got[c]
  <2>1. md' = md /\ ps' = ps
    BY <1>2, <1>5
  <2> QED  BY <1>1, <2>1 DEF Log!vars
<1>6. CASE Mode(c) = "away" /\ Mode(c)' = "reading" /\ Len(got'[c]) = 0
  <2>1. Log!Open(c)
    BY <1>1, <1>3, <1>4, <1>6 DEF Log!Open
  <2> QED  BY <2>1 DEF Log!Next
<1>7. CASE /\ Mode(c) = "reading" /\ Mode(c)' = "reading"
           /\ Len(got[c]) < len[bound[c]] /\ Len(got'[c]) = Len(got[c]) + 1
  <2>1. md' = md
    BY <1>2, <1>7
  <2>2. Log!Read(c)
    BY <1>1, <1>3, <1>4, <1>7, <2>1 DEF Log!Read
  <2> QED  BY <2>2 DEF Log!Next
<1>8. CASE /\ Mode(c) = "reading" /\ Mode(c)' = "complete" /\ got'[c] = got[c]
           /\ Terminal(bound[c]) /\ Len(got[c]) = len[bound[c]] /\ bound[c] \in Run
  <2>1. ps' = ps
    BY <1>2, <1>8
  <2>2. Log!Complete(c)
    BY <1>1, <1>3, <1>4, <1>8, <2>1 DEF Log!Complete
  <2> QED  BY <2>2 DEF Log!Next
<1>9. CASE Mode(c) = "reading" /\ Mode(c)' = "away" /\ got'[c] = got[c]
  <2>1. ps' = ps
    BY <1>2, <1>9
  <2>2. Log!GoAway(c)
    BY <1>1, <1>3, <1>4, <1>9, <2>1 DEF Log!GoAway
  <2> QED  BY <2>2 DEF Log!Next
<1> QED  BY <1>5, <1>6, <1>7, <1>8, <1>9

LEMMA LogInit == Init => Log!Init
<1> SUFFICES ASSUME Init PROVE Log!Init
  OBVIOUS
<1>1. len = [r \in Run |-> 0]
  BY DEF Init
<1>2. \A r \in Run : pc[r] = "absent" /\ status[r] = "running"
  BY DEF Init
<1>3. [r \in Run |-> Finished(r)] = [r \in Run |-> FALSE]
  <2>1. \A r \in Run : Finished(r) = FALSE
    BY <1>2 DEF Finished
  <2> QED  BY <2>1
<1>4. [r \in Run |-> Terminal(r)] = [r \in Run |-> FALSE]
  <2>1. \A r \in Run : Terminal(r) = FALSE
    BY <1>2 DEF Terminal
  <2> QED  BY <2>1
<1>5. bound \in [Clients -> Run \cup {0}]
  BY DEF Init, NoRun
<1>6. [c \in Clients |-> Len(got[c])] = [c \in Clients |-> 0]
  BY DEF Init
<1>7. [c \in Clients |-> Mode(c)] = [c \in Clients |-> "away"]
  BY DEF Init, Mode, Attached
<1> QED  BY <1>1, <1>3, <1>4, <1>5, <1>6, <1>7 DEF Log!Init

\* Unchanged connections bind nothing
LEMMA NoBinding ==
  ASSUME UNCHANGED <<phase, bound, got>>
  PROVE  Binding
BY DEF Binding

LEMMA RegisterBinds ==
  ASSUME TypeOK, NEW r \in Run, NEW C \in NewResponse, Register(r, C), UNCHANGED got
  PROVE  Binding
BY DEF Register, Binding, NewResponse

\* What a step of a drain task changes is its own run's
LEMMA ReturnAdvances ==
  ASSUME TypeOK, TypeOK', StatusInv', Endings, NEW r \in Run, pc[r] \notin {"done", "unborn"},
         NEW s, NEW n \in Nat, NEW w, Return(r, s, n, w)
  PROVE  Log!Next
<1>1. /\ len' = [len EXCEPT ![r] = @ + n] /\ pc' = [pc EXCEPT ![r] = "done"]
      /\ status' = [status EXCEPT ![r] = s] /\ UNCHANGED <<phase, bound, got>>
      /\ len \in [Run -> Nat]
  BY DEF Return, FanOut, TypeOK
<1>2. len'[r] >= len[r]
  BY <1>1
<1>3. \A k \in Run \ {r} : len'[k] = len[k] /\ pc'[k] = pc[k] /\ status'[k] = status[k]
  BY <1>1 DEF TypeOK
<1>4. OwnStep(r)
  BY <1>1, <1>2, <1>3, NoBinding DEF OwnStep
<1> QED  BY <1>4, RunAdvances

LEMMA MoveAdvances ==
  ASSUME TypeOK, TypeOK', StatusInv', Endings, NEW r \in Run, pc[r] \notin {"done", "unborn"},
         NEW p, MoveTo(r, p)
  PROVE  Log!Next
<1>1. /\ len' = len /\ pc' = [pc EXCEPT ![r] = p] /\ status' = status
      /\ UNCHANGED <<phase, bound, got>> /\ len[r] \in Nat
  BY DEF MoveTo, clientVars, TypeOK
<1>2. \A k \in Run \ {r} : len'[k] = len[k] /\ pc'[k] = pc[k] /\ status'[k] = status[k]
  BY <1>1 DEF TypeOK
<1>3. len'[r] >= len[r]
  BY <1>1
<1>4. OwnStep(r)
  BY <1>1, <1>2, <1>3, NoBinding DEF OwnStep
<1> QED  BY <1>4, RunAdvances

LEMMA TaskAdvances ==
  ASSUME TypeOK, TypeOK', StatusInv', Endings, NEW r \in Run,
         Drain(r) \/ StreamEvent(r) \/ StreamEnd(r)
  PROVE  Log!Next
<1>1. pc[r] \notin {"done", "unborn"}
  BY DEF Drain, Begin, PredecessorDone, CancelledWaiting, LeaveBarrier, CancelledStreaming,
         CancelledClosing, CloseEnd, StreamEvent, StreamEnd
<1>2. CASE \E p \in TaskPc : MoveTo(r, p)
  BY <1>1, <1>2, MoveAdvances
<1>3. CASE Begin(r) \/ PredecessorDone(r) \/ CancelledStreaming(r) \/ CancelledClosing(r)
  BY <1>2, <1>3 DEF Begin, PredecessorDone, CancelledStreaming, CancelledClosing, TaskPc
<1>4. CASE CancelledWaiting(r) /\ ~Waits(r)
  BY <1>1, <1>4, ReturnAdvances DEF CancelledWaiting
<1>5. CASE CancelledWaiting(r) /\ Waits(r)
  <2>1. /\ len' = [len EXCEPT ![r] = @ + 0] /\ pc' = [pc EXCEPT ![r] = "barrier"]
        /\ status' = [status EXCEPT ![r] = "stopped"] /\ UNCHANGED <<phase, bound, got>>
        /\ len \in [Run -> Nat]
    BY <1>5 DEF CancelledWaiting, FanOut, TypeOK
  <2>2. len'[r] >= len[r]
    BY <2>1
  <2>3. \A k \in Run \ {r} : len'[k] = len[k] /\ pc'[k] = pc[k] /\ status'[k] = status[k]
    BY <2>1 DEF TypeOK
  <2>4. OwnStep(r)
    BY <1>1, <2>1, <2>2, <2>3, NoBinding DEF OwnStep
  <2> QED  BY <2>4, RunAdvances
<1>6. CASE LeaveBarrier(r)
  BY <1>1, <1>6, ReturnAdvances DEF LeaveBarrier
<1>7. CASE StreamEvent(r)
  <2>1. /\ len' = [len EXCEPT ![r] = @ + 1] /\ pc' = pc /\ status' = status
        /\ UNCHANGED <<phase, bound, got>> /\ len \in [Run -> Nat]
    BY <1>7 DEF StreamEvent, FanOut, TypeOK
  <2>2. len'[r] >= len[r] /\ \A k \in Run \ {r} : len'[k] = len[k]
    BY <2>1
  <2>3. OwnStep(r)
    BY <1>1, <2>1, <2>2, NoBinding DEF OwnStep
  <2> QED  BY <2>3, RunAdvances
<1>8. CASE StreamEnd(r)
  BY <1>1, <1>8, ReturnAdvances DEF StreamEnd
<1>9. CASE CloseEnd(r)
  BY <1>1, <1>9, ReturnAdvances DEF CloseEnd
<1> QED  BY <1>3, <1>4, <1>5, <1>6, <1>7, <1>8, <1>9 DEF Drain

LEMMA StartAdvances ==
  ASSUME TypeOK, TypeOK', OrderInv, StatusInv', Endings, StartFresh \/ StartReplacing
  PROVE  Log!Next
<1>1. ASSUME NEW C \in NewResponse, Register(count + 1, C), UNCHANGED got, count < MaxRuns
      PROVE  Binding
  <2>1. count + 1 \in Run
    BY <1>1 DEF TypeOK, Run
  <2> QED  BY <1>1, <2>1, RegisterBinds
<1>2. count < MaxRuns => count + 1 \in Run /\ pc[count + 1] = "absent"
  <2> SUFFICES ASSUME count < MaxRuns PROVE count + 1 \in Run /\ pc[count + 1] = "absent"
    OBVIOUS
  <2>1. count + 1 \in Run /\ count + 1 > count
    BY DEF TypeOK, Run
  <2> QED  BY <2>1 DEF OrderInv, ChainShape
<1>3. CASE StartFresh
  <2>1. Binding /\ len' = len /\ status' = status /\ pc' = [pc EXCEPT ![count + 1] = "created"]
    BY <1>1, <1>3 DEF StartFresh
  <2>2. \A k \in Run : k = count + 1 => pc[k] = "absent" /\ pc'[k] = "created"
    BY <1>2, <1>3, <2>1 DEF StartFresh, TypeOK
  <2>3. \A k \in Run : k # count + 1 => pc'[k] = pc[k]
    BY <2>1 DEF TypeOK
  <2>4. \A k \in Run : Finished(k)' = Finished(k) /\ Terminal(k)' = Terminal(k)
    BY <2>1, <2>2, <2>3 DEF Finished, Terminal
  <2> QED  BY <2>1, <2>4, RunsIdle
<1>4. CASE StartReplacing
  <2>1. PICK r \in Run : r = registered
    BY <1>4 DEF StartReplacing, InFlight, TypeOK
  <2>2. pc[r] \notin {"done", "unborn"} /\ count < MaxRuns
    BY <1>4, <2>1 DEF StartReplacing, InFlight, Finished
  <2>3. Binding
    BY <1>1, <1>4, <2>2 DEF StartReplacing
  <2>4. /\ len' = [len EXCEPT ![r] = @ + 0] /\ pc' = [pc EXCEPT ![count + 1] = "created"]
        /\ status' = [status EXCEPT ![r] = IF @ = "running" THEN "stopped" ELSE @]
        /\ len \in [Run -> Nat]
    BY <1>4, <2>1 DEF StartReplacing, Supersede, FanOut, TypeOK
  <2>5. len'[r] >= len[r] /\ \A k \in Run \ {r} : len'[k] = len[k] /\ status'[k] = status[k]
    BY <2>4 DEF TypeOK
  <2> DEFINE n == count + 1
  <2>6. n \in Run /\ pc[n] = "absent" /\ pc'[n] = "created" /\ \A k \in Run \ {n} : pc'[k] = pc[k]
    BY <1>2, <2>2, <2>4 DEF TypeOK
  <2> HIDE DEF n
  <2>7. OwnStep(r)
    BY <2>2, <2>3, <2>5, <2>6 DEF OwnStep
  <2> QED  BY <2>7, RunAdvances
<1> QED  BY <1>3, <1>4

\* Steps the log does not see
LEMMA LogIdle ==
  ASSUME UNCHANGED <<len, pc, status, bound, got>>,
         \A c \in Clients : Mode(c)' = Mode(c)
  PROVE  UNCHANGED Log!vars
<1>1. UNCHANGED Log!logVars
  BY DEF Log!logVars, Finished, Terminal
<1>2. [c \in Clients |-> Mode(c)]' = [c \in Clients |-> Mode(c)]
  OBVIOUS
<1> QED  BY <1>1, <1>2 DEF Log!vars

\* GapFree: the position of a response is the number of events it delivered
LEMMA Position ==
  ASSUME TypeOK, GapFree, NEW c \in Clients
  PROVE  Len(got[c]) = next[c]
<1>1. next[c] \in Nat /\ got[c] = [i \in 1..next[c] |-> i]
  BY DEF TypeOK, GapFree
<1> QED  BY <1>1

\* Only one response moves, and only its own phase and position
LEMMA LeaveReads ==
  ASSUME TypeOK, TypeOK', NEW c \in Clients, NEW p \in {"idle", "closed"}, Leave(c, p), Attached(c),
         p = "closed" => Terminal(bound[c]) /\ next[c] = len[bound[c]] /\ bound[c] \in Run,
         GapFree
  PROVE  [Log!Next]_(Log!vars)
<1>1. /\ UNCHANGED <<len, pc, status, bound, got>> /\ phase'[c] = p
      /\ \A d \in Clients \ {c} : phase'[d] = phase[d]
  BY DEF Leave, taskVars, TypeOK
<1>2. Mode(c) = "reading" /\ Mode(c)' = IF p = "closed" THEN "complete" ELSE "away"
  BY <1>1 DEF Mode, Attached
<1> QED  BY <1>1, <1>2, Position, ResponseReads

LEMMA YieldReads ==
  ASSUME TypeOK, TypeOK', GapFree, GapFree', NEW c \in Clients, Attached(c),
         Yield(c, next[c] + 1), next[c] < len[bound[c]],
         UNCHANGED <<len, pc, status, bound, phase>>
  PROVE  [Log!Next]_(Log!vars)
<1>1. /\ next'[c] = next[c] + 1 /\ \A d \in Clients \ {c} : got'[d] = got[d]
  BY DEF Yield, TypeOK
<1>2. Mode(c) = "reading" /\ Mode(c)' = "reading"
  BY DEF Mode, Attached
<1>3. Len(got[c]) = next[c] /\ Len(got'[c]) = next'[c]
  <2>1. next'[c] \in Nat /\ got'[c] = [i \in 1..next'[c] |-> i]
    BY DEF TypeOK, GapFree
  <2> QED  BY <2>1, Position
<1> QED  BY <1>1, <1>2, <1>3, ResponseReads

\* A response moves between the phases in which it delivers
LEMMA PhaseReads ==
  ASSUME TypeOK, NEW c \in Clients, NEW p \in {"live", "flush"}, Attached(c),
         phase' = [phase EXCEPT ![c] = p], UNCHANGED <<len, pc, status, bound, got>>
  PROVE  [Log!Next]_(Log!vars)
<1>1. \A d \in Clients : Mode(d)' = Mode(d)
  BY DEF Mode, Attached, TypeOK
<1> QED  BY <1>1, LogIdle

LEMMA TakeReads ==
  ASSUME DeliveryInv, DeliveryInv', NEW c \in Clients, Take(c)
  PROVE  [Log!Next]_(Log!vars)
<1> DEFINE q == queue[c]
<1>1. /\ phase[c] = "live" /\ q # <<>> /\ UNCHANGED <<len, pc, status, bound>> /\ Attached(c)
      /\ TypeOK /\ TypeOK' /\ GapFree /\ GapFree'
      /\ Feeds(q, next[c], len[bound[c]])
  BY DEF Take, taskVars, Attached, DeliveryInv
<1>2. q \in Seq(Nat) /\ next[c] \in Nat /\ len[bound[c]] \in Nat
  BY <1>1, BoundRun
<1>3. CASE Head(q) = END
  <2>1. phase' = [phase EXCEPT ![c] = "flush"] /\ UNCHANGED got
    BY <1>3 DEF Take
  <2> QED  BY <1>1, <2>1, PhaseReads
<1>4. CASE Head(q) # END /\ Head(q) > next[c]
  <2>1. Head(q) = next[c] + 1 /\ Head(q) <= len[bound[c]]
    <3>1. Head(q) \in Nat
      BY <1>1, <1>2, HeadTailProperties
    <3> HIDE DEF q
    <3>2. next[c] < Head(q)
      BY <1>2, <1>4, <3>1
    <3> QED  BY <1>1, <1>2, <1>4, <3>2, TakeFeeds
  <2>2. Yield(c, next[c] + 1) /\ UNCHANGED phase
    <3>1. ~(q[1] <= next[c]) /\ Head(q) = q[1]
      BY <1>1, <1>2, <2>1, HeadTailProperties
    <3>2. Yield(c, Head(q)) /\ UNCHANGED phase
      BY <1>4, <3>1 DEF Take
    <3> QED  BY <2>1, <3>2
  <2>3. next[c] < len[bound[c]]
    BY <1>2, <2>1
  <2> QED  BY <1>1, <2>2, <2>3, YieldReads
<1>5. CASE Head(q) # END /\ ~(Head(q) > next[c])
  <2>1. UNCHANGED <<phase, got>>
    BY <1>5 DEF Take
  <2>2. \A d \in Clients : Mode(d)' = Mode(d)
    BY <2>1 DEF Mode, Attached
  <2> QED  BY <1>1, <2>1, <2>2, LogIdle
<1> QED  BY <1>3, <1>4, <1>5

LEMMA LogStep == LogInv /\ LogInv' /\ [Next]_vars => [Log!Next]_(Log!vars)
<1> SUFFICES ASSUME LogInv, LogInv', [Next]_vars PROVE [Log!Next]_(Log!vars)
  OBVIOUS
<1>1. /\ OrderInv /\ DeliveryInv /\ DeliveryInv' /\ StatusInv' /\ EndInv /\ Endings
      /\ TypeOK /\ TypeOK' /\ GapFree /\ GapFree'
  BY StatusStep DEF LogInv, OrderInv, DeliveryInv
<1>2. CASE StartFresh \/ StartReplacing
  BY <1>1, <1>2, StartAdvances
<1>3. ASSUME NEW r \in Run, Drain(r) \/ StreamEvent(r) \/ StreamEnd(r)
      PROVE  [Log!Next]_(Log!vars)
  BY <1>1, <1>3, TaskAdvances
<1>4. ASSUME UNCHANGED <<len, pc, status, phase, bound, got>> PROVE [Log!Next]_(Log!vars)
  <2>1. \A c \in Clients : Mode(c)' = Mode(c)
    BY <1>4 DEF Mode, Attached
  <2> QED  BY <1>4, <2>1, LogIdle
<1>5. ASSUME NEW r \in Run, Stop(r) \/ Evict(r) PROVE [Log!Next]_(Log!vars)
  BY <1>4, <1>5 DEF Stop, Evict, taskVars, clientVars
<1>6. ASSUME NEW c \in Clients, Resume(c) PROVE [Log!Next]_(Log!vars)
  <2>1. /\ UNCHANGED <<len, pc, status, got>>
        /\ phase[c] \in {"idle", "closed"} /\ phase'[c] = "bound"
        /\ \A d \in Clients \ {c} : phase'[d] = phase[d] /\ bound'[d] = bound[d]
    BY <1>1, <1>6 DEF Resume, taskVars, TypeOK
  <2>2. Binding
    BY <2>1 DEF Binding
  <2>3. \A k \in Run : Finished(k)' = Finished(k) /\ Terminal(k)' = Terminal(k)
    BY <2>1 DEF Finished, Terminal
  <2> QED  BY <2>1, <2>2, <2>3, RunsIdle
<1>7. ASSUME NEW c \in Clients, Subscribe(c) PROVE [Log!Next]_(Log!vars)
  <2>1. /\ UNCHANGED <<len, pc, status, bound>> /\ phase[c] = "bound" /\ phase'[c] = "replay"
        /\ got'[c] = <<>>
        /\ \A d \in Clients \ {c} : phase'[d] = phase[d] /\ got'[d] = got[d]
    BY <1>1, <1>7 DEF Subscribe, taskVars, TypeOK
  <2>2. Mode(c) = "away" /\ Mode(c)' = "reading" /\ Len(got'[c]) = 0
    BY <2>1 DEF Mode, Attached
  <2> QED  BY <1>1, <2>1, <2>2, ResponseReads
<1>8. ASSUME NEW c \in Clients, Replay(c) \/ Flush(c) PROVE [Log!Next]_(Log!vars)
  <2>1. Attached(c) /\ bound[c] \in Run
    BY <1>1, <1>8, BoundRun DEF Replay, Flush, Attached
  <2>2. CASE /\ next[c] < len[bound[c]] /\ Yield(c, next[c] + 1)
             /\ UNCHANGED <<taskVars, phase, bound>>
    BY <1>1, <2>1, <2>2, YieldReads DEF taskVars
  <2>3. CASE next[c] >= len[bound[c]] /\ Leave(c, "closed") /\ Terminal(bound[c])
    <3>1. next[c] = len[bound[c]]
      BY <1>1, <2>1, <2>3, AllRead
    <3> QED  BY <1>1, <2>1, <2>3, <3>1, LeaveReads
  <2>4. CASE phase' = [phase EXCEPT ![c] = "live"] /\ UNCHANGED <<taskVars, bound, got>>
    BY <1>1, <2>1, <2>4, PhaseReads DEF taskVars
  <2>5. phase[c] = "flush" => Terminal(bound[c])
    BY <1>1 DEF EndInv
  <2> QED  BY <1>8, <2>2, <2>3, <2>4, <2>5 DEF Replay, Flush
<1>9. ASSUME NEW c \in Clients, Take(c) PROVE [Log!Next]_(Log!vars)
  BY <1>1, <1>9, TakeReads
<1>10. ASSUME NEW c \in Clients, HeartbeatTimeout(c) PROVE [Log!Next]_(Log!vars)
  BY <1>1, <1>10, PhaseReads DEF HeartbeatTimeout, taskVars, Attached
<1>11. ASSUME NEW c \in Clients, Disconnect(c) PROVE [Log!Next]_(Log!vars)
  <2>1. CASE Attached(c) /\ Leave(c, "idle")
    BY <1>1, <2>1, LeaveReads
  <2>2. CASE /\ phase[c] = "bound" /\ phase' = [phase EXCEPT ![c] = "idle"]
             /\ UNCHANGED <<taskVars, bound, got>>
    <3>1. \A d \in Clients : Mode(d)' = Mode(d)
      BY <1>1, <2>2 DEF Mode, Attached, TypeOK
    <3> QED  BY <2>2, <3>1, LogIdle DEF taskVars
  <2> QED  BY <1>11, <2>1, <2>2 DEF Disconnect
<1>12. CASE UNCHANGED vars
  BY <1>4, <1>12 DEF vars, taskVars, clientVars
<1> QED
  BY <1>2, <1>3, <1>5, <1>6, <1>7, <1>8, <1>9, <1>10, <1>11, <1>12 DEF Next, Body

\* agent_runs.py:204-211: what subscribe() promises - every response replays its
\* run from the first event, in order, and ends by itself only when the run
\* has ended and all it published has been delivered - is what the queues,
\* the sentinel, the heartbeats and the grace timer implement.
THEOREM RunsImplementLog == Spec => DeliversReplayLog
<1>1. Spec => Log!Init /\ [][Log!Next]_(Log!vars)
  BY LogInit, LogStep, LogInvariant, PTL DEF Spec
<1> QED  BY <1>1 DEF DeliversReplayLog, Log!Spec
=============================================================================
