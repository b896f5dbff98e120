------------------------------ MODULE AgentRuns ------------------------------
(***************************************************************************)
(* The detached agent-run manager (src/agent_runs.py) for one session.     *)
(* Sessions never share state, so one session stands for all of them.      *)
(*                                                                         *)
(* A run is an asyncio task that drains a generator into a replay buffer;  *)
(* clients subscribe to the buffer.  All code runs on one event loop: an   *)
(* action is what runs between two awaits, and task.cancel() only raises a *)
(* flag, which the task meets at its next step.                            *)
(*                                                                         *)
(* Sequence numbers are 1-based here and 0-based in the code.              *)
(***************************************************************************)
EXTENDS Naturals, Sequences, FiniteSets

CONSTANTS MaxRuns,    \* bound: runs ever started for the session
          MaxEvents,  \* bound: events a generator yields before it ends
          Clients     \* SSE connections, reused once they are closed

ASSUME AgentRunsAssumption == MaxRuns \in Nat /\ MaxEvents \in Nat

NoRun == 0            \* _RUNS.get(session_id) is None; prev_task is None
END == 0              \* the (None, None) item that ends a subscription
Run == 1..MaxRuns     \* the n-th run started has identity n
Events == 1..(MaxEvents + 2)   \* a failing run publishes two more

Status == {"running", "done", "error", "stopped"}

\* Where a drain task is suspended.
\*   absent    not started yet           created  before its first instruction
\*   waiting   asyncio.wait({prev_task}) streaming inside the generator
\*   closing   in the generator's handlers for a cancellation
\*   barrier   asyncio.shield(prev_task) done      returned
\*   unborn    cancelled before its first instruction: the body never ran
TaskPc == {"absent", "created", "waiting", "streaming", "closing", "barrier",
           "done", "unborn"}

\* What a client's connection is doing.
\*   idle      no response open
\*   bound     holds a response for a run, body not iterated yet
\*   replay    replaying the buffer      live    waiting on its queue
\*   flush     sentinel taken, yielding what is left of the buffer
\*   closed    the response ended by itself
ClientPhase == {"idle", "bound", "replay", "live", "flush", "closed"}

VARIABLES
  registered,   \* the run in _RUNS, or NoRun
  count,        \* runs started so far
  status,       \* _Run.status
  pc,           \* where the run's drain task is
  prev,         \* prev_task: the run whose task this one waits for
  cancelled,    \* a cancel() the task has not met yet
  len,          \* Len(_Run.buffer)
  armed,        \* _Run.evict_task is sleeping
  phase, bound, \* each client's connection and the run it is bound to
  queue,        \* each client's asyncio.Queue: sequence numbers and END
  next,         \* next_seq of each subscription
  got,          \* history: the events the current response has yielded
  strikes,      \* history: cancellations asked for while prev_task was alive
  deserted      \* history: runs evicted while their task was alive

taskVars == <<status, pc, prev, cancelled, len>>
clientVars == <<phase, bound, queue, next, got>>
vars == <<registered, count, taskVars, armed, clientVars, strikes, deserted>>

TypeOK ==
  /\ registered \in Run \cup {NoRun}
  /\ count \in 0..MaxRuns
  /\ status \in [Run -> Status]
  /\ pc \in [Run -> TaskPc]
  /\ prev \in [Run -> Run \cup {NoRun}]
  /\ cancelled \in [Run -> BOOLEAN]
  /\ len \in [Run -> Nat]
  /\ armed \in [Run -> BOOLEAN]
  /\ phase \in [Clients -> ClientPhase]
  /\ bound \in [Clients -> Run \cup {NoRun}]
  /\ queue \in [Clients -> Seq(Nat)]
  /\ next \in [Clients -> Nat]
  /\ got \in [Clients -> Seq(Nat)]
  /\ strikes \in [Run -> 0..2]
  /\ deserted \subseteq Run

-----------------------------------------------------------------------------
Finished(r) == pc[r] \in {"done", "unborn"}
Terminal(r) == status[r] # "running"
InFlight(r) == r # NoRun /\ ~Finished(r)     \* task and not task.done()
Waits(r) == InFlight(prev[r])

Attached(c) == phase[c] \in {"replay", "live", "flush"}
Subscribers(r) == {c \in Clients : bound[c] = r /\ Attached(c)}

\* Mutant: the sequence number is taken before the append, one too low.
FanOutOffByOne(r, n, wake) ==
  /\ len' = [len EXCEPT ![r] = @ + n]
  /\ queue' = [c \in Clients |->
       IF c \in Subscribers(r)
       THEN queue[c] \o [i \in 1..n |-> len[r] + i - 2] \o (IF wake THEN <<END>> ELSE <<>>)
       ELSE queue[c]]

\* _publish, n times, then _wake_run_subscribers when wake holds.
FanOut(r, n, wake) ==
  /\ len' = [len EXCEPT ![r] = @ + n]
  /\ queue' = [c \in Clients |->
       IF c \in Subscribers(r)
       THEN queue[c] \o [i \in 1..n |-> len[r] + i] \o (IF wake THEN <<END>> ELSE <<>>)
       ELSE queue[c]]

\* Mutant: the status is all that tells the task to end.
CancelNothing(r) == UNCHANGED <<cancelled, strikes>>

\* task.cancel(): the flag is raised; asking again before it is met adds nothing.
Cancel(r) ==
  /\ cancelled' = [cancelled EXCEPT ![r] = TRUE]
  /\ strikes' = IF Waits(r) /\ ~cancelled[r] /\ strikes[r] < 2
                THEN [strikes EXCEPT ![r] = @ + 1]
                ELSE strikes

\* _schedule_evict(session_id, r): only the registered run gets a timer.
ScheduleEvict(r) ==
  armed' = IF registered = r THEN [armed EXCEPT ![r] = TRUE] ELSE armed

Init ==
  /\ registered = NoRun
  /\ count = 0
  /\ status = [r \in Run |-> "running"]
  /\ pc = [r \in Run |-> "absent"]
  /\ prev = [r \in Run |-> NoRun]
  /\ cancelled = [r \in Run |-> FALSE]
  /\ len = [r \in Run |-> 0]
  /\ armed = [r \in Run |-> FALSE]
  /\ phase = [c \in Clients |-> "idle"]
  /\ bound = [c \in Clients |-> NoRun]
  /\ queue = [c \in Clients |-> <<>>]
  /\ next = [c \in Clients |-> 0]
  /\ got = [c \in Clients |-> <<>>]
  /\ strikes = [r \in Run |-> 0]
  /\ deserted = {}

-----------------------------------------------------------------------------
(* start(): called by the chat endpoint, which binds its response to the   *)
(* new run.  The connection may be gone before the body is iterated.       *)

\* The new run is registered; C are the clients bound to it (one or none).
Register(r, C) ==
  /\ count' = r
  /\ registered' = r
  /\ phase' = [c \in Clients |-> IF c \in C THEN "bound" ELSE phase[c]]
  /\ bound' = [c \in Clients |-> IF c \in C THEN r ELSE bound[c]]

NewResponse == {{}} \cup {{c} : c \in {d \in Clients : phase[d] \in {"idle", "closed"}}}

\* Mutant: the grace timer of the replaced run is not cancelled.
StartFreshKeepingTimer ==
  /\ count < MaxRuns
  /\ ~InFlight(registered)
  /\ pc' = [pc EXCEPT ![count + 1] = "created"]
  /\ \E C \in NewResponse : Register(count + 1, C)
  /\ UNCHANGED <<status, prev, cancelled, len, armed, queue, next, got, strikes, deserted>>

\* No run is registered, or its task has returned: nothing to wait for.
StartFresh ==
  /\ count < MaxRuns
  /\ ~InFlight(registered)
  /\ pc' = [pc EXCEPT ![count + 1] = "created"]
  /\ armed' = [r \in Run |-> armed[r] /\ r # registered]
  /\ \E C \in NewResponse : Register(count + 1, C)
  /\ UNCHANGED <<status, prev, cancelled, len, queue, next, got, strikes, deserted>>

\* Mutant: subscribers are left to the task, which may never run its body.
SupersedeSilently(p) ==
  /\ status' = [status EXCEPT ![p] = IF @ = "running" THEN "stopped" ELSE @]
  /\ FanOut(p, 0, FALSE)
  /\ Cancel(p)
  /\ armed' = [armed EXCEPT ![p] = FALSE]

\* The run in flight is terminalized at once: its task may be cancelled
\* before its first instruction and would then tell nobody.
Supersede(p) ==
  /\ status' = [status EXCEPT ![p] = IF @ = "running" THEN "stopped" ELSE @]
  /\ FanOut(p, 0, status[p] = "running")
  /\ Cancel(p)
  /\ armed' = [armed EXCEPT ![p] = FALSE]

\* The registered run is in flight: the new task waits for its task.
StartReplacing ==
  /\ count < MaxRuns
  /\ InFlight(registered)
  /\ Supersede(registered)
  /\ pc' = [pc EXCEPT ![count + 1] = "created"]
  /\ prev' = [prev EXCEPT ![count + 1] = registered]
  /\ \E C \in NewResponse : Register(count + 1, C)
  /\ UNCHANGED <<next, got, deserted>>

\* Mutant: stop() writes the status itself, as start() does.
StopAtOnce(r) ==
  /\ registered = r
  /\ InFlight(r) /\ pc[r] # "created"
  /\ Cancel(r)
  /\ status' = [status EXCEPT ![r] = "stopped"]
  /\ UNCHANGED <<registered, count, pc, prev, len, armed, clientVars, deserted>>

\* stop(): a Stop that names another run is refused.  The browser learns the
\* run's identity from the response headers, which are sent after the task's
\* first step, so a task that has not begun is never stopped.
Stop(r) ==
  /\ registered = r
  /\ InFlight(r) /\ pc[r] # "created"
  /\ Cancel(r)
  /\ UNCHANGED <<registered, count, status, pc, prev, len, armed, clientVars, deserted>>

-----------------------------------------------------------------------------
(* _drain(): the background task of a run.                                 *)

\* The task returns: status s, n last events, the end sentinel when wake
\* (_wake_subscribers acts once per task), and the grace timer.
Return(r, s, n, wake) ==
  /\ status' = [status EXCEPT ![r] = s]
  /\ FanOut(r, n, wake)
  /\ pc' = [pc EXCEPT ![r] = "done"]
  /\ cancelled' = [cancelled EXCEPT ![r] = FALSE]
  /\ ScheduleEvict(r)
  /\ UNCHANGED <<registered, count, prev, phase, bound, next, got, strikes, deserted>>

\* The step changes only where the task is (and consumes a cancellation).
MoveTo(r, p) ==
  /\ pc' = [pc EXCEPT ![r] = p]
  /\ cancelled' = [cancelled EXCEPT ![r] = FALSE]
  /\ UNCHANGED <<registered, count, status, prev, len, armed, clientVars, strikes, deserted>>

\* First step of the task: nothing of _drain runs when it was cancelled before.
Begin(r) ==
  /\ pc[r] = "created"
  /\ MoveTo(r, IF cancelled[r] THEN "unborn"
               ELSE IF Waits(r) THEN "waiting" ELSE "streaming")

\* asyncio.wait({prev_task}) returns.
PredecessorDone(r) ==
  /\ pc[r] = "waiting"
  /\ ~cancelled[r] /\ ~Waits(r)
  /\ MoveTo(r, "streaming")

\* Mutant: the task returns without waiting for its predecessor.
CancelledWaitingNoBarrier(r) ==
  /\ pc[r] = "waiting"
  /\ cancelled[r]
  /\ Return(r, "stopped", 0, TRUE)

\* Cancelled while waiting: the generator never ran, aclose() returns at
\* once, subscribers are woken, and the task lingers for its predecessor.
CancelledWaiting(r) ==
  /\ pc[r] = "waiting"
  /\ cancelled[r]
  /\ \/ ~Waits(r) /\ Return(r, "stopped", 0, TRUE)
     \/ /\ Waits(r)
        /\ status' = [status EXCEPT ![r] = "stopped"]
        /\ FanOut(r, 0, TRUE)
        /\ pc' = [pc EXCEPT ![r] = "barrier"]
        /\ cancelled' = [cancelled EXCEPT ![r] = FALSE]
        /\ UNCHANGED <<registered, count, prev, armed, phase, bound, next, got,
                       strikes, deserted>>

\* The shield ends with the predecessor, or with another cancellation, which
\* the code swallows.
LeaveBarrier(r) ==
  /\ pc[r] = "barrier"
  /\ cancelled[r] \/ ~Waits(r)
  /\ Return(r, status[r], 0, FALSE)

StreamEvent(r) ==
  /\ pc[r] = "streaming"
  /\ ~cancelled[r]
  /\ len[r] < MaxEvents
  /\ FanOut(r, 1, FALSE)
  /\ UNCHANGED <<registered, count, status, pc, prev, cancelled, armed, phase, bound,
                 next, got, strikes, deserted>>

\* The generator is exhausted, or raises.
StreamEnd(r) ==
  /\ pc[r] = "streaming"
  /\ ~cancelled[r]
  /\ \/ Return(r, IF Terminal(r) THEN status[r] ELSE "done", 0, TRUE)
     \/ Return(r, "error", 2, TRUE)

\* CancelledError is thrown into the generator, whose handlers (they cancel
\* and await the running tool, then save the partial answer) may await.
CancelledStreaming(r) ==
  /\ pc[r] = "streaming"
  /\ cancelled[r]
  /\ MoveTo(r, "closing")

\* A second cancellation reaches the handlers: swallowed by the tool's cleanup.
CancelledClosing(r) ==
  /\ pc[r] = "closing"
  /\ cancelled[r]
  /\ MoveTo(r, "closing")

\* The handlers end: they re-raise the cancellation or fail with an error.
CloseEnd(r) ==
  /\ pc[r] = "closing"
  /\ \/ Return(r, "stopped", 0, TRUE)
     \/ ~cancelled[r] /\ Return(r, "error", 2, TRUE)

\* Mutant: the timer does not look for subscribers.
EvictBlindly(r) ==
  /\ armed[r]
  /\ armed' = [armed EXCEPT ![r] = FALSE]
  /\ IF registered = r /\ Terminal(r)
     THEN registered' = NoRun ELSE UNCHANGED registered
  /\ UNCHANGED <<count, taskVars, clientVars, strikes, deserted>>

\* The grace timer of a run fires.
Evict(r) ==
  /\ armed[r]
  /\ armed' = [armed EXCEPT ![r] = FALSE]
  /\ IF registered = r /\ Terminal(r) /\ Subscribers(r) = {}
     THEN /\ registered' = NoRun
          /\ deserted' = IF Finished(r) THEN deserted ELSE deserted \cup {r}
     ELSE UNCHANGED <<registered, deserted>>
  /\ UNCHANGED <<count, taskVars, clientVars, strikes>>

-----------------------------------------------------------------------------
(* subscribe(): the body of a client's response.                           *)

\* GET /api/chat/resume binds a new response to the active run.
Resume(c) ==
  /\ phase[c] \in {"idle", "closed"}
  /\ registered # NoRun
  /\ ~Terminal(registered)
  /\ phase' = [phase EXCEPT ![c] = "bound"]
  /\ bound' = [bound EXCEPT ![c] = registered]
  /\ UNCHANGED <<registered, count, taskVars, armed, queue, next, got, strikes, deserted>>

\* First step of the body: the queue is registered before anything is replayed.
Subscribe(c) ==
  /\ phase[c] = "bound"
  /\ phase' = [phase EXCEPT ![c] = "replay"]
  /\ queue' = [queue EXCEPT ![c] = <<>>]
  /\ next' = [next EXCEPT ![c] = 0]
  /\ got' = [got EXCEPT ![c] = <<>>]
  /\ armed' = [armed EXCEPT ![bound[c]] = FALSE]
  /\ UNCHANGED <<registered, count, taskVars, bound, strikes, deserted>>

Yield(c, s) ==
  /\ got' = [got EXCEPT ![c] = Append(@, s)]
  /\ next' = [next EXCEPT ![c] = s]

\* Mutant: nobody arms the timer again.
LeaveForGood(c, p) ==
  /\ phase' = [phase EXCEPT ![c] = p]
  /\ UNCHANGED <<registered, count, taskVars, armed, bound, queue, next, got, strikes, deserted>>

\* The finally block: the last one to leave a finished run arms its timer.
Leave(c, p) ==
  /\ phase' = [phase EXCEPT ![c] = p]
  /\ IF Terminal(bound[c]) /\ Subscribers(bound[c]) = {c}
     THEN ScheduleEvict(bound[c])
     ELSE UNCHANGED armed
  /\ UNCHANGED <<registered, count, taskVars, bound, queue, next, got, strikes, deserted>>

\* Replaying: one event per step, then straight to the end or to the queue.
Replay(c) ==
  /\ phase[c] = "replay"
  /\ \/ /\ next[c] < len[bound[c]]
        /\ Yield(c, next[c] + 1)
        /\ UNCHANGED <<registered, count, taskVars, armed, phase, bound, queue, strikes, deserted>>
     \/ /\ next[c] >= len[bound[c]]
        /\ Terminal(bound[c])
        /\ Leave(c, "closed")
     \/ /\ next[c] >= len[bound[c]]
        /\ ~Terminal(bound[c])
        /\ phase' = [phase EXCEPT ![c] = "live"]
        /\ UNCHANGED <<registered, count, taskVars, armed, bound, queue, next, got, strikes, deserted>>

\* Mutant: every event taken from the queue is yielded.
TakeAll(c) ==
  /\ phase[c] = "live"
  /\ queue[c] # <<>>
  /\ queue' = [queue EXCEPT ![c] = Tail(@)]
  /\ LET s == Head(queue[c]) IN
       \/ s = END /\ phase' = [phase EXCEPT ![c] = "flush"] /\ UNCHANGED <<next, got>>
       \/ s # END /\ Yield(c, s) /\ UNCHANGED phase
  /\ UNCHANGED <<registered, count, taskVars, armed, bound, strikes, deserted>>

\* q.get(): the sentinel, an event not replayed yet, or one to skip.
Take(c) ==
  /\ phase[c] = "live"
  /\ queue[c] # <<>>
  /\ queue' = [queue EXCEPT ![c] = Tail(@)]
  /\ LET s == Head(queue[c]) IN
       \/ s = END /\ phase' = [phase EXCEPT ![c] = "flush"] /\ UNCHANGED <<next, got>>
       \/ s # END /\ s > next[c] /\ Yield(c, s) /\ UNCHANGED phase
       \/ s # END /\ s <= next[c] /\ UNCHANGED <<phase, next, got>>
  /\ UNCHANGED <<registered, count, taskVars, armed, bound, strikes, deserted>>

\* Mutant: a silent run is taken for a finished one.
HeartbeatGivesUp(c) ==
  /\ phase[c] = "live"
  /\ phase' = [phase EXCEPT ![c] = "flush"]
  /\ UNCHANGED <<registered, count, taskVars, armed, bound, queue, next, got, strikes, deserted>>

\* wait_for() times out: a heartbeat while the run is running, else the end.
HeartbeatTimeout(c) ==
  /\ phase[c] = "live"
  /\ Terminal(bound[c])
  /\ phase' = [phase EXCEPT ![c] = "flush"]
  /\ UNCHANGED <<registered, count, taskVars, armed, bound, queue, next, got, strikes, deserted>>

\* Mutant: the end of the run ends the response without the tail.
FlushNothing(c) ==
  /\ phase[c] = "flush"
  /\ Leave(c, "closed")

\* What the sentinel raced: the rest of the buffer, then the end.
Flush(c) ==
  /\ phase[c] = "flush"
  /\ \/ /\ next[c] < len[bound[c]]
        /\ Yield(c, next[c] + 1)
        /\ UNCHANGED <<registered, count, taskVars, armed, phase, bound, queue, strikes, deserted>>
     \/ next[c] >= len[bound[c]] /\ Leave(c, "closed")

\* The connection drops: a body that was never iterated has no finally to run.
Disconnect(c) ==
  \/ Attached(c) /\ Leave(c, "idle")
  \/ /\ phase[c] = "bound"
     /\ phase' = [phase EXCEPT ![c] = "idle"]
     /\ UNCHANGED <<registered, count, taskVars, armed, bound, queue, next, got, strikes, deserted>>

-----------------------------------------------------------------------------
Drain(r) ==
  \/ Begin(r) \/ PredecessorDone(r) \/ CancelledWaiting(r) \/ LeaveBarrier(r)
  \/ CancelledStreaming(r) \/ CancelledClosing(r) \/ CloseEnd(r)

Body(c) == Subscribe(c) \/ Replay(c) \/ Take(c) \/ Flush(c)

Next ==
  \/ StartFresh
  \/ StartReplacing
  \/ \E r \in Run : \/ Stop(r) \/ Drain(r) \/ StreamEvent(r) \/ StreamEnd(r) \/ Evict(r)
  \/ \E c \in Clients : \/ Resume(c) \/ Body(c) \/ HeartbeatTimeout(c) \/ Disconnect(c)

Spec == Init /\ [][Next]_vars

\* The event loop runs every task that can run, timers fire, and a client
\* that stays connected keeps reading.  A generator that is cancelled finishes
\* its handlers, however often it is cancelled again; one that is not may
\* stream forever.  No fairness is asked of the heartbeat timeout.
Fairness ==
  /\ \A r \in Run : WF_vars(Drain(r)) /\ WF_vars(CloseEnd(r)) /\ WF_vars(Evict(r))
  /\ \A c \in Clients : WF_vars(Body(c))

FairSpec == Spec /\ Fairness

-----------------------------------------------------------------------------
Writing(r) == pc[r] \in {"streaming", "closing"}

\* A replacement is to write to the session only when the runs before it have
\* finished saving (agent_runs.py:128-131).  What the chain of prev_task really
\* guarantees is weaker: two runs write at once only
\* if a run between them was cancelled before its first instruction, or twice
\* while its predecessor was alive, or lost its registration to the grace
\* timer while it waited in the barrier.
Breach(k) == pc[k] = "unborn" \/ strikes[k] = 2 \/ k \in deserted

OverlapNeedsBreach ==
  \A r, s \in Run : r < s /\ Writing(r) /\ Writing(s) =>
    \E k \in Run : r < k /\ k < s /\ Breach(k)

\* is_active() is false for the registered run only when its own generator
\* has finished saving: no timer, Stop or status write gets ahead of it.
TerminalMeansSaved ==
  \A r \in Run : registered = r /\ Terminal(r) => pc[r] \in {"barrier", "done"}

\* Every client receives the events of its run in order, without a gap and
\* without a duplicate, however replay, queue and sentinel interleave.
GapFree ==
  \A c \in Clients : got[c] = [i \in 1..next[c] |-> i]

\* A response that ended by itself delivered the whole buffer, unless the run
\* was replaced in flight and failed after its subscribers were sent away.
CompleteOnClose ==
  \A c \in Clients : phase[c] = "closed" =>
    \/ next[c] = len[bound[c]]
    \/ status[bound[c]] = "error" /\ \E s \in Run : prev[s] = bound[c]

\* subscribe() delivers its run exactly: in order and once, and to the end if the
\* response ends by itself.
ExactDelivery == GapFree /\ CompleteOnClose

\* A subscription delivers its run as an append-only log read in order, and
\* ends by itself only after the run has: the promise of subscribe().
Mode(c) == IF Attached(c) THEN "reading" ELSE IF phase[c] = "closed" THEN "complete" ELSE "away"

Log == INSTANCE ReplayLog WITH
  Logs <- Run, Readers <- Clients, size <- len,
  sealed <- [r \in Run |-> Finished(r)], ended <- [r \in Run |-> Terminal(r)],
  reading <- bound, position <- [c \in Clients |-> Len(got[c])],
  mode <- [c \in Clients |-> Mode(c)]

DeliversReplayLog == Log!Spec

\* A grace timer only ever sleeps for the registered run: replacing or
\* evicting a run leaves no stale timer behind.
TimerOfRegistered == \A r \in Run : armed[r] => registered = r

\* Eviction never takes a run from under a client that is about to replay it
\* or whose task still has to save.
EvictionIsSafe ==
  [][\A r \in Run : registered = r /\ registered' = NoRun =>
       Subscribers(r) = {} /\ ~Writing(r) /\ pc[r] # "waiting"]_vars

\* Every subscription to a run that ended is closed by its own end sentinel:
\* the heartbeat timeout is not needed for it.
SubscribersClose ==
  \A c \in Clients : Attached(c) /\ Terminal(bound[c]) ~> ~Attached(c)

\* A run that nobody follows does not keep its buffer for ever.
FinishedRunsEvicted ==
  \A r \in Run : registered = r /\ Finished(r) /\ Subscribers(r) = {} ~>
    registered # r \/ Subscribers(r) # {}

\* A replacement never waits for ever: the run it replaced was cancelled.
ReplacementProceeds ==
  \A r \in Run : pc[r] = "waiting" ~> pc[r] # "waiting"
=============================================================================
