--------------------------- MODULE TaskScheduler ---------------------------
(***************************************************************************)
(* The background task scheduler of src/src/task_scheduler.py and the      *)
(* event trigger of src/src/event_bus.py that feeds it, for the tasks of   *)
(* one owner.                                                              *)
(*                                                                         *)
(* Everything here is one asyncio loop: an action is what a coroutine does *)
(* between two points where it really suspends.  `async with               *)
(* self._executing_lock` never suspends, because no section under that     *)
(* lock awaits, so the lock has no variable.  Time is the three-valued     *)
(* column nextRun: none, later, due.                                       *)
(***************************************************************************)
EXTENDS Naturals, FiniteSets, SequencesExt

CONSTANTS
    Tasks,        \* rows of scheduled_tasks
    Execs,        \* coroutines of _execute_task that may be alive at once
    Kind,         \* trigger_type and schedule of a task
    ModelTasks,   \* tasks for which _task_needs_model_slot answers True
    AdminOnly,    \* tasks whose action needs an admin owner
    Then,         \* then_task_id
    NoTask,
    NoExec,
    Threshold,    \* trigger_count of the event tasks
    Budget        \* how often the environment may do each thing

ASSUME TasksAssumption == NoTask \notin Tasks /\ NoExec \notin Execs
ASSUME KindAssumption == Kind \in [Tasks -> {"repeat", "once", "event"}]
ASSUME ThenAssumption == Then \in [Tasks -> Tasks \cup {NoTask}]
ASSUME SubsetAssumption == ModelTasks \subseteq Tasks /\ AdminOnly \subseteq Tasks
ASSUME ThresholdAssumption == Threshold \in Nat \ {0}

Inputs == {"event", "stop", "force", "manual", "restart", "foreground", "pause"}
ASSUME BudgetAssumption == Budget \in [Inputs -> Nat]

VARIABLES
    status,      \* scheduled_tasks.status
    nextRun,     \* scheduled_tasks.next_run: none, later (> now), due (<= now)
    counter,     \* scheduled_tasks.trigger_counter
    expired,     \* once tasks whose scheduled_date is in the past
    row,         \* task_runs.status of the run of an execution; closed stands
                 \* for no row yet and for every final status
    started,     \* per task, live executions with a run row by its started_at
    executing,   \* _executing
    handle,      \* _task_handles
    slot,        \* who holds _run_semaphore
    queue,       \* who waits for _run_semaphore
    exec,        \* the coroutines
    foreground,  \* has_foreground_activity()
    stopping,    \* a _stop_background() coroutine is about to run
    owed,        \* history: event tasks whose accepted trigger has not run yet
    stopped,     \* history: tasks stop_task() took out of _executing
    used         \* how much of Budget is spent

database == <<status, nextRun, counter, expired>>
runs == <<row, started>>
memory == <<executing, handle, slot, queue>>
user == <<foreground, stopping>>
history == <<owed, stopped>>
vars == <<database, runs, memory, exec, user, history, used>>

Live == {"spawned", "waiting", "quiet", "running"}

Idle == [pc |-> "idle", task |-> NoTask, origin |-> "none",
         cancelled |-> "no", hit |-> FALSE, seen |-> FALSE]

Exec == [pc : Live \cup {"idle"},
         task : Tasks \cup {NoTask},
         origin : {"none", "loop", "event", "manual", "chain", "force"},
         cancelled : {"no", "user", "foreground"},  \* CancelledError pending
         hit : BOOLEAN,                             \* foreground_cancel["hit"]
         seen : BOOLEAN]     \* next_run was set when the session loaded the task

EventTasks == {t \in Tasks : Kind[t] = "event"}

Forced(e) == exec[e].origin = "force"
NeedsSlot(e) == exec[e].task \in ModelTasks /\ ~Forced(e)
Spend(what) == used[what] < Budget[what] /\ used' = [used EXCEPT ![what] = @ + 1]

Init ==
    /\ status = [t \in Tasks |-> "active"]
    /\ nextRun = [t \in Tasks |-> IF Kind[t] = "event" THEN "none" ELSE "later"]
    /\ counter = [t \in Tasks |-> 0]
    /\ expired = {}
    /\ row = [e \in Execs |-> "closed"]
    /\ started = [t \in Tasks |-> <<>>]
    /\ executing = {}
    /\ handle = [t \in Tasks |-> NoExec]
    /\ slot = NoExec
    /\ queue = <<>>
    /\ exec = [e \in Execs |-> Idle]
    /\ foreground = FALSE
    /\ stopping = FALSE
    /\ owed = {}
    /\ stopped = {}
    /\ used = [i \in Inputs |-> 0]

-----------------------------------------------------------------------------
(* Spawning: asyncio.create_task(self._execute_task(...))                   *)

\* A coroutine that has ended leaves its place to a new one; its run row is
\* history nobody reads again.
IdleExecs == {e \in Execs : exec[e].pc = "idle"}

Room(S) == Injection(S, IdleExecs) # {}

\* One new coroutine for each task of S.
Spawned(execs, S, origin) ==
    LET place == CHOOSE f \in Injection(S, IdleExecs) : TRUE
    IN  [e \in Execs |->
           IF \E t \in S : place[t] = e
           THEN [Idle EXCEPT !.pc = "spawned", !.origin = origin,
                             !.task = CHOOSE t \in S : place[t] = e]
           ELSE execs[e]]

Spawn(S, origin) == Room(S) /\ exec' = Spawned(exec, S, origin)

-----------------------------------------------------------------------------
(* What the end of an execution does, on every path                         *)

\* e leaves its only place in seq, if it has one.
Without(seq, e) ==
    IF \E i \in DOMAIN seq : seq[i] = e
    THEN RemoveAt(seq, CHOOSE i \in DOMAIN seq : seq[i] = e) ELSE seq

\* Mutant: the slot is released by hand, not by `async with`.
Mutant_Finish_LeaksOnCancel(e, members, handles, holder) ==
    LET t == exec[e].task IN
    /\ executing' = IF Forced(e) THEN members ELSE members \ {t}
    /\ handle' = IF handles[t] = e THEN [handles EXCEPT ![t] = NoExec] ELSE handles
    /\ slot' = IF holder = e /\ exec[e].cancelled = "no" THEN NoExec ELSE holder
    /\ started' = [started EXCEPT ![t] = Without(@, e)]

\* The two finally blocks: _task_handles and _executing, and the semaphore.
Finish(e, members, handles, holder) ==
    LET t == exec[e].task IN
    /\ executing' = IF Forced(e) THEN members ELSE members \ {t}
    /\ handle' = IF handles[t] = e THEN [handles EXCEPT ![t] = NoExec] ELSE handles
    /\ slot' = IF holder = e THEN NoExec ELSE holder
    /\ started' = [started EXCEPT ![t] = Without(@, e)]

\* compute_next_run() at this moment.
ComputeNext(t) ==
    IF Kind[t] = "once" /\ t \in expired THEN "none" ELSE "later"

\* Setting task.next_run to None emits no UPDATE when None is the value the
\* session loaded, so a value somebody else wrote meanwhile stays.
Written(e, value) ==
    IF value = "none" /\ ~exec[e].seen THEN nextRun[exec[e].task] ELSE value

\* The next_run of a task whose execution is over: only schedules go on.
WrittenOnEnd(e) ==
    Written(e, IF Kind[exec[e].task] = "event" THEN "none"
                                               ELSE ComputeNext(exec[e].task))

\* After an unexpected exception only a schedule is advanced.
ErrorNextRun(e) ==
    IF Kind[exec[e].task] = "event" THEN nextRun[exec[e].task] ELSE WrittenOnEnd(e)

\* _has_chain_cycle: the tasks from which the chain does not end within
\* ChainDepth tasks.  To meet a task twice is one way not to end.
ChainDepth == 10
HasChainCycle ==
    LET link[t \in Tasks \cup {NoTask}, n \in 0 .. ChainDepth] ==
            IF t = NoTask \/ n = 0 THEN t ELSE link[Then[t], n - 1]
    IN  {t \in Tasks : link[t, ChainDepth] # NoTask}

-----------------------------------------------------------------------------
(* _execute_task and _execute_task_locked                                   *)

\* The head of _execute_task_locked, from the row's present state: a task no
\* longer active is skipped, an admin-only task of a demoted owner is paused,
\* a forced run starts, any other waits for the user to be idle.
Proceed(e, rowNow, members, handles, holder) ==
    LET t == exec[e].task IN
    \/ /\ status[t] # "active"
       /\ row' = [row EXCEPT ![e] = "closed"]                       \* skipped
       /\ exec' = [exec EXCEPT ![e] = Idle]
       /\ Finish(e, members, handles, holder)
       /\ UNCHANGED <<database, owed>>
    \/ /\ status[t] = "active" /\ t \in AdminOnly
       /\ row' = [row EXCEPT ![e] = "closed"]                       \* error
       /\ status' = [status EXCEPT ![t] = "paused"]
       /\ nextRun' = [nextRun EXCEPT ![t] = "none"]
       /\ owed' = owed \ {t}
       /\ exec' = [exec EXCEPT ![e] = Idle]
       /\ Finish(e, members, handles, holder)
       /\ UNCHANGED <<counter, expired>>
    \/ /\ status[t] = "active"
       /\ executing' = members
       /\ handle' = handles
       /\ slot' = holder
       /\ started' = IF exec[e].pc = "spawned"
                     THEN [started EXCEPT ![t] = Append(@, e)] ELSE started
       /\ IF Forced(e)
          THEN /\ row' = [row EXCEPT ![e] = "running"]
               /\ exec' = [exec EXCEPT ![e].pc = "running",
                                       ![e].seen = nextRun[t] # "none"]
               /\ owed' = owed \ {t}
          ELSE /\ row' = [row EXCEPT ![e] = rowNow]
               /\ exec' = [exec EXCEPT ![e].pc = "quiet"]
               /\ UNCHANGED owed
       /\ UNCHANGED database

\* The first step of the coroutine.  A chained run looks at _executing only
\* now (_run_chained); every other origin was entered when it was spawned.
\* Mutant: _run_chained does not look at _executing.
Mutant_AlreadyInFlight_Never(e) == FALSE

\* A chained run whose task was dispatched before its first step gives up.
AlreadyInFlight(e) == exec[e].origin = "chain" /\ exec[e].task \in executing

Begin(e) ==
    LET t == exec[e].task
        members == IF exec[e].origin = "chain" THEN executing \cup {t} ELSE executing
        handles == [handle EXCEPT ![t] = e]
    IN
    /\ exec[e].pc = "spawned"
    /\ \/ /\ AlreadyInFlight(e)
          /\ exec' = [exec EXCEPT ![e] = Idle]
          /\ UNCHANGED <<database, runs, memory, owed>>
       \/ /\ ~AlreadyInFlight(e)
          /\ NeedsSlot(e) /\ (slot # NoExec \/ queue # <<>>)
          /\ exec' = [exec EXCEPT ![e].pc = "waiting"]
          /\ queue' = Append(queue, e)
          /\ row' = [row EXCEPT ![e] = "queued"]
          /\ started' = [started EXCEPT ![t] = Append(@, e)]
          /\ executing' = members
          /\ handle' = handles
          /\ UNCHANGED <<database, slot, owed>>
       \/ /\ ~AlreadyInFlight(e)
          /\ ~(NeedsSlot(e) /\ (slot # NoExec \/ queue # <<>>))
          /\ Proceed(e, "queued", members, handles, IF NeedsSlot(e) THEN e ELSE slot)
          /\ UNCHANGED queue
    /\ UNCHANGED <<user, stopped, used>>

\* The semaphore is fair: the head of its queue gets the slot.
Acquire(e) ==
    /\ exec[e].pc = "waiting" /\ exec[e].cancelled = "no"
    /\ slot = NoExec /\ Head(queue) = e
    /\ Proceed(e, row[e], executing, handle, e)
    /\ queue' = Tail(queue)
    /\ UNCHANGED <<user, stopped, used>>

\* wait_for_interactive_quiet() returns and the run goes from queued to
\* running, whatever its row says; the session loads the task here.
StartRun(e) ==
    /\ exec[e].pc = "quiet" /\ exec[e].cancelled = "no" /\ ~foreground
    /\ row' = [row EXCEPT ![e] = "running"]
    /\ started' = [started EXCEPT ![exec[e].task] = Append(Without(@, e), e)]
    /\ exec' = [exec EXCEPT ![e].pc = "running",
                            ![e].seen = nextRun[exec[e].task] # "none"]
    /\ owed' = owed \ {exec[e].task}
    /\ UNCHANGED <<database, memory, user, stopped, used>>
\* The executor, the delivery and everything after them up to the last commit.
\* Delivering to a session commits, so the task may have been loaded again
\* (fresh) before next_run is written.
Complete(e) ==
    LET t == exec[e].task
        next == Then[t]
        over == [exec EXCEPT ![e] = Idle]
        Reschedule(value) == nextRun' = [nextRun EXCEPT ![t] = value]
    IN
    /\ exec[e].pc = "running" /\ exec[e].cancelled = "no"
    /\ row' = [row EXCEPT ![e] = "closed"]
    /\ Finish(e, executing, handle, slot)
    /\ \/ \E result \in {"success", "error"}, fresh \in BOOLEAN :
             /\ fresh => result = "success"
             /\ Reschedule(IF fresh /\ Kind[t] = "event" THEN "none" ELSE WrittenOnEnd(e))
             /\ status' = IF Kind[t] = "once" /\ ComputeNext(t) = "none"
                          THEN [status EXCEPT ![t] = "completed"] ELSE status
             /\ IF result = "success" /\ next # NoTask /\ next \notin HasChainCycle
                THEN Room({next}) /\ exec' = Spawned(over, {next}, "chain")
                ELSE exec' = over
       \/ /\ Reschedule(WrittenOnEnd(e))             \* TaskNoop
          /\ exec' = over /\ UNCHANGED status
       \/ /\ Reschedule("later")                     \* TaskDeferred
          /\ exec' = over /\ UNCHANGED status
       \/ /\ Reschedule(ErrorNextRun(e))             \* any other exception
          /\ exec' = over /\ UNCHANGED status
    /\ UNCHANGED <<counter, expired, queue, user, history, used>>

\* Mutant: a task cancelled while it waits forgets its next_run.
Mutant_DeferIfDue_Clears(t) == [nextRun EXCEPT ![t] = "none"]

\* _defer_immediately_due_task.
DeferIfDue(t) ==
    [nextRun EXCEPT ![t] = IF status[t] = "active" /\ @ = "due" THEN "later" ELSE @]

\* Mutant: a run cancelled while it waits keeps its row.
Mutant_CancelWaiting_KeepsRow(e) ==
    /\ exec[e].pc \in {"waiting", "quiet"} /\ exec[e].cancelled # "no"
    /\ nextRun' = DeferIfDue(exec[e].task)
    /\ queue' = Without(queue, e)
    /\ exec' = [exec EXCEPT ![e] = Idle]
    /\ Finish(e, executing, handle, slot)
    /\ UNCHANGED <<status, counter, expired, row, user, history, used>>

\* CancelledError while the execution waits, for the slot or for quiet.
CancelWaiting(e) ==
    /\ exec[e].pc \in {"waiting", "quiet"} /\ exec[e].cancelled # "no"
    /\ row' = [row EXCEPT ![e] = "closed"]                          \* aborted
    /\ nextRun' = DeferIfDue(exec[e].task)
    /\ queue' = Without(queue, e)
    /\ exec' = [exec EXCEPT ![e] = Idle]
    /\ Finish(e, executing, handle, slot)
    /\ UNCHANGED <<status, counter, expired, user, history, used>>

\* CancelledError while it runs.
CancelRunning(e) ==
    LET t == exec[e].task IN
    /\ exec[e].pc = "running" /\ exec[e].cancelled # "no"
    /\ row' = [row EXCEPT ![e] = "closed"]                          \* aborted
    /\ nextRun' = [nextRun EXCEPT ![t] =
                      IF exec[e].hit THEN "later" ELSE WrittenOnEnd(e)]
    /\ exec' = [exec EXCEPT ![e] = Idle]
    /\ Finish(e, executing, handle, slot)
    /\ UNCHANGED <<status, counter, expired, queue, user, history, used>>

\* _cancel_if_foreground_active, the monitor of a run that is not forced.
Interrupt(e) ==
    /\ exec[e].pc = "running" /\ ~Forced(e) /\ foreground /\ ~exec[e].hit
    /\ exec' = [exec EXCEPT ![e].hit = TRUE,
                            ![e].cancelled = IF @ = "no" THEN "foreground" ELSE @]
    /\ UNCHANGED <<database, runs, memory, user, history, used>>

-----------------------------------------------------------------------------
(* Where executions come from                                               *)

\* _check_due_tasks.
LoopTick ==
    LET due == {t \in Tasks : status[t] = "active" /\ nextRun[t] = "due"} \ executing IN
    /\ due # {}
    /\ IF foreground
       THEN /\ nextRun' = [t \in Tasks |-> IF t \in due THEN "later" ELSE nextRun[t]]
            /\ UNCHANGED <<executing, exec>>
       ELSE /\ executing' = executing \cup due
            /\ Spawn(due, "loop")
            /\ UNCHANGED nextRun
    /\ UNCHANGED <<status, counter, expired, runs, handle, slot, queue, user, history, used>>

\* Mutant: the counter is not reset at the threshold.
Mutant_Counted_NoReset(t) == counter[t] + 1

\* trigger_counter after one more event.
Counted(t) == IF counter[t] + 1 >= Threshold THEN 0 ELSE counter[t] + 1

\* _handle_event: every active event task counts, those at the threshold
\* store next_run and go through run_task_now, which refuses a task that is
\* already in _executing.
HandleEvent ==
    LET heard == {t \in EventTasks : status[t] = "active"}
        fired == {t \in heard : counter[t] + 1 >= Threshold}
    IN
    /\ Spend("event")
    /\ heard # {}
    /\ counter' = [t \in Tasks |-> IF t \in heard THEN Counted(t) ELSE counter[t]]
    /\ nextRun' = [t \in Tasks |-> IF t \in fired THEN "due" ELSE nextRun[t]]
    /\ executing' = executing \cup fired
    /\ Spawn(fired \ executing, "event")
    /\ owed' = owed \cup (fired \ executing)
    /\ UNCHANGED <<status, expired, runs, handle, slot, queue, user, stopped>>

\* run_task_now from a route, and with force.
RunTaskNow(t) ==
    /\ Spend("manual")
    /\ t \notin executing
    /\ executing' = executing \cup {t}
    /\ Spawn({t}, "manual")
    /\ UNCHANGED <<database, runs, handle, slot, queue, user, history>>

ForceTaskNow(t) ==
    /\ Spend("force")
    /\ Spawn({t}, "force")
    /\ UNCHANGED <<database, runs, memory, user, history>>

-----------------------------------------------------------------------------
(* Stopping                                                                 *)

\* _mark_run_aborted for each task of S: its latest active run.
AbortLatest(S) ==
    LET Active(t) == {i \in DOMAIN started[t] : row[started[t][i]] # "aborted"}
        latest == {started[t][Max(Active(t))] : t \in {t \in S : Active(t) # {}}}
    IN  row' = [e \in Execs |-> IF e \in latest THEN "aborted" ELSE row[e]]

\* handle.cancel() for each task of S.
CancelHandles(S, cause) ==
    exec' = [e \in Execs |->
               IF (\E t \in S : handle[t] = e) /\ exec[e].cancelled = "no"
               THEN [exec[e] EXCEPT !.cancelled = cause] ELSE exec[e]]

\* stop_task.
StopTask(t) ==
    /\ Spend("stop")
    /\ handle[t] # NoExec \/ t \in executing
    /\ CancelHandles({t}, "user")
    /\ executing' = executing \ {t}
    /\ AbortLatest({t})
    /\ stopped' = IF t \in executing THEN stopped \cup {t} ELSE stopped
    /\ UNCHANGED <<database, started, handle, slot, queue, user, owed>>

\* The user opens the application: activity is on record, and a coroutine that
\* will stop the background work has been created.
ForegroundBegins ==
    /\ Spend("foreground")
    /\ foreground' = TRUE /\ stopping' = TRUE
    /\ UNCHANGED <<database, runs, memory, exec, history>>

ForegroundEnds ==
    /\ foreground /\ foreground' = FALSE
    /\ UNCHANGED <<database, runs, memory, exec, stopping, history, used>>

\* stop_background_tasks_for_foreground.
StopBackgroundTasks ==
    /\ stopping /\ stopping' = FALSE
    /\ CancelHandles(executing, "foreground")
    /\ AbortLatest(executing)
    /\ UNCHANGED <<database, started, memory, foreground, history, used>>

-----------------------------------------------------------------------------
(* Time, the user's switches, and a restart                                 *)

TimePasses(t) ==
    /\ nextRun[t] = "later"
    /\ nextRun' = [nextRun EXCEPT ![t] = "due"]
    /\ expired' = IF Kind[t] = "once" THEN expired \cup {t} ELSE expired
    /\ UNCHANGED <<status, counter, runs, memory, exec, user, history, used>>

PauseTask(t) ==
    /\ Spend("pause")
    /\ status[t] # "paused" /\ status' = [status EXCEPT ![t] = "paused"]
    /\ UNCHANGED <<nextRun, counter, expired, runs, memory, exec, user, history>>

ResumeTask(t) ==
    /\ status[t] # "active" /\ status' = [status EXCEPT ![t] = "active"]
    /\ nextRun' = IF Kind[t] = "event" THEN nextRun
                  ELSE [nextRun EXCEPT ![t] = ComputeNext(t)]
    /\ UNCHANGED <<counter, expired, runs, memory, exec, user, history, used>>

\* The process dies and start() runs: what was in memory is gone, the runs it
\* left active are aborted, and overdue tasks wait another minute.
Restart ==
    /\ Spend("restart")
    /\ row' = [e \in Execs |-> "closed"]
    /\ nextRun' = [t \in Tasks |-> IF status[t] = "active" /\ nextRun[t] = "due"
                                   THEN "later" ELSE nextRun[t]]
    /\ exec' = [e \in Execs |-> Idle]
    /\ started' = [t \in Tasks |-> <<>>] /\ queue' = <<>>
    /\ executing' = {} /\ slot' = NoExec
    /\ handle' = [t \in Tasks |-> NoExec]
    /\ foreground' = FALSE /\ stopping' = FALSE
    /\ stopped' = {}
    /\ UNCHANGED <<status, counter, expired, owed>>

Step(e) == Begin(e) \/ Acquire(e) \/ StartRun(e) \/ Complete(e)
              \/ CancelWaiting(e) \/ CancelRunning(e)

Next ==
    \/ \E e \in Execs : Begin(e) \/ Acquire(e) \/ StartRun(e) \/ Complete(e)
                         \/ CancelWaiting(e) \/ CancelRunning(e) \/ Interrupt(e)
    \/ \E t \in Tasks : RunTaskNow(t) \/ ForceTaskNow(t) \/ StopTask(t)
                         \/ TimePasses(t) \/ PauseTask(t) \/ ResumeTask(t)
    \/ LoopTick \/ HandleEvent \/ ForegroundBegins \/ ForegroundEnds
    \/ StopBackgroundTasks \/ Restart

Spec == Init /\ [][Next]_vars

\* The event loop runs every coroutine that can go on, executors end, time goes
\* by, the poll loop wakes within a minute, and the user is not active for ever
\* (foreground activity is bounded by Budget).
FairSpec ==
    /\ Spec
    /\ \A e \in Execs : WF_vars(Step(e))
    /\ \A t \in Tasks : WF_vars(TimePasses(t))
    /\ WF_vars(LoopTick) /\ WF_vars(ForegroundEnds) /\ WF_vars(StopBackgroundTasks)

-----------------------------------------------------------------------------
(* Properties                                                               *)

TypeOK ==
    /\ status \in [Tasks -> {"active", "paused", "completed"}]
    /\ nextRun \in [Tasks -> {"none", "later", "due"}]
    /\ counter \in [Tasks -> 0 .. Threshold - 1]
    /\ expired \subseteq Tasks
    /\ row \in [Execs -> {"closed", "queued", "running", "aborted"}]
    /\ started \in [Tasks -> Seq(Execs)]
    /\ executing \subseteq Tasks
    /\ handle \in [Tasks -> Execs \cup {NoExec}]
    /\ slot \in Execs \cup {NoExec}
    /\ queue \in Seq(Execs)
    /\ exec \in [Execs -> Exec]
    /\ foreground \in BOOLEAN /\ stopping \in BOOLEAN
    /\ owed \subseteq EventTasks /\ stopped \subseteq Tasks
    /\ used \in [Inputs -> Nat]

\* Executions that dispatch has admitted: all but the forced ones, and a
\* chained one only once it has looked at _executing.
Dispatched(e) ==
    /\ exec[e].pc \in Live /\ ~Forced(e)
    /\ exec[e].pc = "spawned" => exec[e].origin # "chain"

\* A task nobody stopped has at most one dispatched execution, and _executing
\* holds the task as long as that execution lives: the loop, a manual trigger,
\* an event and a chain cannot dispatch it twice.
DispatchedOnce ==
    \A e, f \in Execs :
        Dispatched(e) /\ exec[e].task \notin stopped =>
            /\ exec[e].task \in executing
            /\ Dispatched(f) /\ exec[f].task = exec[e].task => e = f

\* The semaphore is never leaked and never lost, whichever way an execution
\* ends: its holder is an execution that got past it, and exactly the waiting
\* executions are in its queue, each once.
SlotAccounted ==
    /\ slot # NoExec => exec[slot].pc \in {"quiet", "running"} /\ NeedsSlot(slot)
    /\ \A e \in Execs : /\ NeedsSlot(e) /\ exec[e].pc \in {"quiet", "running"} => slot = e
                        /\ Cardinality({i \in DOMAIN queue : queue[i] = e}) =
                               IF exec[e].pc = "waiting" THEN 1 ELSE 0

\* No phantom in the activity view: a run row says queued or running only while
\* its execution is alive.
NoPhantomRuns ==
    \A e \in Execs : row[e] \in {"queued", "running"} => exec[e].pc \in Live \ {"spawned"}

\* An execution of _execute_task that ends, at whichever await it is cancelled,
\* leaves nothing behind: no semaphore slot, no place in its queue, no open row.
NothingLeaked == SlotAccounted /\ NoPhantomRuns

\* An event trigger that the scheduler accepted is not lost, by cancellation
\* while it waits or by a restart, before a run of the task has begun: the
\* row keeps a next_run from which the loop dispatches it again.
AcceptedTriggerKept == \A t \in owed : nextRun[t] # "none"

\* Such a trigger is served: a run of the task begins, unless the user paused
\* the task; a restart, the user's activity and cancellations only delay it.
TriggerServed == \A t \in EventTasks : t \in owed ~> (t \notin owed \/ status[t] # "active")

\* Nobody waits for the slot for ever.
QueueDrains == \A e \in Execs : exec[e].pc = "waiting" ~> exec[e].pc # "waiting"

\* task_scheduler.py:340-343: without the guards of _executing "long-running
\* tasks could be double-dispatched"; a task is not to run twice at once unless
\* forced.  False after stop_task, which takes the task out of _executing while
\* the stopped coroutine has yet to end; its end then removes the membership
\* that a second execution has obtained, and a third one is dispatched.
NoDoubleDispatch ==
    LET Runs(e) == exec[e].pc = "running" /\ exec[e].cancelled = "no" /\ ~Forced(e)
    IN  \A e, f \in Execs : Runs(e) /\ Runs(f) /\ exec[e].task = exec[f].task => e = f

=============================================================================
