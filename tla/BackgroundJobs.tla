--------------------------- MODULE BackgroundJobs ---------------------------
(***************************************************************************)
(* Detached bash jobs (src/src/bg_jobs.py) and the monitor that re-invokes *)
(* the agent when one ends (src/src/bg_monitor.py), for the jobs of one    *)
(* chat session.                                                           *)
(*                                                                         *)
(* Two kinds of actor.  The server is one event loop: what it does between *)
(* two awaits is one action, except refresh(), whose probes of the disk    *)
(* and of the process table are separate steps because the wrapper script  *)
(* of a job runs concurrently with them.  The jobs' processes survive the  *)
(* server.                                                                 *)
(***************************************************************************)
EXTENDS Naturals, FiniteSets

CONSTANTS
    Jobs,          \* ids launch() will hand out
    NoJob,
    MaxTurns,      \* live turns the user starts
    MaxTools,      \* calls of the tool manage_bg_jobs
    MaxMishaps     \* follow-ups that end in an exception, and restarts

ASSUME JobsAssumption == IsFiniteSet(Jobs) /\ NoJob \notin Jobs
ASSUME BoundsAssumption ==
    MaxTurns \in Nat /\ MaxTools \in Nat /\ MaxMishaps \in Nat

VARIABLES
    proc,       \* wrapper process: none, command, closing (has $?), gone
    outcome,    \* exit status of the command: none, zero, nonzero
    exitFile,   \* <job>.exit: absent, empty, zero, nonzero
    overdue,    \* running jobs older than max_runtime_s
    aged,       \* records that ended longer than _RETENTION_S ago
    store,      \* bg_jobs.json
    scan,       \* the refresh() in progress
    monitor,    \* the coroutine _loop()
    turn,       \* agent_runs.is_active(session)
    session,    \* the session exists
    told,       \* history: follow-up messages added to the session per job
    torn,       \* history: how often a crash cut the follow-up of a job off from its mark
    used        \* how much of each bound is spent

processes == <<proc, outcome, exitFile>>
clock == <<overdue, aged>>
chat == <<turn, session>>
history == <<told, torn>>
vars == <<processes, clock, store, scan, monitor, chat, history, used>>

Ended == {"done", "failed"}
Record == [status : {"absent", "running"} \cup Ended,
           flag : {"none", "timed_out", "died", "killed"},
           followed : BOOLEAN]
Absent == [status |-> "absent", flag |-> "none", followed |-> FALSE]
Running == [Absent EXCEPT !.status = "running"]

\* How far refresh() has come with a job; the middle row is transient.
Unread == {"todo", "no_file", "no_pid"}
Verdict == {"running", "timed_out", "died"} \cup Ended

NoScan == [caller |-> "none", target |-> NoJob, seen |-> [j \in Jobs |-> "running"]]
Scan == [caller : {"none", "monitor", "tool"},
         target : Jobs \cup {NoJob},        \* the job to kill after refresh()
         seen : [Jobs -> Unread \cup Verdict]]

Asleep == [pc |-> "sleep", todo |-> {}, job |-> NoJob]
Monitor == [pc : {"sleep", "drain", "agent"}, todo : SUBSET Jobs, job : Jobs \cup {NoJob}]

\* The event loop is free to run another coroutine.
LoopFree == scan.caller = "none"
AgentAtWork == turn \/ monitor.pc = "agent"

Limit == [turn |-> MaxTurns, tool |-> MaxTools, mishap |-> MaxMishaps]
Spend(what) == used[what] < Limit[what] /\ used' = [used EXCEPT ![what] = @ + 1]

Init ==
    /\ proc = [j \in Jobs |-> "none"]
    /\ outcome = [j \in Jobs |-> "none"]
    /\ exitFile = [j \in Jobs |-> "absent"]
    /\ overdue = {}
    /\ aged = {}
    /\ store = [j \in Jobs |-> Absent]
    /\ scan = NoScan
    /\ monitor = Asleep
    /\ turn = FALSE
    /\ session = TRUE
    /\ told = [j \in Jobs |-> 0]
    /\ torn = [j \in Jobs |-> 0]
    /\ used = [what \in DOMAIN Limit |-> 0]

-----------------------------------------------------------------------------
(* The wrapper script and the clock                                        *)

\* The command ends and the shell opens the exit file, which creates it empty.
CommandEnds(j) ==
    /\ proc[j] = "command"
    /\ \E status \in {"zero", "nonzero"} : outcome' = [outcome EXCEPT ![j] = status]
    /\ proc' = [proc EXCEPT ![j] = "closing"]
    /\ exitFile' = [exitFile EXCEPT ![j] = "empty"]
    /\ UNCHANGED <<clock, store, scan, monitor, chat, history, used>>

\* echo writes $? and the wrapper exits.
WriteExitCode(j) ==
    /\ proc[j] = "closing"
    /\ proc' = [proc EXCEPT ![j] = "gone"]
    /\ exitFile' = [exitFile EXCEPT ![j] = outcome[j]]
    /\ UNCHANGED <<outcome, clock, store, scan, monitor, chat, history, used>>

\* Out of memory, a signal from outside, a power cut.
ProcessDies(j) ==
    /\ proc[j] \in {"command", "closing"}
    /\ proc' = [proc EXCEPT ![j] = "gone"]
    /\ UNCHANGED <<outcome, exitFile, clock, store, scan, monitor, chat, history, used>>

\* Only read where there is no exit file yet.
Overrun(j) ==
    /\ store[j].status = "running" /\ exitFile[j] = "absent"
    /\ j \notin overdue
    /\ overdue' = overdue \cup {j}
    /\ UNCHANGED <<processes, aged, store, scan, monitor, chat, history, used>>

\* Only read of records that are followed up.  Retention is an hour: the wrapper
\* of an ended job has long exited.
Age(j) ==
    /\ store[j].status \in Ended /\ store[j].followed
    /\ proc[j] = "gone" /\ j \notin aged
    /\ aged' = aged \cup {j}
    /\ UNCHANGED <<processes, overdue, store, scan, monitor, chat, history, used>>

\* SIGTERM to the process group: the wrapper dies wherever it is.
Killed(procs, j) == [procs EXCEPT ![j] = IF @ = "none" THEN @ ELSE "gone"]

-----------------------------------------------------------------------------
(* bg_jobs.launch                                                          *)

Launch(j) ==
    /\ LoopFree /\ AgentAtWork
    /\ proc[j] = "none"
    /\ proc' = [proc EXCEPT ![j] = "command"]
    /\ store' = [store EXCEPT ![j] = Running]
    /\ UNCHANGED <<outcome, exitFile, clock, scan, monitor, chat, history, used>>

-----------------------------------------------------------------------------
(* bg_jobs.refresh: every running record is compared with the exit file,   *)
(* the clock and the process table; the store is saved once, at the end.   *)

StartScan(caller, target) ==
    scan' = [caller |-> caller, target |-> target,
             seen |-> [j \in Jobs |-> IF store[j].status = "running" THEN "todo" ELSE "running"]]

See(j, what) == scan' = [scan EXCEPT !.seen[j] = what]

\* The records are read one after the other.
AtJob(j, stage) ==
    /\ scan.caller # "none"
    /\ scan.seen[j] = stage
    /\ \A k \in Jobs \ {j} : scan.seen[k] \notin {"no_file", "no_pid"}

\* Mutant: a blank exit file counts as success.
Mutant_CodeVerdict_BlankIsZero(content) ==
    IF content \in {"zero", "empty"} THEN "done" ELSE "failed"

\* A blank exit file counts as code 1.
CodeVerdict(content) == IF content = "zero" THEN "done" ELSE "failed"

ReadExitFile(j) ==
    /\ AtJob(j, "todo")
    /\ exitFile[j] # "absent"
    /\ See(j, CodeVerdict(exitFile[j]))
    /\ UNCHANGED <<processes, clock, store, monitor, chat, history, used>>

MissExitFile(j) ==
    /\ AtJob(j, "todo")
    /\ exitFile[j] = "absent"
    /\ See(j, "no_file")
    /\ UNCHANGED <<processes, clock, store, monitor, chat, history, used>>

TimeOut(j) ==
    /\ AtJob(j, "no_file")
    /\ j \in overdue
    /\ proc' = Killed(proc, j)
    /\ See(j, "timed_out")
    /\ UNCHANGED <<outcome, exitFile, clock, store, monitor, chat, history, used>>

\* An unreaped child, or a reused pid, makes a dead process look alive.
ProbePid(j) ==
    /\ AtJob(j, "no_file")
    /\ j \notin overdue
    /\ \/ See(j, "running")
       \/ proc[j] = "gone" /\ See(j, "no_pid")
    /\ UNCHANGED <<processes, clock, store, monitor, chat, history, used>>

\* Mutant: no second look at the exit file.
Mutant_LookAgain_Trusting(j) ==
    /\ AtJob(j, "no_pid")
    /\ See(j, "died")
    /\ UNCHANGED <<processes, clock, store, monitor, chat, history, used>>

\* The second look: the process may have written its code after the first one.
LookAgain(j) ==
    /\ AtJob(j, "no_pid")
    /\ See(j, IF exitFile[j] = "absent" THEN "died" ELSE "running")
    /\ UNCHANGED <<processes, clock, store, monitor, chat, history, used>>

Probe(j) == ReadExitFile(j) \/ MissExitFile(j) \/ TimeOut(j) \/ ProbePid(j) \/ LookAgain(j)

\* The record refresh() saves for a job it has looked at.
Reconciled(r, verdict) ==
    CASE verdict = "running"              -> r
      [] verdict \in Ended                -> [r EXCEPT !.status = verdict]
      [] verdict \in {"timed_out", "died"} -> [r EXCEPT !.status = "failed", !.flag = verdict]

\* _prune drops a record and its files.
Stale(j, r) == r.followed /\ r.status \in Ended /\ j \in aged

Refreshed == [j \in Jobs |->
    LET r == Reconciled(store[j], scan.seen[j]) IN IF Stale(j, r) THEN Absent ELSE r]

\* Mutant: kill() leaves followed_up alone.
Mutant_KilledRecord_Pending == [status |-> "failed", flag |-> "killed", followed |-> FALSE]

KilledRecord == [status |-> "failed", flag |-> "killed", followed |-> TRUE]

\* Mutant: only successful jobs are followed up.
Mutant_Pending_DoneOnly(records) == {j \in Jobs : records[j].status = "done" /\ ~records[j].followed}

Pending(records) == {j \in Jobs : records[j].status \in Ended /\ ~records[j].followed}

Pruned == {j \in Jobs : store[j].status # "absent" /\ Refreshed[j].status = "absent"}

\* refresh() returns to its caller, which goes on without an await:
\* pending_followups() takes its list, manage_bg_jobs kills a job that still runs.
EndScan ==
    /\ scan.caller # "none"
    /\ \A j \in Jobs : scan.seen[j] \notin Unread
    /\ LET victim == scan.target
           kill == victim # NoJob /\ Refreshed[victim].status = "running"
       IN  /\ store' = IF kill THEN [Refreshed EXCEPT ![victim] = KilledRecord] ELSE Refreshed
           /\ proc' = IF kill THEN Killed(proc, victim) ELSE proc
    /\ exitFile' = [j \in Jobs |-> IF j \in Pruned THEN "absent" ELSE exitFile[j]]
    /\ monitor' = IF scan.caller = "monitor" /\ Pending(Refreshed) # {}
                  THEN [pc |-> "drain", todo |-> Pending(Refreshed), job |-> NoJob]
                  ELSE monitor
    /\ overdue' = {j \in overdue : Refreshed[j].status = "running"}
    /\ aged' = aged \ Pruned
    /\ scan' = NoScan
    /\ UNCHANGED <<outcome, chat, history, used>>

-----------------------------------------------------------------------------
(* The tool manage_bg_jobs: list or output, and kill                       *)

ListJobs ==
    /\ LoopFree /\ AgentAtWork
    /\ Spend("tool")
    /\ StartScan("tool", NoJob)
    /\ UNCHANGED <<processes, clock, store, monitor, chat, history>>

KillJob(j) ==
    /\ LoopFree /\ AgentAtWork
    /\ store[j].status # "absent"
    /\ Spend("tool")
    /\ StartScan("tool", j)
    /\ UNCHANGED <<processes, clock, store, monitor, chat, history>>

-----------------------------------------------------------------------------
(* bg_monitor._loop and _run_followup                                      *)

Tick ==
    /\ LoopFree
    /\ monitor.pc = "sleep"
    /\ StartScan("monitor", NoJob)
    /\ UNCHANGED <<processes, clock, store, monitor, chat, history, used>>

\* Mutant: the tick ends without leaving the follow-up.
Mutant_NextInTick_StaysInAgent(todo) ==
    [pc |-> IF todo = {} THEN "agent" ELSE "drain", todo |-> todo, job |-> NoJob]

\* The for loop over the snapshot goes on, or the tick is over.
NextInTick(todo) ==
    IF todo = {} THEN Asleep ELSE [pc |-> "drain", todo |-> todo, job |-> NoJob]

\* Mutant: mark_followed_up() does not save.
Mutant_Marked_Unsaved(records, j) == records

Marked(records, j) == [records EXCEPT ![j].followed = @ \/ records[j].status # "absent"]

\* Mutant: a deferred follow-up counts as handled.
Mutant_PassOver_Handled ==
    /\ LoopFree
    /\ monitor.pc = "drain"
    /\ ~session \/ turn
    /\ monitor' = NextInTick({})
    /\ store' = [j \in Jobs |-> IF j \in monitor.todo THEN Marked(store, j)[j] ELSE store[j]]
    /\ UNCHANGED <<processes, clock, scan, chat, history, used>>

\* get_session() raises for a deleted session and a live turn defers the job:
\* either way this tick passes over every job of the session.
PassOver ==
    /\ LoopFree
    /\ monitor.pc = "drain"
    /\ ~session \/ turn
    /\ monitor' = NextInTick({})
    /\ UNCHANGED <<processes, clock, store, scan, chat, history, used>>

StartFollowup(j) ==
    /\ LoopFree
    /\ monitor.pc = "drain" /\ j \in monitor.todo
    /\ session /\ ~turn
    /\ monitor' = [pc |-> "agent", todo |-> monitor.todo \ {j}, job |-> j]
    /\ UNCHANGED <<processes, clock, store, scan, chat, history, used>>

\* add_message(), then mark_followed_up(); no await lies between them.
FinishFollowup ==
    /\ LoopFree
    /\ monitor.pc = "agent" /\ session
    /\ told' = [told EXCEPT ![monitor.job] = @ + 1]
    /\ store' = Marked(store, monitor.job)
    /\ monitor' = NextInTick(monitor.todo)
    /\ UNCHANGED <<processes, clock, scan, chat, torn, used>>

\* The agent loop raises, or add_message() does because the session is gone.
FailFollowup ==
    /\ LoopFree
    /\ monitor.pc = "agent"
    /\ IF session THEN Spend("mishap") ELSE UNCHANGED used
    /\ monitor' = NextInTick(monitor.todo)
    /\ UNCHANGED <<processes, clock, store, scan, chat, history>>

-----------------------------------------------------------------------------
(* The rest of the program, as the monitor sees it                         *)

StartTurn ==
    /\ LoopFree
    /\ session /\ ~turn
    /\ Spend("turn")
    /\ turn' = TRUE
    /\ UNCHANGED <<processes, clock, store, scan, monitor, session, history>>

EndTurn ==
    /\ LoopFree
    /\ turn
    /\ turn' = FALSE
    /\ UNCHANGED <<processes, clock, store, scan, monitor, session, history, used>>

DeleteSession ==
    /\ LoopFree
    /\ session
    /\ session' = FALSE
    /\ UNCHANGED <<processes, clock, store, scan, monitor, turn, history, used>>

\* The server stops at any point and starts again: only the processes, the
\* files and the sessions are left.
Restart ==
    /\ Spend("mishap")
    /\ scan' = NoScan
    /\ monitor' = Asleep
    /\ turn' = FALSE

Crash ==
    /\ Restart
    /\ UNCHANGED <<processes, clock, store, session, history>>

\* Between Popen and _save in launch(): a process nobody has a record of.
CrashInLaunch(j) ==
    /\ LoopFree /\ AgentAtWork
    /\ proc[j] = "none"
    /\ proc' = [proc EXCEPT ![j] = "command"]
    /\ Restart
    /\ UNCHANGED <<outcome, exitFile, clock, store, session, history>>

\* Between add_message() and mark_followed_up().
CrashBeforeMark ==
    /\ LoopFree
    /\ monitor.pc = "agent" /\ session
    /\ told' = [told EXCEPT ![monitor.job] = @ + 1]
    /\ torn' = [torn EXCEPT ![monitor.job] = @ + 1]
    /\ Restart
    /\ UNCHANGED <<processes, clock, store, session>>

-----------------------------------------------------------------------------
ProcessNext == \E j \in Jobs : CommandEnds(j) \/ WriteExitCode(j) \/ ProcessDies(j)

ScanNext == EndScan \/ \E j \in Jobs : Probe(j)

MonitorNext ==
    \/ Tick \/ PassOver \/ FinishFollowup \/ FailFollowup
    \/ \E j \in Jobs : StartFollowup(j)

Next ==
    \/ ProcessNext \/ ScanNext \/ MonitorNext
    \/ \E j \in Jobs : Overrun(j) \/ Age(j)
    \/ \E j \in Jobs : Launch(j) \/ KillJob(j) \/ CrashInLaunch(j)
    \/ ListJobs \/ StartTurn \/ EndTurn \/ DeleteSession \/ Crash \/ CrashBeforeMark

Spec == Init /\ [][Next]_vars

\* Time passes, the loop runs what is ready, the monitor wakes every 5 s and a
\* turn of the agent ends (its rounds are bounded); strongly so, because a
\* coroutine that is ready runs although refresh() holds the loop now and then.
\* Nothing is assumed of the commands.
FairSpec ==
    /\ Spec
    /\ WF_vars(\E j \in Jobs : Overrun(j))
    /\ WF_vars(ScanNext) /\ WF_vars(MonitorNext)
    /\ SF_vars(EndTurn)

-----------------------------------------------------------------------------
(* Properties                                                              *)

\* Types, and the monitor holds a job exactly while the agent works for it.
TypeOK ==
    /\ proc \in [Jobs -> {"none", "command", "closing", "gone"}]
    /\ outcome \in [Jobs -> {"none", "zero", "nonzero"}]
    /\ exitFile \in [Jobs -> {"absent", "empty", "zero", "nonzero"}]
    /\ overdue \subseteq Jobs /\ aged \subseteq Jobs
    /\ store \in [Jobs -> Record]
    /\ scan \in Scan
    /\ monitor \in Monitor
    /\ monitor.pc = "agent" <=> monitor.job # NoJob
    /\ turn \in BOOLEAN /\ session \in BOOLEAN
    /\ told \in [Jobs -> Nat] /\ torn \in [Jobs -> Nat]
    /\ used \in [DOMAIN Limit -> Nat]

\* A record says "done" only if the command really ended with status zero,
\* however refresh() interleaves with the shell that writes the exit file.
DoneMeansSucceeded ==
    \A j \in Jobs : store[j].status = "done" => outcome[j] = "zero"

\* A job is reported as dead only if no exit code of it exists or will exist:
\* the probes of the file, the pid and the file again cannot lose a result.
DiedMeansNoCode ==
    \A j \in Jobs : store[j].flag = "died" => exitFile[j] = "absent" /\ proc[j] = "gone"

\* What refresh() records of a job's end is what became of its process: success
\* only for status zero, death only where no exit code is lost.
RecordsTrue == DoneMeansSucceeded /\ DiedMeansNoCode

\* followed_up is set only for a job whose result was added to the session or
\* that the agent itself killed: the monitor never does nothing silently.
HandledMeansTold ==
    \A j \in Jobs : store[j].followed => told[j] > 0 \/ store[j].flag = "killed"

\* The result of a job is added twice only if the server stopped between
\* add_message() and mark_followed_up(), once more for each such stop.
DuplicatesNeedCrash ==
    \A j \in Jobs : told[j] <= 1 + torn[j]

\* A job the agent killed gets no follow-up, before or after.
KilledStaysSilent ==
    \A j \in Jobs : store[j].flag = "killed" => told[j] = 0

\* The session hears of a job as its record says: the monitor handles none
\* without a word, repeats one only after a crash, and passes over a killed one.
ToldAsRecorded == HandledMeansTold /\ DuplicatesNeedCrash /\ KilledStaysSilent

\* A job that was recorded is heard of, unless it was killed or its session is
\* deleted: over hanging commands, dead processes, restarts and failed
\* follow-ups, once the user leaves the session alone for a while.
CompletionHeard ==
    \A j \in Jobs : store[j].status # "absent" ~>
        told[j] > 0 \/ store[j].flag = "killed" \/ ~session

=============================================================================
