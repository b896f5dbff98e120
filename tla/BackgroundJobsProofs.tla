------------------------ MODULE BackgroundJobsProofs ------------------------
(***************************************************************************)
(* Theorems about BackgroundJobs, for every set of jobs and every bound.   *)
(***************************************************************************)
EXTENDS BackgroundJobs, TLAPS

USE JobsAssumption, BoundsAssumption

-----------------------------------------------------------------------------
(* The inductive invariant: what the parts of the state know of each other *)

\* The wrapper and what it has written.
WrapperInv == \A j \in Jobs :
    /\ proc[j] = "none" => store[j] = Absent /\ told[j] = 0
    /\ proc[j] \in {"none", "command"} => outcome[j] = "none"
    /\ proc[j] = "closing" => outcome[j] # "none"
    /\ exitFile[j] = "zero" => outcome[j] = "zero"

\* What refresh() has found out stays true until it is saved.
ScanInv == \A j \in Jobs :
    /\ scan.seen[j] # "running" => store[j].status = "running"
    /\ scan.seen[j] = "done" => outcome[j] = "zero"
    /\ scan.seen[j] \in {"no_pid", "died"} => proc[j] = "gone"
    /\ scan.seen[j] = "died" => exitFile[j] = "absent"

\* A record, and how often the session was told.
RecordInv == \A j \in Jobs :
    /\ store[j].status \notin Ended => store[j].flag = "none" /\ ~store[j].followed
    /\ store[j].status = "running" => told[j] = 0
    /\ store[j].flag = "killed" => store[j].followed
    /\ store[j].status \in Ended /\ ~store[j].followed => told[j] <= torn[j]

\* The monitor's snapshot never goes stale in the way that matters: what it
\* still has to do is still to be done.
SnapshotInv ==
    /\ monitor.todo \subseteq Pending(store)
    /\ monitor.job # NoJob => monitor.job \in Pending(store) \ monitor.todo

Promises ==
    /\ DoneMeansSucceeded /\ DiedMeansNoCode
    /\ HandledMeansTold /\ DuplicatesNeedCrash /\ KilledStaysSilent

JobsInv == TypeOK /\ WrapperInv /\ ScanInv /\ RecordInv /\ SnapshotInv /\ Promises

-----------------------------------------------------------------------------
(* Types                                                                   *)

LEMMA SpendType ==
  ASSUME TypeOK, NEW what \in DOMAIN Limit, Spend(what)
  PROVE  used' \in [DOMAIN Limit -> Nat]
BY DEF TypeOK, Spend, Limit

LEMMA SeeType ==
  ASSUME TypeOK, NEW j \in Jobs, NEW v \in Unread \cup Verdict, See(j, v)
  PROVE  scan' \in Scan
BY DEF TypeOK, See, Scan

LEMMA StartScanType ==
  ASSUME TypeOK, NEW caller \in {"monitor", "tool"}, NEW target \in Jobs \cup {NoJob},
         StartScan(caller, target)
  PROVE  scan' \in Scan
BY DEF StartScan, Scan, Unread, Verdict

LEMMA ReconciledType ==
  ASSUME NEW r \in Record, NEW v \in Verdict
  PROVE  Reconciled(r, v) \in Record
<1>1. CASE v = "running"
  BY <1>1 DEF Reconciled, Ended
<1>2. CASE v \in Ended
  BY <1>2 DEF Reconciled, Record, Ended
<1>3. CASE v \in {"timed_out", "died"}
  BY <1>3 DEF Reconciled, Record, Ended
<1> QED  BY <1>1, <1>2, <1>3 DEF Verdict

\* What EndScan saves for a job.
LEMMA RefreshedType ==
  ASSUME TypeOK, \A j \in Jobs : scan.seen[j] \notin Unread
  PROVE  Refreshed \in [Jobs -> Record]
<1>1. ASSUME NEW j \in Jobs
      PROVE  Reconciled(store[j], scan.seen[j]) \in Record
  BY <1>1, ReconciledType DEF TypeOK, Scan
<1>2. Absent \in Record
  BY DEF Absent, Record
<1> QED  BY <1>1, <1>2 DEF Refreshed

LEMMA NextInTickType ==
  ASSUME NEW todo \in SUBSET Jobs
  PROVE  /\ NextInTick(todo) \in Monitor
         /\ NextInTick(todo).pc = "agent" <=> NextInTick(todo).job # NoJob
BY DEF NextInTick, Asleep, Monitor

LEMMA MarkedType ==
  ASSUME NEW records \in [Jobs -> Record], NEW j \in Jobs
  PROVE  Marked(records, j) \in [Jobs -> Record]
<1>1. ASSUME NEW b \in BOOLEAN
      PROVE  [records[j] EXCEPT !.followed = b] \in Record
  BY <1>1 DEF Record
<1>2. (records[j].followed \/ records[j].status # "absent") \in BOOLEAN
  OBVIOUS
<1>3. [records[j] EXCEPT !.followed = records[j].followed \/ records[j].status # "absent"] \in Record
  BY <1>1, <1>2
<1> QED  BY <1>3 DEF Marked

LEMMA TypeInit == Init => TypeOK
<1> SUFFICES ASSUME Init PROVE TypeOK
  OBVIOUS
<1>1. store \in [Jobs -> Record]
  BY DEF Init, Record, Absent
<1>2. scan \in Scan
  BY DEF Init, Scan, NoScan, Verdict
<1>3. monitor \in Monitor /\ (monitor.pc = "agent" <=> monitor.job # NoJob)
  BY DEF Init, Monitor, Asleep
<1> QED  BY <1>1, <1>2, <1>3 DEF Init, TypeOK

\* The steps that leave processes, files, records and history alone.
facts == <<processes, store, history>>

Quiet ==
    /\ UNCHANGED facts
    /\ \/ \E j \in Jobs : Overrun(j) \/ Age(j)
       \/ \E j \in Jobs : ReadExitFile(j) \/ MissExitFile(j) \/ ProbePid(j) \/ LookAgain(j)
       \/ ListJobs \/ Tick \/ \E j \in Jobs : KillJob(j)
       \/ PassOver \/ FailFollowup \/ \E j \in Jobs : StartFollowup(j)
       \/ StartTurn \/ EndTurn \/ DeleteSession \/ Crash

Loud ==
    \/ \E j \in Jobs : CommandEnds(j) \/ WriteExitCode(j) \/ ProcessDies(j)
    \/ \E j \in Jobs : Launch(j) \/ CrashInLaunch(j) \/ TimeOut(j)
    \/ EndScan \/ FinishFollowup \/ CrashBeforeMark

LEMMA StepKinds == [Next]_vars => Quiet \/ Loud \/ UNCHANGED vars
<1> SUFFICES ASSUME Next PROVE Quiet \/ Loud
  BY DEF vars
<1>1. CASE ProcessNext
  BY <1>1 DEF ProcessNext, Loud
<1>2. CASE ScanNext
  BY <1>2 DEF ScanNext, Probe, Loud, Quiet, facts, ReadExitFile, MissExitFile, ProbePid, LookAgain
<1>3. CASE MonitorNext
  BY <1>3 DEF MonitorNext, Loud, Quiet, facts, Tick, PassOver, FailFollowup, StartFollowup
<1>4. CASE \E j \in Jobs : Overrun(j) \/ Age(j)
  BY <1>4 DEF Quiet, facts, Overrun, Age
<1>5. CASE \E j \in Jobs : Launch(j) \/ KillJob(j) \/ CrashInLaunch(j)
  BY <1>5 DEF Loud, Quiet, facts, KillJob
<1>6. CASE ListJobs \/ StartTurn \/ EndTurn \/ DeleteSession \/ Crash \/ CrashBeforeMark
  BY <1>6 DEF Loud, Quiet, facts, ListJobs, StartTurn, EndTurn, DeleteSession, Crash
<1> QED  BY <1>1, <1>2, <1>3, <1>4, <1>5, <1>6 DEF Next

LEMMA RestartType ==
  ASSUME TypeOK, Restart
  PROVE  /\ scan' \in Scan /\ monitor' \in Monitor /\ turn' \in BOOLEAN
         /\ monitor'.pc = "agent" <=> monitor'.job # NoJob
         /\ used' \in [DOMAIN Limit -> Nat]
<1>1. used' \in [DOMAIN Limit -> Nat]
  BY SpendType DEF Restart, Limit
<1> QED  BY <1>1 DEF Restart, Scan, NoScan, Verdict, Monitor, Asleep

LEMMA QuietType == TypeOK /\ Quiet => TypeOK'
<1> SUFFICES ASSUME TypeOK, Quiet PROVE TypeOK'
  OBVIOUS
<1> USE DEF facts, processes, clock, chat, history
<1>1. ASSUME NEW j \in Jobs, Overrun(j) \/ Age(j) PROVE TypeOK'
  BY <1>1 DEF Quiet, TypeOK, Overrun, Age
<1>2. ASSUME NEW j \in Jobs,
             ReadExitFile(j) \/ MissExitFile(j) \/ ProbePid(j) \/ LookAgain(j)
      PROVE  TypeOK'
  <2>1. PICK v \in Unread \cup Verdict : See(j, v)
    BY <1>2 DEF ReadExitFile, MissExitFile, ProbePid, LookAgain, CodeVerdict, Unread, Verdict, Ended
  <2>2. scan' \in Scan
    BY <2>1, SeeType
  <2> QED  BY <1>2, <2>2 DEF TypeOK, ReadExitFile, MissExitFile, ProbePid, LookAgain
<1>3. CASE Tick \/ ListJobs \/ \E j \in Jobs : KillJob(j)
  <2>1. PICK caller \in {"monitor", "tool"}, target \in Jobs \cup {NoJob} :
              StartScan(caller, target)
    BY <1>3 DEF Tick, ListJobs, KillJob
  <2>2. scan' \in Scan
    BY <2>1, StartScanType
  <2>3. used' \in [DOMAIN Limit -> Nat]
    BY <1>3, SpendType DEF Tick, ListJobs, KillJob, Limit, TypeOK
  <2> QED  BY <1>3, <2>2, <2>3 DEF TypeOK, Tick, ListJobs, KillJob
<1>4. CASE PassOver \/ FailFollowup
  <2>1. monitor' \in Monitor /\ (monitor'.pc = "agent" <=> monitor'.job # NoJob)
    BY <1>4, NextInTickType DEF PassOver, FailFollowup, TypeOK, Monitor
  <2>2. used' \in [DOMAIN Limit -> Nat]
    BY <1>4, SpendType DEF PassOver, FailFollowup, Limit, TypeOK
  <2> QED  BY <1>4, <2>1, <2>2 DEF TypeOK, PassOver, FailFollowup
<1>5. ASSUME NEW j \in Jobs, StartFollowup(j) PROVE TypeOK'
  <2>1. monitor' \in Monitor /\ (monitor'.pc = "agent" <=> monitor'.job # NoJob)
    BY <1>5 DEF StartFollowup, TypeOK, Monitor
  <2> QED  BY <1>5, <2>1 DEF TypeOK, StartFollowup
<1>6. CASE StartTurn \/ EndTurn \/ DeleteSession
  <2>1. used' \in [DOMAIN Limit -> Nat]
    BY <1>6, SpendType DEF StartTurn, EndTurn, DeleteSession, Limit, TypeOK
  <2> QED  BY <1>6, <2>1 DEF TypeOK, StartTurn, EndTurn, DeleteSession
<1>7. CASE Crash
  BY <1>7, RestartType DEF Crash, TypeOK
<1> QED  BY <1>1, <1>2, <1>3, <1>4, <1>5, <1>6, <1>7 DEF Quiet

LEMMA LoudType == TypeOK /\ WrapperInv /\ Loud => TypeOK'
<1> SUFFICES ASSUME TypeOK, WrapperInv, Loud PROVE TypeOK'
  OBVIOUS
<1> USE DEF processes, clock, chat, history
<1>1. ASSUME NEW j \in Jobs, CommandEnds(j) \/ WriteExitCode(j) \/ ProcessDies(j)
      PROVE  TypeOK'
  <2>1. CASE CommandEnds(j)
    BY <2>1 DEF TypeOK, CommandEnds
  <2>2. CASE WriteExitCode(j)
    BY <2>2 DEF TypeOK, WrapperInv, WriteExitCode
  <2>3. CASE ProcessDies(j)
    BY <2>3 DEF TypeOK, ProcessDies
  <2> QED  BY <1>1, <2>1, <2>2, <2>3
<1>2. ASSUME NEW j \in Jobs, Launch(j) PROVE TypeOK'
  <2>1. Running \in Record
    BY DEF Running, Absent, Record
  <2> QED  BY <1>2, <2>1 DEF TypeOK, Launch
<1>3. ASSUME NEW j \in Jobs, CrashInLaunch(j) PROVE TypeOK'
  BY <1>3, RestartType DEF TypeOK, CrashInLaunch
<1>4. ASSUME NEW j \in Jobs, TimeOut(j) PROVE TypeOK'
  <2>1. scan' \in Scan
    BY <1>4, SeeType DEF TimeOut, Verdict
  <2> QED  BY <1>4, <2>1 DEF TypeOK, TimeOut, Killed
<1>5. CASE EndScan
  <2>1. Refreshed \in [Jobs -> Record]
    BY <1>5, RefreshedType DEF EndScan
  <2>2. store' \in [Jobs -> Record]
    BY <1>5, <2>1 DEF EndScan, KilledRecord, Record, Ended
  <2>3. proc' \in [Jobs -> {"none", "command", "closing", "gone"}]
    BY <1>5 DEF EndScan, Killed, TypeOK
  <2>4. exitFile' \in [Jobs -> {"absent", "empty", "zero", "nonzero"}]
    BY <1>5 DEF EndScan, TypeOK
  <2>5. monitor' \in Monitor /\ (monitor'.pc = "agent" <=> monitor'.job # NoJob)
    BY <1>5 DEF EndScan, TypeOK, Monitor, Pending
  <2>6. scan' \in Scan /\ overdue' \subseteq Jobs /\ aged' \subseteq Jobs
    BY <1>5 DEF EndScan, Scan, NoScan, Verdict, TypeOK
  <2> QED  BY <1>5, <2>2, <2>3, <2>4, <2>5, <2>6 DEF TypeOK, EndScan
<1>6. CASE FinishFollowup
  <2>1. monitor.job \in Jobs
    BY <1>6 DEF FinishFollowup, TypeOK, Monitor
  <2>2. Marked(store, monitor.job) \in [Jobs -> Record]
    BY <2>1, MarkedType DEF TypeOK
  <2>3. monitor' \in Monitor /\ (monitor'.pc = "agent" <=> monitor'.job # NoJob)
    BY <1>6, NextInTickType DEF FinishFollowup, TypeOK, Monitor
  <2> QED  BY <1>6, <2>1, <2>2, <2>3 DEF TypeOK, FinishFollowup
<1>7. CASE CrashBeforeMark
  <2>1. monitor.job \in Jobs
    BY <1>7 DEF CrashBeforeMark, TypeOK, Monitor
  <2> QED  BY <1>7, <2>1, RestartType DEF TypeOK, CrashBeforeMark
<1> QED  BY <1>1, <1>2, <1>3, <1>4, <1>5, <1>6, <1>7 DEF Loud

LEMMA TypeStep == TypeOK /\ WrapperInv /\ [Next]_vars => TypeOK'
<1>1. TypeOK /\ UNCHANGED vars => TypeOK'
  BY DEF TypeOK, vars, processes, clock, chat, history
<1> QED  BY <1>1, StepKinds, QuietType, LoudType

-----------------------------------------------------------------------------
(* The initial states and the quiet steps                                  *)

LEMMA InvInit == Init => JobsInv
<1> SUFFICES ASSUME Init PROVE JobsInv
  OBVIOUS
<1>1. TypeOK
  BY TypeInit
<1>2. WrapperInv /\ ScanInv /\ RecordInv
  BY DEF Init, WrapperInv, ScanInv, RecordInv, NoScan, Absent
<1>3. SnapshotInv
  BY DEF Init, SnapshotInv, Asleep
<1>4. Promises
  BY DEF Init, Promises, DoneMeansSucceeded, DiedMeansNoCode, HandledMeansTold,
         DuplicatesNeedCrash, KilledStaysSilent, Absent
<1> QED  BY <1>1, <1>2, <1>3, <1>4 DEF JobsInv

\* What only relates processes, files, records and history.
LEMMA FactsKept ==
  ASSUME UNCHANGED facts
  PROVE  /\ WrapperInv => WrapperInv'
         /\ RecordInv => RecordInv'
         /\ Promises => Promises'
         /\ Pending(store)' = Pending(store)
<1> USE DEF facts, processes, history
<1>1. WrapperInv => WrapperInv'
  BY DEF WrapperInv
<1>2. RecordInv => RecordInv'
  BY DEF RecordInv
<1>3. Promises => Promises'
  BY DEF Promises, DoneMeansSucceeded, DiedMeansNoCode, HandledMeansTold,
         DuplicatesNeedCrash, KilledStaysSilent
<1>4. Pending(store)' = Pending(store)
  BY DEF Pending
<1> QED  BY <1>1, <1>2, <1>3, <1>4

\* A probe of refresh() adds only what is true and stays true.
LEMMA ScanKept ==
  ASSUME JobsInv, Quiet
  PROVE  ScanInv'
<1> USE DEF facts, processes, JobsInv
<1>1. CASE scan' = scan
  BY <1>1 DEF ScanInv, Quiet
<1>2. CASE scan' = NoScan
  BY <1>2 DEF ScanInv, NoScan
<1>3. ASSUME NEW caller, NEW target, StartScan(caller, target)
      PROVE  ScanInv'
  BY <1>3 DEF ScanInv, StartScan, Quiet
<1>4. ASSUME NEW j \in Jobs,
             ReadExitFile(j) \/ MissExitFile(j) \/ ProbePid(j) \/ LookAgain(j)
      PROVE  ScanInv'
  <2>1. store[j].status = "running" /\ scan \in Scan
    BY <1>4 DEF ReadExitFile, MissExitFile, ProbePid, LookAgain, AtJob, ScanInv, TypeOK
  <2>2. PICK v : /\ See(j, v)
                 /\ v = "done" => outcome[j] = "zero"
                 /\ v \in {"no_pid", "died"} => proc[j] = "gone"
                 /\ v = "died" => exitFile[j] = "absent"
    <3>1. CASE ReadExitFile(j)
      BY <3>1 DEF ReadExitFile, CodeVerdict, WrapperInv
    <3>2. CASE MissExitFile(j)
      BY <3>2 DEF MissExitFile
    <3>3. CASE ProbePid(j)
      BY <3>3 DEF ProbePid
    <3>4. CASE LookAgain(j)
      BY <3>4 DEF LookAgain, AtJob, ScanInv
    <3> QED  BY <1>4, <3>1, <3>2, <3>3, <3>4
  <2>3. scan'.seen = [scan.seen EXCEPT ![j] = v] /\ scan.seen \in [Jobs -> Unread \cup Verdict]
    BY <2>1, <2>2 DEF See, Scan
  <2>4. UNCHANGED facts
    BY DEF Quiet
  <2> QED  BY <2>1, <2>2, <2>3, <2>4 DEF ScanInv
<1> QED
  BY <1>1, <1>2, <1>3, <1>4
  DEF Quiet, Overrun, Age, ListJobs, Tick, KillJob, PassOver, FailFollowup, StartFollowup,
      StartTurn, EndTurn, DeleteSession, Crash, Restart

LEMMA QuietStep ==
  ASSUME JobsInv, Quiet
  PROVE  JobsInv'
<1> USE DEF JobsInv
<1>1. TypeOK'
  BY QuietType
<1>2. WrapperInv' /\ RecordInv' /\ Promises' /\ Pending(store)' = Pending(store)
  BY FactsKept DEF Quiet
<1>3. ScanInv'
  BY ScanKept
<1>4. SnapshotInv'
  <2>1. CASE UNCHANGED monitor \/ monitor' = Asleep
    BY <2>1, <1>2 DEF SnapshotInv, Asleep
  <2>2. CASE monitor' = NextInTick({}) \/ monitor' = NextInTick(monitor.todo)
    BY <2>2, <1>2 DEF SnapshotInv, NextInTick, Asleep
  <2>3. ASSUME NEW j \in Jobs, StartFollowup(j) PROVE SnapshotInv'
    BY <2>3, <1>2 DEF SnapshotInv, StartFollowup
  <2> QED
    BY <2>1, <2>2, <2>3
    DEF Quiet, Overrun, Age, ReadExitFile, MissExitFile, ProbePid, LookAgain, ListJobs, Tick,
        KillJob, PassOver, FailFollowup, StartTurn, EndTurn, DeleteSession, Crash, Restart
<1> QED  BY <1>1, <1>2, <1>3, <1>4

-----------------------------------------------------------------------------
(* The processes, and what launches or kills them                          *)

LEMMA ProcessStep ==
  ASSUME JobsInv, NEW j \in Jobs, CommandEnds(j) \/ WriteExitCode(j) \/ ProcessDies(j)
  PROVE  JobsInv'
<1> USE DEF JobsInv, history
<1>1. TypeOK'
  BY LoudType DEF Loud
<1>2. UNCHANGED <<store, scan, monitor, told, torn>>
  BY DEF CommandEnds, WriteExitCode, ProcessDies
<1>3. RecordInv' /\ SnapshotInv'
  BY <1>2 DEF RecordInv, SnapshotInv, Pending
<1>4. HandledMeansTold' /\ DuplicatesNeedCrash' /\ KilledStaysSilent'
  BY <1>2 DEF Promises, HandledMeansTold, DuplicatesNeedCrash, KilledStaysSilent
<1>5. WrapperInv' /\ ScanInv' /\ DoneMeansSucceeded' /\ DiedMeansNoCode'
  <2> USE <1>2 DEF WrapperInv, ScanInv, Promises, DoneMeansSucceeded, DiedMeansNoCode, TypeOK
  <2>1. CASE CommandEnds(j)
    <3>1. outcome[j] = "none" /\ proc[j] # "gone"
      BY <2>1 DEF CommandEnds
    <3> QED  BY <2>1, <3>1 DEF CommandEnds
  <2>2. CASE WriteExitCode(j)
    <3>1. proc[j] # "gone" /\ UNCHANGED outcome
      BY <2>2 DEF WriteExitCode
    <3> QED  BY <2>2, <3>1 DEF WriteExitCode
  <2>3. CASE ProcessDies(j)
    BY <2>3 DEF ProcessDies
  <2> QED  BY <2>1, <2>2, <2>3
<1> QED  BY <1>1, <1>3, <1>4, <1>5 DEF Promises

LEMMA LaunchStep ==
  ASSUME JobsInv, NEW j \in Jobs, Launch(j) \/ CrashInLaunch(j)
  PROVE  JobsInv'
<1> USE DEF JobsInv, history
<1>1. TypeOK'
  BY LoudType DEF Loud
<1>2. /\ store[j] = Absent /\ told[j] = 0 /\ outcome[j] = "none" /\ proc[j] = "none"
      /\ proc' = [proc EXCEPT ![j] = "command"]
      /\ UNCHANGED <<outcome, exitFile, told, torn>>
  BY DEF Launch, CrashInLaunch, WrapperInv
<1>3. store' = store \/ store' = [store EXCEPT ![j] = Running]
  BY DEF Launch, CrashInLaunch
<1>4. /\ scan' = scan \/ scan' = NoScan
      /\ monitor' = monitor \/ monitor' = Asleep
  BY DEF Launch, CrashInLaunch, Restart
<1>5. /\ \A k \in Jobs : k # j => store'[k] = store[k]
      /\ store'[j].status \in {"absent", "running"}
      /\ store'[j].flag = "none" /\ ~store'[j].followed
  BY <1>2, <1>3 DEF TypeOK, Absent, Running
<1>6. WrapperInv'
  BY <1>2, <1>5 DEF WrapperInv, TypeOK
<1>7. RecordInv'
  BY <1>2, <1>5 DEF RecordInv, Ended
<1>8. Promises'
  BY <1>2, <1>5 DEF Promises, DoneMeansSucceeded, DiedMeansNoCode, HandledMeansTold,
                    DuplicatesNeedCrash, KilledStaysSilent, TypeOK
<1>9. ScanInv'
  BY <1>2, <1>4, <1>5 DEF ScanInv, NoScan, TypeOK, Absent
<1>10. SnapshotInv'
  <2>1. Pending(store') = Pending(store)
    BY <1>2, <1>5 DEF Pending, Ended, Absent
  <2> QED  BY <1>4, <2>1 DEF SnapshotInv, Asleep, Pending
<1> QED  BY <1>1, <1>6, <1>7, <1>8, <1>9, <1>10

LEMMA TimeOutStep ==
  ASSUME JobsInv, NEW j \in Jobs, TimeOut(j)
  PROVE  JobsInv'
<1> USE DEF JobsInv, history
<1>1. TypeOK'
  BY LoudType DEF Loud
<1>2. /\ UNCHANGED <<outcome, exitFile, store, monitor, told, torn>>
      /\ scan.seen[j] = "no_file"
      /\ scan'.seen = [scan.seen EXCEPT ![j] = "timed_out"]
      /\ \A k \in Jobs : proc'[k] = proc[k] \/ (proc'[k] = "gone" /\ proc[k] # "none")
  BY DEF TimeOut, AtJob, See, Killed, TypeOK, Scan
<1>3. RecordInv' /\ SnapshotInv'
  BY <1>2 DEF RecordInv, SnapshotInv, Pending
<1>4. WrapperInv'
  BY <1>2 DEF WrapperInv
<1>5. ScanInv'
  BY <1>2 DEF ScanInv, TypeOK, Scan
<1>6. Promises'
  BY <1>2 DEF Promises, DoneMeansSucceeded, DiedMeansNoCode, HandledMeansTold,
              DuplicatesNeedCrash, KilledStaysSilent
<1> QED  BY <1>1, <1>3, <1>4, <1>5, <1>6

-----------------------------------------------------------------------------
(* The follow-up                                                           *)

LEMMA FollowupStep ==
  ASSUME JobsInv, FinishFollowup \/ CrashBeforeMark
  PROVE  JobsInv'
<1> DEFINE job == monitor.job
<1> USE DEF JobsInv, processes
<1>1. TypeOK'
  BY LoudType DEF Loud
<1>2. /\ job \in Jobs /\ job \in Pending(store) /\ job \notin monitor.todo
      /\ store[job].status \in Ended /\ ~store[job].followed
      /\ told[job] \in Nat /\ torn[job] \in Nat /\ told[job] <= torn[job]
      /\ store[job].flag # "killed"
  BY DEF FinishFollowup, CrashBeforeMark, SnapshotInv, TypeOK, Monitor, Pending, RecordInv
<1>3. /\ UNCHANGED <<proc, outcome, exitFile>>
      /\ told' = [told EXCEPT ![job] = @ + 1]
  BY DEF FinishFollowup, CrashBeforeMark
<1>4. /\ \A k \in Jobs : k # job => store'[k] = store[k] /\ told'[k] = told[k] /\ torn'[k] = torn[k]
      /\ store'[job].status = store[job].status /\ store'[job].flag = store[job].flag
      /\ told'[job] = told[job] + 1
  BY <1>2, <1>3 DEF FinishFollowup, CrashBeforeMark, Marked, TypeOK, Record
<1>5. \/ store'[job].followed /\ torn'[job] = torn[job] /\ UNCHANGED scan /\ monitor' = NextInTick(monitor.todo)
      \/ ~store'[job].followed /\ torn'[job] = torn[job] + 1 /\ scan' = NoScan /\ monitor' = Asleep
  <2>1. CASE FinishFollowup
    BY <2>1, <1>2 DEF FinishFollowup, Marked, TypeOK, Ended, Record
  <2>2. CASE CrashBeforeMark
    BY <2>2, <1>2 DEF CrashBeforeMark, Restart, TypeOK
  <2> QED  BY <2>1, <2>2
<1> HIDE DEF job
<1>6. \A k \in Jobs : store'[k].status = store[k].status /\ store'[k].flag = store[k].flag
  BY <1>4
<1>7. WrapperInv'
  BY <1>2, <1>3, <1>4 DEF WrapperInv, Absent, Ended
<1>8. ScanInv'
  BY <1>3, <1>5, <1>6 DEF ScanInv, NoScan
<1>9. RecordInv'
  BY <1>2, <1>4, <1>5 DEF RecordInv, Ended
<1>10. SnapshotInv'
  <2>1. CASE monitor' = Asleep
    BY <2>1 DEF SnapshotInv, Asleep
  <2>2. CASE monitor' = NextInTick(monitor.todo)
    <3>1. monitor.todo \subseteq Pending(store')
      BY <1>2, <1>4 DEF SnapshotInv, Pending, job
    <3> QED  BY <2>2, <3>1 DEF SnapshotInv, NextInTick, Asleep, Pending
  <2> QED  BY <1>5, <2>1, <2>2
<1>11. Promises'
  <2>1. DoneMeansSucceeded' /\ DiedMeansNoCode'
    BY <1>3, <1>6 DEF Promises, DoneMeansSucceeded, DiedMeansNoCode
  <2>2. HandledMeansTold' /\ KilledStaysSilent'
    BY <1>2, <1>4 DEF Promises, HandledMeansTold, KilledStaysSilent
  <2>3. DuplicatesNeedCrash'
    BY <1>2, <1>4, <1>5 DEF Promises, DuplicatesNeedCrash
  <2> QED  BY <2>1, <2>2, <2>3 DEF Promises
<1> QED  BY <1>1, <1>7, <1>8, <1>9, <1>10, <1>11

-----------------------------------------------------------------------------
(* The end of refresh()                                                    *)

\* What one EndScan may do to the record r of a job.
Settled(r, verdict, new) ==
    \/ new = r
    \/ r.status \in Ended /\ r.followed /\ new.status = "absent" /\ new.flag = "none" /\ ~new.followed
    \/ /\ r.status = "running" /\ ~new.followed
       /\ \/ verdict \in Ended /\ new.status = verdict /\ new.flag = "none"
          \/ verdict \in {"timed_out", "died"} /\ new.status = "failed" /\ new.flag = verdict
    \/ r.status = "running" /\ new.status = "failed" /\ new.flag = "killed" /\ new.followed

\* A record that is pruned was followed up, so no verdict was pending for it.
LEMMA RefreshedSettles ==
  ASSUME JobsInv, NEW j \in Jobs, scan.seen[j] \in Verdict
  PROVE  /\ Settled(store[j], scan.seen[j], Refreshed[j])
         /\ Refreshed[j].status = "running" => store[j].status = "running"
<1> DEFINE r == Reconciled(store[j], scan.seen[j])
<1>1. Refreshed[j] = IF Stale(j, r) THEN Absent ELSE r
  BY DEF Refreshed
<1>2. CASE scan.seen[j] = "running"
  <2>1. r = store[j]
    BY <1>2 DEF Reconciled, Ended
  <2> QED  BY <1>1, <2>1 DEF Stale, Settled, Absent
<1>3. CASE scan.seen[j] # "running"
  <2>1. store[j] \in Record /\ store[j].status = "running" /\ store[j].flag = "none" /\ ~store[j].followed
    BY <1>3 DEF JobsInv, ScanInv, RecordInv, TypeOK, Ended
  <2>2. CASE scan.seen[j] \in Ended
    <3>1. r = [store[j] EXCEPT !.status = scan.seen[j]]
      BY <2>2 DEF Reconciled, Ended
    <3>2. r.status = scan.seen[j] /\ r.flag = "none" /\ ~r.followed
      BY <2>1, <3>1 DEF Record
    <3> QED  BY <1>1, <2>1, <2>2, <3>2 DEF Stale, Settled, Ended
  <2>3. CASE scan.seen[j] \in {"timed_out", "died"}
    <3>1. r = [store[j] EXCEPT !.status = "failed", !.flag = scan.seen[j]]
      BY <2>3 DEF Reconciled, Ended
    <3>2. r.status = "failed" /\ r.flag = scan.seen[j] /\ ~r.followed
      BY <2>1, <3>1 DEF Record
    <3> QED  BY <1>1, <2>1, <2>3, <3>2 DEF Stale, Settled
  <2> QED  BY <1>3, <2>2, <2>3 DEF Verdict
<1> QED  BY <1>2, <1>3

LEMMA EndScanSettles ==
  ASSUME JobsInv, EndScan
  PROVE  \A j \in Jobs : Settled(store[j], scan.seen[j], store'[j])
<1> SUFFICES ASSUME NEW j \in Jobs PROVE Settled(store[j], scan.seen[j], store'[j])
  OBVIOUS
<1>1. scan.seen[j] \in Verdict
  BY DEF EndScan, JobsInv, TypeOK, Scan
<1>2. store'[j] = Refreshed[j] \/ (Refreshed[j].status = "running" /\ store'[j] = KilledRecord)
  <2>1. Refreshed \in [Jobs -> Record]
    BY RefreshedType DEF EndScan, JobsInv
  <2> QED  BY <2>1 DEF EndScan
<1>3. CASE store'[j] = Refreshed[j]
  BY <1>1, <1>3, RefreshedSettles
<1>4. CASE Refreshed[j].status = "running" /\ store'[j] = KilledRecord
  <2>1. store[j].status = "running"
    BY <1>1, <1>4, RefreshedSettles
  <2> QED  BY <1>4, <2>1 DEF Settled, KilledRecord
<1> QED  BY <1>2, <1>3, <1>4

LEMMA EndScanStep ==
  ASSUME JobsInv, EndScan
  PROVE  JobsInv'
<1> USE DEF JobsInv, history
<1>1. TypeOK'
  BY LoudType DEF Loud
<1>2. \A j \in Jobs : Settled(store[j], scan.seen[j], store'[j])
  BY EndScanSettles
<1>3. /\ UNCHANGED <<outcome, told, torn>>
      /\ scan' = NoScan
      /\ \A j \in Jobs : proc'[j] = proc[j] \/ (proc'[j] = "gone" /\ proc[j] # "none")
      /\ \A j \in Jobs : exitFile'[j] \in {exitFile[j], "absent"}
  BY DEF EndScan, Killed, TypeOK
<1>4. WrapperInv'
  <2>1. \A j \in Jobs : store[j] = Absent => store'[j] = Absent
    BY <1>2 DEF Settled, Absent, Ended
  <2> QED  BY <1>3, <2>1 DEF WrapperInv
<1>5. ScanInv'
  BY <1>3 DEF ScanInv, NoScan
<1>6. RecordInv'
  BY <1>2, <1>3 DEF RecordInv, Settled, Ended, TypeOK
<1>7. SnapshotInv'
  <2>1. Pending(store) \subseteq Pending(store')
    BY <1>2 DEF Pending, Settled, Ended
  <2>2. Pending(Refreshed) \subseteq Pending(store')
    <3>1. Refreshed \in [Jobs -> Record]
      BY RefreshedType DEF EndScan
    <3>2. \A j \in Jobs : store'[j] = Refreshed[j] \/ Refreshed[j].status = "running"
      BY <3>1 DEF EndScan
    <3> QED  BY <3>2 DEF Pending, Ended
  <2>3. \/ monitor' = monitor
        \/ monitor' = [pc |-> "drain", todo |-> Pending(Refreshed), job |-> NoJob]
    BY DEF EndScan
  <2>4. CASE monitor' = monitor
    BY <2>1, <2>4 DEF SnapshotInv, Pending
  <2>5. CASE monitor' = [pc |-> "drain", todo |-> Pending(Refreshed), job |-> NoJob]
    BY <2>2, <2>5 DEF SnapshotInv, Pending
  <2> QED  BY <2>3, <2>4, <2>5
<1>8. Promises'
  <2>1. DoneMeansSucceeded'
    BY <1>2, <1>3 DEF Promises, DoneMeansSucceeded, Settled, ScanInv, Ended
  <2>2. DiedMeansNoCode'
    BY <1>2, <1>3 DEF Promises, DiedMeansNoCode, Settled, ScanInv
  <2>3. DuplicatesNeedCrash'
    BY <1>3 DEF Promises, DuplicatesNeedCrash
  <2>4. ASSUME NEW j \in Jobs
        PROVE  /\ store'[j].followed => told[j] > 0 \/ store'[j].flag = "killed"
               /\ store'[j].flag = "killed" => told[j] = 0
    <3>1. /\ store[j].followed => told[j] > 0 \/ store[j].flag = "killed"
          /\ store[j].flag = "killed" => told[j] = 0
          /\ store[j].status = "running" => told[j] = 0
      BY DEF Promises, HandledMeansTold, KilledStaysSilent, RecordInv
    <3> QED  BY <1>2, <3>1 DEF Settled
  <2>5. HandledMeansTold' /\ KilledStaysSilent'
    BY <1>3, <2>4 DEF HandledMeansTold, KilledStaysSilent
  <2> QED  BY <2>1, <2>2, <2>3, <2>5 DEF Promises
<1> QED  BY <1>1, <1>4, <1>5, <1>6, <1>7, <1>8

-----------------------------------------------------------------------------
(* The theorems                                                            *)

LEMMA InvStep == JobsInv /\ [Next]_vars => JobsInv'
<1> SUFFICES ASSUME JobsInv, [Next]_vars PROVE JobsInv'
  OBVIOUS
<1>1. CASE Quiet
  BY <1>1, QuietStep
<1>2. CASE Loud
  BY <1>2, ProcessStep, LaunchStep, TimeOutStep, EndScanStep, FollowupStep DEF Loud
<1>3. CASE UNCHANGED vars
  <2>1. TypeOK' /\ ScanInv' /\ SnapshotInv'
    BY <1>3, TypeStep DEF JobsInv, ScanInv, SnapshotInv, Pending, vars, processes
  <2> QED  BY <1>3, <2>1, FactsKept DEF JobsInv, vars, facts
<1> QED  BY <1>1, <1>2, <1>3, StepKinds

\* The inductive invariant holds in every state of the system.
THEOREM JobsInvariant == Spec => []JobsInv
BY InvInit, InvStep, PTL DEF Spec

\* The variables keep their types, and the monitor holds a job exactly while
\* the agent works for it.
THEOREM JobsTypeCorrect == Spec => []TypeOK
<1>1. JobsInv => TypeOK
  BY DEF JobsInv
<1> QED  BY <1>1, JobsInvariant, PTL

\* refresh() records "done" only for a command that ended with status zero,
\* whatever it read while the shell was still writing the exit file, and gives
\* a job up for dead only if its process is gone and left no exit code.
THEOREM EndsAreTrue == Spec => []RecordsTrue
<1>1. JobsInv => RecordsTrue
  BY DEF JobsInv, Promises, RecordsTrue
<1> QED  BY <1>1, JobsInvariant, PTL

\* mark_followed_up() never hides a job, the monitor's snapshot never makes it
\* tell a session twice unless a crash comes between add_message() and
\* mark_followed_up(), and a job the agent kills is never followed up.
THEOREM SessionsHear == Spec => []ToldAsRecorded
<1>1. JobsInv => ToldAsRecorded
  BY DEF JobsInv, Promises, ToldAsRecorded
<1> QED  BY <1>1, JobsInvariant, PTL

=============================================================================
