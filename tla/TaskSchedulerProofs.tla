------------------------- MODULE TaskSchedulerProofs -------------------------
(***************************************************************************)
(* The scheduler for any tasks, kinds, chains and number of executions.    *)
(***************************************************************************)
EXTENDS TaskScheduler, FiniteSetTheorems, SequenceTheorems, TLAPS

-----------------------------------------------------------------------------
(* The operators the model is built from.                                  *)

\* A sequence without duplicates loses exactly e, and keeps the order of the rest.
LEMMA WithoutSeq ==
  ASSUME NEW S, NEW seq \in Seq(S), NEW e
  PROVE  Without(seq, e) \in Seq(S)
  BY DEF Without, RemoveAt

LEMMA WithoutRange ==
  ASSUME NEW S, NEW seq \in Seq(S), NEW e,
         \A i, j \in DOMAIN seq : seq[i] = seq[j] => i = j
  PROVE  LET rest == Without(seq, e)
         IN  /\ \A i, j \in DOMAIN rest : rest[i] = rest[j] => i = j
             /\ \A x : (\E i \in DOMAIN rest : rest[i] = x)
                         <=> x # e /\ \E i \in DOMAIN seq : seq[i] = x
<1>1. CASE \E i \in DOMAIN seq : seq[i] = e
  <2> DEFINE k == CHOOSE i \in DOMAIN seq : seq[i] = e
             rest == SubSeq(seq, 1, k - 1) \o SubSeq(seq, k + 1, Len(seq))
  <2>1. k \in DOMAIN seq /\ seq[k] = e
    BY <1>1
  <2>2. Without(seq, e) = rest
    BY <1>1 DEF Without, RemoveAt
  <2> HIDE DEF k
  <2>3. /\ rest \in Seq(S)
        /\ DOMAIN rest = 1 .. Len(seq) - 1 /\ DOMAIN seq = 1 .. Len(seq) /\ Len(seq) \in Nat
        /\ \A j \in 1 .. Len(seq) - 1 : rest[j] = IF j < k THEN seq[j] ELSE seq[j + 1]
    <3> DEFINE front == SubSeq(seq, 1, k - 1)
               back == SubSeq(seq, k + 1, Len(seq))
    <3>1. k \in 1 .. Len(seq) /\ Len(seq) \in Nat
      BY <2>1
    <3>2. /\ front \in Seq(S) /\ Len(front) = k - 1
          /\ \A j \in 1 .. k - 1 : front[j] = seq[j]
      BY <3>1
    <3>3. /\ back \in Seq(S) /\ Len(back) = Len(seq) - k
          /\ \A j \in 1 .. Len(seq) - k : back[j] = seq[k + j]
      BY <3>1
    <3> HIDE DEF front, back
    <3>4. /\ front \o back \in Seq(S)
          /\ Len(front \o back) = Len(front) + Len(back)
          /\ \A j \in 1 .. Len(front) + Len(back) :
               (front \o back)[j] = IF j <= Len(front) THEN front[j] ELSE back[j - Len(front)]
      BY <3>2, <3>3, ConcatProperties
    <3>5. ASSUME NEW j \in 1 .. Len(seq) - 1
          PROVE  (front \o back)[j] = IF j < k THEN seq[j] ELSE seq[j + 1]
      <4>1. Len(front) + Len(back) = Len(seq) - 1
        BY <3>1, <3>2, <3>3
      <4>2. CASE j < k
        BY <3>1, <3>2, <3>4, <4>1, <4>2
      <4>3. CASE j >= k
        <5>1. (front \o back)[j] = back[j - (k - 1)]
          BY <3>1, <3>2, <3>4, <4>1, <4>3
        <5>2. j - (k - 1) \in 1 .. Len(seq) - k /\ k + (j - (k - 1)) = j + 1
          BY <3>1, <4>3
        <5> QED  BY <3>1, <3>3, <4>3, <5>1, <5>2
      <4>4. j < k \/ j >= k
        BY <3>1
      <4> QED  BY <4>2, <4>3, <4>4
    <3>6. Len(front \o back) = Len(seq) - 1
      BY <3>1, <3>2, <3>3, <3>4
    <3>7. rest = front \o back
      BY DEF front, back
    <3> HIDE DEF rest
    <3>8. DOMAIN rest = 1 .. Len(seq) - 1 /\ rest \in Seq(S)
      BY <3>4, <3>6, <3>7
    <3>9. DOMAIN seq = 1 .. Len(seq) /\ Len(seq) \in Nat
      OBVIOUS
    <3> QED  BY <3>5, <3>7, <3>8, <3>9
  <2> HIDE DEF rest
  <2>4. \A i, j \in DOMAIN rest : rest[i] = rest[j] => i = j
    BY <2>1, <2>3, SMTT(60)
  <2>5. ASSUME NEW x, NEW i \in DOMAIN rest, rest[i] = x
        PROVE  x # e /\ \E j \in DOMAIN seq : seq[j] = x
    <3>1. CASE i < k
      BY <2>1, <2>3, <2>5, <3>1
    <3>2. CASE i >= k
      <4>1. i + 1 \in DOMAIN seq /\ seq[i + 1] = x /\ i + 1 # k
        BY <2>1, <2>3, <2>5, <3>2
      <4> QED  BY <2>1, <4>1
    <3> QED  BY <2>1, <2>3, <3>1, <3>2
  <2>6. ASSUME NEW x, x # e, NEW i \in DOMAIN seq, seq[i] = x
        PROVE  \E j \in DOMAIN rest : rest[j] = x
    <3>1. CASE i < k
      BY <2>1, <2>3, <2>6, <3>1
    <3>2. CASE i > k
      <4>1. i - 1 \in DOMAIN rest /\ rest[i - 1] = x
        BY <2>1, <2>3, <2>6, <3>2
      <4> QED  BY <4>1
    <3> QED  BY <2>1, <2>6, <3>1, <3>2
  <2> QED  BY <2>2, <2>4, <2>5, <2>6
<1>2. CASE ~ \E i \in DOMAIN seq : seq[i] = e
  <2>1. Without(seq, e) = seq
    BY <1>2 DEF Without
  <2> QED  BY <1>2, <2>1
<1> QED  BY <1>1, <1>2

USE TasksAssumption, KindAssumption, ThenAssumption, SubsetAssumption,
    ThresholdAssumption, BudgetAssumption

\* create_task() for each task of S: idle places become coroutines that have not
\* begun, one for each task, and nothing else changes.
LEMMA SpawnedFacts ==
  ASSUME NEW S \in SUBSET Tasks, Room(S), NEW execs \in [Execs -> Exec],
         NEW origin \in {"loop", "event", "manual", "chain", "force"}
  PROVE  LET after == Spawned(execs, S, origin)
         IN  /\ after \in [Execs -> Exec]
             /\ \A e \in Execs :
                  \/ after[e] = execs[e]
                  \/ /\ exec[e].pc = "idle"
                     /\ after[e].pc = "spawned" /\ after[e].origin = origin
                     /\ after[e].cancelled = "no" /\ after[e].task \in S
             /\ \A e, f \in Execs :
                  /\ exec[e].pc = "idle" /\ after[e] # execs[e]
                  /\ exec[f].pc = "idle" /\ after[f] # execs[f]
                  /\ after[e].task = after[f].task
                  => e = f
<1> DEFINE place == CHOOSE f \in Injection(S, IdleExecs) : TRUE
           after == Spawned(execs, S, origin)
<1>1. place \in [S -> IdleExecs]
  BY DEF Room, Injection, IsInjective
<1> HIDE DEF place
<1>2. after = [e \in Execs |->
           IF \E t \in S : place[t] = e
           THEN [Idle EXCEPT !.pc = "spawned", !.origin = origin,
                             !.task = CHOOSE t \in S : place[t] = e]
           ELSE execs[e]]
  BY DEF Spawned, place
<1> HIDE DEF after
<1>3. ASSUME NEW e \in Execs
      PROVE  \/ after[e] = execs[e]
             \/ /\ exec[e].pc = "idle"
                /\ after[e] \in Exec
                /\ after[e].pc = "spawned" /\ after[e].origin = origin
                /\ after[e].cancelled = "no"
                /\ after[e].task \in S /\ place[after[e].task] = e
  <2>1. CASE \E t \in S : place[t] = e
    <3> DEFINE t == CHOOSE u \in S : place[u] = e
    <3>1. t \in S /\ place[t] = e
      BY <2>1
    <3>2. after[e] = [Idle EXCEPT !.pc = "spawned", !.origin = origin, !.task = t]
      BY <1>2, <2>1
    <3>3. exec[e].pc = "idle"
      BY <1>1, <3>1 DEF IdleExecs
    <3> HIDE DEF t
    <3> QED  BY <3>1, <3>2, <3>3 DEF Idle, Exec, Live
  <2>2. CASE ~ \E t \in S : place[t] = e
    BY <1>2, <2>2
  <2> QED  BY <2>1, <2>2
<1>4. after \in [Execs -> Exec]
  <2>1. \A e \in Execs : after[e] \in Exec
    BY <1>3
  <2>2. DOMAIN after = Execs /\ after = [e \in DOMAIN after |-> after[e]]
    BY <1>2
  <2> QED  BY <2>1, <2>2
<1> QED  BY <1>3, <1>4 DEF after

-----------------------------------------------------------------------------
(* Types.                                                                  *)

\* A coroutine that is not over has a task.
Shape == \A e \in Execs : exec[e].pc # "idle" => exec[e].task \in Tasks

Typed == TypeOK /\ Shape

DatabaseTyped ==
  /\ status \in [Tasks -> {"active", "paused", "completed"}]
  /\ nextRun \in [Tasks -> {"none", "later", "due"}]
  /\ counter \in [Tasks -> 0 .. Threshold - 1]
  /\ expired \subseteq Tasks
  /\ owed \subseteq EventTasks

MemoryTyped ==
  /\ started \in [Tasks -> Seq(Execs)]
  /\ executing \subseteq Tasks
  /\ handle \in [Tasks -> Execs \cup {NoExec}]
  /\ slot \in Execs \cup {NoExec}

RowTyped == row \in [Execs -> {"closed", "queued", "running", "aborted"}]

ExecTyped == exec \in [Execs -> Exec] /\ Shape

OtherTyped ==
  /\ queue \in Seq(Execs)
  /\ foreground \in BOOLEAN /\ stopping \in BOOLEAN
  /\ stopped \subseteq Tasks
  /\ used \in [Inputs -> Nat]

LEMMA TypedParts ==
  Typed <=> DatabaseTyped /\ MemoryTyped /\ RowTyped /\ ExecTyped /\ OtherTyped
BY DEF Typed, TypeOK, DatabaseTyped, MemoryTyped, RowTyped, ExecTyped, OtherTyped

LEMMA TypedPartsNext ==
  Typed' <=> DatabaseTyped' /\ MemoryTyped' /\ RowTyped' /\ ExecTyped' /\ OtherTyped'
BY DEF Typed, TypeOK, DatabaseTyped, MemoryTyped, RowTyped, ExecTyped, OtherTyped

LEMMA IdleTyped == Idle \in Exec /\ Idle.pc = "idle"
BY DEF Idle, Exec, Live

LEMMA SpendTyped ==
  ASSUME Typed, NEW what \in Inputs, Spend(what)
  PROVE  used' \in [Inputs -> Nat]
BY DEF Typed, TypeOK, Spend

LEMMA AliveTyped ==
  ASSUME Typed, NEW e \in Execs, exec[e].pc # "idle"
  PROVE  exec[e] \in Exec /\ exec[e].task \in Tasks
BY DEF Typed, TypeOK, Shape

\* What an execution writes to next_run when it ends.
LEMMA NextRunTyped ==
  ASSUME Typed, NEW e \in Execs, exec[e].pc # "idle"
  PROVE  /\ ComputeNext(exec[e].task) \in {"none", "later"}
         /\ WrittenOnEnd(e) \in {"none", "later", "due"}
         /\ ErrorNextRun(e) \in {"none", "later", "due"}
BY DEF Typed, TypeOK, Shape, ComputeNext, WrittenOnEnd, Written, ErrorNextRun

LEMMA FinishTyped ==
  ASSUME Typed, NEW e \in Execs, NEW members \in SUBSET Tasks,
         NEW handles \in [Tasks -> Execs \cup {NoExec}], NEW holder \in Execs \cup {NoExec},
         exec[e].task \in Tasks, Finish(e, members, handles, holder)
  PROVE  MemoryTyped'
<1>1. Without(started[exec[e].task], e) \in Seq(Execs)
  BY WithoutSeq DEF Typed, TypeOK
<1> QED  BY <1>1 DEF Typed, TypeOK, Finish, MemoryTyped

LEMMA ExecIdleTyped ==
  ASSUME Typed, NEW e \in Execs
  PROVE  LET over == [exec EXCEPT ![e] = Idle]
         IN  /\ over \in [Execs -> Exec]
             /\ \A f \in Execs : over[f].pc # "idle" => over[f].task \in Tasks
BY IdleTyped DEF Typed, TypeOK, Shape

LEMMA ProceedTyped ==
  ASSUME Typed, NEW e \in Execs, exec[e].pc # "idle",
         NEW rowNow \in {"closed", "queued", "running", "aborted"},
         NEW members \in SUBSET Tasks,
         NEW handles \in [Tasks -> Execs \cup {NoExec}], NEW holder \in Execs \cup {NoExec},
         Proceed(e, rowNow, members, handles, holder)
  PROVE  DatabaseTyped' /\ MemoryTyped' /\ RowTyped' /\ ExecTyped'
<1> DEFINE t == exec[e].task
<1>1. t \in Tasks /\ exec[e] \in Exec
  BY AliveTyped
<1>2. CASE /\ status[t] # "active"
           /\ row' = [row EXCEPT ![e] = "closed"]
           /\ exec' = [exec EXCEPT ![e] = Idle]
           /\ Finish(e, members, handles, holder)
           /\ UNCHANGED <<database, owed>>
  <2>1. DatabaseTyped' /\ RowTyped'
    BY <1>2 DEF Typed, TypeOK, DatabaseTyped, RowTyped, database
  <2> QED  BY <1>1, <1>2, <2>1, FinishTyped, ExecIdleTyped DEF ExecTyped, Shape
<1>3. CASE /\ status[t] = "active" /\ t \in AdminOnly
           /\ row' = [row EXCEPT ![e] = "closed"]
           /\ status' = [status EXCEPT ![t] = "paused"]
           /\ nextRun' = [nextRun EXCEPT ![t] = "none"]
           /\ owed' = owed \ {t}
           /\ exec' = [exec EXCEPT ![e] = Idle]
           /\ Finish(e, members, handles, holder)
           /\ UNCHANGED <<counter, expired>>
  <2>1. DatabaseTyped' /\ RowTyped'
    BY <1>3 DEF Typed, TypeOK, DatabaseTyped, RowTyped
  <2> QED  BY <1>1, <1>3, <2>1, FinishTyped, ExecIdleTyped DEF ExecTyped, Shape
<1>4. CASE /\ executing' = members /\ handle' = handles /\ slot' = holder
           /\ started' = IF exec[e].pc = "spawned"
                         THEN [started EXCEPT ![t] = Append(@, e)] ELSE started
           /\ IF Forced(e)
              THEN /\ row' = [row EXCEPT ![e] = "running"]
                   /\ exec' = [exec EXCEPT ![e].pc = "running",
                                           ![e].seen = nextRun[t] # "none"]
                   /\ owed' = owed \ {t}
              ELSE /\ row' = [row EXCEPT ![e] = rowNow]
                   /\ exec' = [exec EXCEPT ![e].pc = "quiet"]
                   /\ UNCHANGED owed
           /\ UNCHANGED database
  <2>1. MemoryTyped'
    <3>1. Append(started[t], e) \in Seq(Execs)
      BY <1>1 DEF Typed, TypeOK
    <3> QED  BY <1>4, <3>1 DEF Typed, TypeOK, MemoryTyped
  <2>2. DatabaseTyped' /\ RowTyped'
    <3>1. owed' \subseteq EventTasks /\ UNCHANGED database
      BY <1>4 DEF Typed, TypeOK
    <3>2. RowTyped'
      BY <1>4, ZenonT(60) DEF Typed, TypeOK, RowTyped
    <3> QED  BY <3>1, <3>2 DEF Typed, TypeOK, DatabaseTyped, database
  <2>3. ExecTyped'
    <3>1. \E r \in Exec : r.task = t /\ exec' = [exec EXCEPT ![e] = r]
      <4>1. CASE Forced(e)
        <5> DEFINE r == [exec[e] EXCEPT !.pc = "running", !.seen = nextRun[t] # "none"]
        <5>1. r \in Exec /\ r.task = t
          BY <1>1 DEF Exec, Live
        <5>2. exec' = [exec EXCEPT ![e] = r]
          BY <1>4, <4>1, ZenonT(60) DEF Typed, TypeOK
        <5> QED  BY <5>1, <5>2
      <4>2. CASE ~Forced(e)
        <5> DEFINE r == [exec[e] EXCEPT !.pc = "quiet"]
        <5>1. r \in Exec /\ r.task = t
          BY <1>1 DEF Exec, Live
        <5>2. exec' = [exec EXCEPT ![e] = r]
          BY <1>4, <4>2 DEF Typed, TypeOK
        <5> QED  BY <5>1, <5>2
      <4> QED  BY <4>1, <4>2
    <3> QED  BY <1>1, <3>1 DEF Typed, TypeOK, ExecTyped, Shape
  <2> QED  BY <2>1, <2>2, <2>3
<1> QED  BY <1>2, <1>3, <1>4 DEF Proceed

-----------------------------------------------------------------------------
(* The semaphore, the rows and the dispatch.                               *)

InQueue(e) == \E i \in DOMAIN queue : queue[i] = e

\* What the slot, its queue and the run row say of one coroutine.
Accounted(e) ==
  /\ InQueue(e) <=> exec[e].pc = "waiting"
  /\ exec[e].pc = "waiting" => NeedsSlot(e)
  /\ slot = e <=> NeedsSlot(e) /\ exec[e].pc \in {"quiet", "running"}
  /\ row[e] \in {"queued", "running"} => exec[e].pc \in {"waiting", "quiet", "running"}

QueuedOnce == \A i, j \in DOMAIN queue : queue[i] = queue[j] => i = j

SlotInv == QueuedOnce /\ \A e \in Execs : Accounted(e)

IInv == Typed /\ SlotInv /\ DispatchedOnce

\* A coroutine that a step leaves where it is.
Same(e) ==
  /\ exec'[e].pc = exec[e].pc
  /\ exec'[e].task = exec[e].task
  /\ exec'[e].origin = exec[e].origin

\* A place that a step gives to a new coroutine.
Starting(e) == exec[e].pc = "idle" /\ exec'[e].pc = "spawned"

RowKept(e) == row'[e] \in {row[e], "aborted", "closed"}

LEMMA StillAccounted ==
  ASSUME NEW e \in Execs, Accounted(e), Same(e), RowKept(e),
         InQueue(e)' <=> InQueue(e), slot' = e <=> slot = e
  PROVE  Accounted(e)'
BY DEF Accounted, Same, RowKept, NeedsSlot, Forced

LEMMA StartingAccounted ==
  ASSUME NEW e \in Execs, Accounted(e), Starting(e), RowKept(e),
         InQueue(e)' <=> InQueue(e), slot' = e <=> slot = e
  PROVE  Accounted(e)'
BY DEF Accounted, Starting, RowKept, NeedsSlot, Forced

\* Steps that move no coroutine, except for the new ones.
LEMMA OthersAccounted ==
  ASSUME SlotInv, UNCHANGED <<queue, slot>>,
         \A e \in Execs : (Same(e) \/ Starting(e)) /\ RowKept(e)
  PROVE  SlotInv'
<1>1. QueuedOnce'
  BY DEF SlotInv, QueuedOnce
<1>2. ASSUME NEW e \in Execs PROVE Accounted(e)'
  <2>1. InQueue(e)' <=> InQueue(e)
    BY DEF InQueue
  <2> QED  BY <2>1, StillAccounted, StartingAccounted DEF SlotInv
<1> QED  BY <1>1, <1>2 DEF SlotInv

\* The queue after e has left it, if it was there.
LeavesQueue(e) ==
  /\ QueuedOnce'
  /\ \A f \in Execs : InQueue(f)' <=> f # e /\ InQueue(f)

\* Who had the slot when e went on or ended.
Holding(e, holder) == holder = slot \/ (slot = NoExec /\ holder = e)

\* An execution ends: nothing of it is left.
LEMMA EndAccounted ==
  ASSUME Typed, SlotInv, NEW e \in Execs, NEW holder, Holding(e, holder),
         LeavesQueue(e), slot' = (IF holder = e THEN NoExec ELSE holder),
         row' = [row EXCEPT ![e] = "closed"], exec'[e].pc = "idle",
         \A f \in Execs \ {e} : Same(f) \/ Starting(f)
  PROVE  SlotInv'
<1>1. ASSUME NEW f \in Execs PROVE Accounted(f)'
  <2>1. CASE f = e
    <3>1. slot' # e /\ ~InQueue(e)' /\ row'[e] = "closed"
      BY DEF LeavesQueue, Typed, TypeOK
    <3> QED  BY <2>1, <3>1 DEF Accounted
  <2>2. CASE f # e
    <3>1. InQueue(f)' <=> InQueue(f)
      BY <2>2 DEF LeavesQueue
    <3>2. RowKept(f)
      BY <2>2 DEF RowKept, Typed, TypeOK
    <3>3. slot' = f <=> slot = f
      BY <2>2 DEF Holding
    <3> QED  BY <2>2, <3>1, <3>2, <3>3, StillAccounted, StartingAccounted DEF SlotInv
  <2> QED  BY <2>1, <2>2
<1> QED  BY <1>1 DEF SlotInv, LeavesQueue

\* An execution gets past the slot.
LEMMA PassAccounted ==
  ASSUME Typed, SlotInv, NEW e \in Execs, LeavesQueue(e),
         slot' = (IF NeedsSlot(e) THEN e ELSE slot), NeedsSlot(e) => slot \in {NoExec, e},
         exec[e].pc # "idle", NeedsSlot(e) \/ exec[e].pc # "waiting",
         \A f \in Execs \ {e} : Same(f) /\ row'[f] = row[f],
         exec'[e].pc \in {"quiet", "running"},
         exec'[e].task = exec[e].task, exec'[e].origin = exec[e].origin
  PROVE  SlotInv'
<1>1. ASSUME NEW f \in Execs PROVE Accounted(f)'
  <2>1. CASE f = e
    <3>1. NeedsSlot(e)' <=> NeedsSlot(e)
      BY DEF NeedsSlot, Forced
    <3>2. ~NeedsSlot(e) => slot # e
      BY DEF SlotInv, Accounted
    <3>3. slot' = e <=> NeedsSlot(e)'
      BY <3>1, <3>2
    <3> QED  BY <2>1, <3>3 DEF Accounted, LeavesQueue
  <2>2. CASE f # e
    <3>1. InQueue(f)' <=> InQueue(f)
      BY <2>2 DEF LeavesQueue
    <3>2. RowKept(f) /\ Same(f)
      BY <2>2 DEF RowKept
    <3>3. slot' = f <=> slot = f
      BY <2>2 DEF Typed, TypeOK
    <3> QED  BY <3>1, <3>2, <3>3, StillAccounted DEF SlotInv
  <2> QED  BY <2>1, <2>2
<1> QED  BY <1>1 DEF SlotInv, LeavesQueue

\* The queue stays as it is where e is not in it.
LEMMA NotQueued ==
  ASSUME SlotInv, NEW e \in Execs, exec[e].pc # "waiting", UNCHANGED queue
  PROVE  LeavesQueue(e)
<1>1. ~InQueue(e)
  BY DEF SlotInv, Accounted
<1> QED  BY <1>1 DEF SlotInv, LeavesQueue, QueuedOnce, InQueue

LEMMA WithoutLeaves ==
  ASSUME Typed, SlotInv, NEW e \in Execs, queue' = Without(queue, e)
  PROVE  queue' \in Seq(Execs) /\ LeavesQueue(e)
<1>1. queue \in Seq(Execs) /\ \A i, j \in DOMAIN queue : queue[i] = queue[j] => i = j
  BY DEF Typed, TypeOK, SlotInv, QueuedOnce
<1>2. queue' \in Seq(Execs)
  BY <1>1, WithoutSeq
<1>3. /\ \A i, j \in DOMAIN queue' : queue'[i] = queue'[j] => i = j
      /\ \A x : (\E i \in DOMAIN queue' : queue'[i] = x)
                  <=> x # e /\ \E i \in DOMAIN queue : queue[i] = x
  BY <1>1, WithoutRange
<1> QED  BY <1>2, <1>3 DEF LeavesQueue, QueuedOnce, InQueue

LEMMA TailLeaves ==
  ASSUME Typed, SlotInv, NEW e \in Execs, exec[e].pc = "waiting",
         Head(queue) = e, queue' = Tail(queue)
  PROVE  queue' \in Seq(Execs) /\ LeavesQueue(e)
<1>1. queue \in Seq(Execs) /\ queue # <<>>
  BY DEF Typed, TypeOK, SlotInv, Accounted, InQueue
<1>2. /\ Len(queue) \in Nat \ {0} /\ DOMAIN queue = 1 .. Len(queue)
      /\ queue[1] = e
      /\ queue' \in Seq(Execs) /\ DOMAIN queue' = 1 .. Len(queue) - 1
      /\ \A i \in 1 .. Len(queue) - 1 : queue'[i] = queue[i + 1]
  BY <1>1
<1>3. QueuedOnce'
  BY <1>2 DEF SlotInv, QueuedOnce
<1>4. ASSUME NEW f \in Execs PROVE InQueue(f)' <=> f # e /\ InQueue(f)
  <2>1. ASSUME NEW i \in DOMAIN queue', queue'[i] = f PROVE f # e /\ InQueue(f)
    <3>1. i + 1 \in DOMAIN queue /\ queue[i + 1] = f /\ i + 1 # 1 /\ 1 \in DOMAIN queue
      BY <1>2, <2>1
    <3> QED  BY <1>2, <3>1 DEF SlotInv, QueuedOnce, InQueue
  <2>2. ASSUME f # e, NEW i \in DOMAIN queue, queue[i] = f PROVE InQueue(f)'
    <3>1. i - 1 \in DOMAIN queue' /\ queue'[i - 1] = f
      BY <1>2, <2>2
    <3> QED  BY <3>1 DEF InQueue
  <2> QED  BY <2>1, <2>2 DEF InQueue
<1> QED  BY <1>2, <1>3, <1>4 DEF LeavesQueue

LEMMA AppendQueued ==
  ASSUME Typed, SlotInv, NEW e \in Execs, exec[e].pc # "waiting", queue' = Append(queue, e)
  PROVE  /\ queue' \in Seq(Execs) /\ QueuedOnce'
         /\ \A f \in Execs : InQueue(f)' <=> f = e \/ InQueue(f)
<1>1. queue \in Seq(Execs) /\ ~InQueue(e)
  BY DEF Typed, TypeOK, SlotInv, Accounted
<1>2. /\ Len(queue) \in Nat /\ DOMAIN queue = 1 .. Len(queue)
      /\ queue' \in Seq(Execs) /\ DOMAIN queue' = 1 .. Len(queue) + 1
      /\ queue'[Len(queue) + 1] = e
      /\ \A i \in 1 .. Len(queue) : queue'[i] = queue[i]
  BY <1>1
<1>3. QueuedOnce'
  BY <1>1, <1>2 DEF SlotInv, QueuedOnce, InQueue
<1>4. ASSUME NEW f \in Execs PROVE InQueue(f)' <=> f = e \/ InQueue(f)
  <2>1. ASSUME NEW i \in DOMAIN queue', queue'[i] = f PROVE f = e \/ InQueue(f)
    BY <1>2, <2>1 DEF InQueue
  <2>2. ASSUME NEW i \in DOMAIN queue, queue[i] = f PROVE InQueue(f)'
    BY <1>2, <2>2 DEF InQueue
  <2>3. InQueue(e)'
    BY <1>2 DEF InQueue
  <2> QED  BY <2>1, <2>2, <2>3 DEF InQueue
<1> QED  BY <1>2, <1>3, <1>4

\* Dispatch: what is dispatched after a step was dispatched before it, or is the
\* only one of a task that was not in _executing.
LEMMA DispatchKept ==
  ASSUME DispatchedOnce, stopped \subseteq stopped',
         \A e \in Execs : Dispatched(e)' =>
            \/ Dispatched(e) /\ exec'[e].task = exec[e].task
            \/ /\ ~Dispatched(e) /\ exec'[e].task \notin executing
               /\ \A f \in Execs : Dispatched(f)' /\ ~Dispatched(f)
                                   /\ exec'[f].task = exec'[e].task => f = e,
         \A e \in Execs : Dispatched(e)' /\ exec'[e].task \notin stopped'
                            => exec'[e].task \in executing'
  PROVE  DispatchedOnce'
<1>1. ASSUME NEW e \in Execs, NEW f \in Execs, Dispatched(e)', Dispatched(f)',
             exec'[e].task \notin stopped', exec'[f].task = exec'[e].task
      PROVE  e = f
  <2>1. Dispatched(e) \in BOOLEAN /\ Dispatched(f) \in BOOLEAN
    BY DEF Dispatched
  <2>2. CASE Dispatched(e) /\ Dispatched(f)
    BY <1>1, <2>2 DEF DispatchedOnce
  <2>3. CASE ~Dispatched(e) /\ ~Dispatched(f)
    BY <1>1, <2>3
  <2>4. ASSUME NEW g \in Execs, NEW h \in Execs, Dispatched(g), ~Dispatched(h),
               Dispatched(g)', Dispatched(h)',
               exec'[g].task \notin stopped', exec'[g].task = exec'[h].task
        PROVE  FALSE
    <3>1. exec'[h].task \notin executing
      BY <2>4
    <3>2. exec[g].task = exec'[g].task /\ exec[g].task \in executing
      BY <2>4 DEF DispatchedOnce
    <3> QED  BY <2>4, <3>1, <3>2
  <2> QED  BY <1>1, <2>1, <2>2, <2>3, <2>4
<1> QED  BY <1>1 DEF DispatchedOnce

-----------------------------------------------------------------------------
(* The steps of a coroutine.                                               *)

\* A dispatched execution, or one whose task is not in _executing, ends.
LEMMA EndDispatched ==
  ASSUME Typed, DispatchedOnce, NEW e \in Execs, NEW members,
         exec[e].pc # "idle", Dispatched(e) \/ Forced(e) \/ exec[e].task \notin executing,
         executing \subseteq members, UNCHANGED stopped,
         executing' = (IF Forced(e) THEN members ELSE members \ {exec[e].task}),
         exec'[e].pc = "idle",
         \A f \in Execs \ {e} : Same(f) \/ (Starting(f) /\ exec'[f].origin = "chain")
  PROVE  DispatchedOnce'
<1>1. ASSUME NEW f \in Execs, Dispatched(f)'
      PROVE  f # e /\ Dispatched(f) /\ exec'[f].task = exec[f].task
  BY <1>1 DEF Dispatched, Forced, Same, Starting, Live
<1>2. ASSUME NEW f \in Execs, Dispatched(f)', exec'[f].task \notin stopped'
      PROVE  exec'[f].task \in executing'
  <2>1. /\ f # e /\ Dispatched(f) /\ exec'[f].task = exec[f].task
        /\ exec[f].task \notin stopped /\ exec[f].task \in executing
    BY <1>1, <1>2 DEF DispatchedOnce
  <2>2. ~Forced(e) => exec[f].task # exec[e].task
    BY <2>1 DEF DispatchedOnce
  <2> QED  BY <2>1, <2>2
<1> QED  BY <1>1, <1>2, DispatchKept

\* An execution that is dispatched by this step or before goes on.
LEMMA PassDispatched ==
  ASSUME Typed, DispatchedOnce, NEW e \in Execs, exec[e].pc # "idle",
         UNCHANGED stopped,
         exec'[e].pc \in {"waiting", "quiet", "running"},
         exec'[e].task = exec[e].task, exec'[e].origin = exec[e].origin,
         \A f \in Execs \ {e} : Same(f),
         \/ Dispatched(e) /\ executing' = executing
         \/ Forced(e) /\ executing' = executing
         \/ exec[e].task \notin executing /\ executing' = executing \cup {exec[e].task}
  PROVE  DispatchedOnce'
<1>1. ASSUME NEW f \in Execs \ {e}
      PROVE  Dispatched(f)' <=> Dispatched(f)
  BY <1>1 DEF Dispatched, Forced, Same
<1>2. Dispatched(e)' => ~Forced(e)
  BY DEF Dispatched, Forced
<1>3. ASSUME NEW f \in Execs, Dispatched(f)', exec'[f].task \notin stopped'
      PROVE  exec'[f].task \in executing'
  BY <1>1, <1>2, <1>3 DEF DispatchedOnce, Same
<1>4. ASSUME NEW f \in Execs, Dispatched(f)'
      PROVE  \/ Dispatched(f) /\ exec'[f].task = exec[f].task
             \/ /\ ~Dispatched(f) /\ exec'[f].task \notin executing
                /\ \A g \in Execs : Dispatched(g)' /\ ~Dispatched(g)
                                    /\ exec'[g].task = exec'[f].task => g = f
  <2>1. CASE f # e
    BY <1>1, <1>4, <2>1 DEF Same
  <2>2. CASE f = e /\ Dispatched(f)
    BY <2>2
  <2>3. CASE f = e /\ ~Dispatched(f)
    <3>1. exec[e].task \notin executing
      BY <1>2, <1>4, <2>3
    <3>2. \A g \in Execs : Dispatched(g)' /\ ~Dispatched(g) => g = e
      BY <1>1
    <3> QED  BY <2>3, <3>1, <3>2
  <2> QED  BY <2>1, <2>2, <2>3
<1> QED  BY <1>3, <1>4, DispatchKept

\* _execute_task_locked, wherever it is entered from: what is left of an
\* execution that does not run is accounted for as what goes on is.
LEMMA ProceedStep ==
  ASSUME IInv, NEW e \in Execs, exec[e].pc \in {"spawned", "waiting"},
         NEW rowNow \in {"closed", "queued", "running", "aborted"},
         NEW members \in SUBSET Tasks,
         NEW handles \in [Tasks -> Execs \cup {NoExec}],
         Proceed(e, rowNow, members, handles, IF NeedsSlot(e) THEN e ELSE slot),
         NeedsSlot(e) => slot = NoExec,
         LeavesQueue(e), queue' \in Seq(Execs), NeedsSlot(e) \/ exec[e].pc # "waiting",
         \/ (Dispatched(e) \/ Forced(e)) /\ members = executing
         \/ exec[e].task \notin executing /\ members = executing \cup {exec[e].task},
         UNCHANGED <<user, stopped, used>>
  PROVE  IInv'
<1> DEFINE t == exec[e].task
           holder == IF NeedsSlot(e) THEN e ELSE slot
<1>0. Typed /\ SlotInv /\ DispatchedOnce /\ exec[e].pc # "idle" /\ t \in Tasks
  BY AliveTyped DEF IInv
<1>1. /\ Typed /\ SlotInv /\ DispatchedOnce /\ exec[e].pc # "idle" /\ t \in Tasks
      /\ holder \in Execs \cup {NoExec} /\ Holding(e, holder)
      /\ exec \in [Execs -> Exec]
      /\ row \in [Execs -> {"closed", "queued", "running", "aborted"}]
      /\ executing \subseteq members /\ UNCHANGED stopped
      /\ Dispatched(e) \/ Forced(e) \/ t \notin executing
  <2>1. /\ slot \in Execs \cup {NoExec} /\ exec \in [Execs -> Exec]
        /\ row \in [Execs -> {"closed", "queued", "running", "aborted"}]
    BY <1>0 DEF Typed, TypeOK
  <2>2. holder \in Execs \cup {NoExec} /\ Holding(e, holder)
    <3>1. NeedsSlot(e) \in BOOLEAN
      BY DEF NeedsSlot, Forced
    <3>2. CASE NeedsSlot(e)
      <4>1. holder = e /\ slot = NoExec
        BY <3>2
      <4> QED  BY ONLY <4>1, e \in Execs DEF Holding
    <3>3. CASE ~NeedsSlot(e)
      <4>1. holder = slot
        BY ONLY <3>3
      <4> QED  BY ONLY <2>1, <4>1 DEF Holding
    <3> QED  BY ONLY <3>1, <3>2, <3>3
  <2>3. /\ executing \subseteq members /\ UNCHANGED stopped
        /\ Dispatched(e) \/ Forced(e) \/ t \notin executing
    OBVIOUS
  <2> QED  BY <1>0, <2>1, <2>2, <2>3
<1> HIDE DEF holder
<1>2. Proceed(e, rowNow, members, handles, holder)
  BY DEF holder
<1>3. Typed'
  <2>1. DatabaseTyped' /\ MemoryTyped' /\ RowTyped' /\ ExecTyped'
    BY ONLY <1>1, <1>2, ProceedTyped, e \in Execs, members \in SUBSET Tasks,
       handles \in [Tasks -> Execs \cup {NoExec}],
       rowNow \in {"closed", "queued", "running", "aborted"}
  <2>2. OtherTyped'
    BY <1>1 DEF Typed, TypeOK, OtherTyped, user
  <2> QED  BY <2>1, <2>2, TypedPartsNext
<1>4. CASE /\ row' = [row EXCEPT ![e] = "closed"]
           /\ exec' = [exec EXCEPT ![e] = Idle]
           /\ Finish(e, members, handles, holder)
  <2>1. /\ executing' = (IF Forced(e) THEN members ELSE members \ {t})
        /\ slot' = (IF holder = e THEN NoExec ELSE holder)
        /\ exec'[e].pc = "idle"
        /\ \A f \in Execs \ {e} : Same(f)
    BY <1>1, <1>4, IdleTyped DEF Finish, Same
  <2>2. SlotInv'
    BY <1>1, <1>4, <2>1, EndAccounted
  <2>3. DispatchedOnce'
    <3>1. \A f \in Execs \ {e} : Same(f) \/ (Starting(f) /\ exec'[f].origin = "chain")
      BY ONLY <2>1
    <3>2. /\ Typed /\ DispatchedOnce /\ exec[e].pc # "idle"
          /\ Dispatched(e) \/ Forced(e) \/ exec[e].task \notin executing
          /\ executing \subseteq members /\ UNCHANGED stopped
          /\ executing' = (IF Forced(e) THEN members ELSE members \ {exec[e].task})
          /\ exec'[e].pc = "idle"
      BY ONLY <1>1, <2>1
    <3> QED  BY ONLY <3>1, <3>2, EndDispatched, e \in Execs
  <2> QED  BY <1>3, <2>2, <2>3 DEF IInv
<1>5. CASE /\ executing' = members /\ slot' = holder
           /\ IF Forced(e)
              THEN /\ row' = [row EXCEPT ![e] = "running"]
                   /\ exec' = [exec EXCEPT ![e].pc = "running",
                                           ![e].seen = nextRun[t] # "none"]
              ELSE /\ row' = [row EXCEPT ![e] = rowNow]
                   /\ exec' = [exec EXCEPT ![e].pc = "quiet"]
  <2>1. /\ exec'[e].pc \in {"quiet", "running"}
        /\ exec'[e].task = t /\ exec'[e].origin = exec[e].origin
        /\ \A f \in Execs \ {e} : Same(f) /\ row'[f] = row[f]
    BY <1>1, <1>5 DEF Same, Exec
  <2>2. SlotInv'
    BY <1>1, <1>5, <2>1, PassAccounted DEF holder
  <2>3. DispatchedOnce'
    BY <1>1, <1>5, <2>1, PassDispatched
  <2> QED  BY <1>3, <2>2, <2>3 DEF IInv
<1> QED  BY <1>2, <1>4, <1>5 DEF Proceed

LEMMA BeginStep ==
  ASSUME IInv, NEW e \in Execs, Begin(e) PROVE IInv'
<1> DEFINE t == exec[e].task
           members == IF exec[e].origin = "chain" THEN executing \cup {t} ELSE executing
           handles == [handle EXCEPT ![t] = e]
<1>1. /\ Typed /\ SlotInv /\ DispatchedOnce
      /\ exec[e].pc = "spawned" /\ UNCHANGED <<user, stopped, used>>
      /\ t \in Tasks /\ exec \in [Execs -> Exec]
      /\ row \in [Execs -> {"closed", "queued", "running", "aborted"}]
      /\ slot \in Execs \cup {NoExec}
  BY AliveTyped DEF IInv, Begin, Typed, TypeOK
<1>2. members \in SUBSET Tasks /\ handles \in [Tasks -> Execs \cup {NoExec}]
  BY <1>1 DEF Typed, TypeOK
<1>3. ~AlreadyInFlight(e) =>
         \/ (Dispatched(e) \/ Forced(e)) /\ members = executing
         \/ t \notin executing /\ members = executing \cup {t}
  BY <1>1 DEF AlreadyInFlight, Dispatched, Live
<1> HIDE DEF members, handles
<1>4. CASE /\ AlreadyInFlight(e)
           /\ exec' = [exec EXCEPT ![e] = Idle]
           /\ UNCHANGED <<database, runs, memory, owed>>
  <2>1. exec'[e].pc = "idle" /\ (\A f \in Execs \ {e} : Same(f))
        /\ UNCHANGED <<queue, slot, row, executing>>
    BY <1>1, <1>4, IdleTyped DEF Same, memory, runs
  <2>2. Typed'
    BY <1>1, <1>4, ExecIdleTyped
    DEF Typed, TypeOK, Shape, database, runs, memory, user
  <2>3. SlotInv'
    <3>1. QueuedOnce'
      BY <1>1, <2>1 DEF SlotInv, QueuedOnce
    <3>2. Accounted(e)'
      BY <1>1, <2>1 DEF SlotInv, Accounted, InQueue
    <3>3. \A f \in Execs \ {e} : Accounted(f)'
      BY <1>1, <2>1, StillAccounted DEF SlotInv, RowKept, InQueue
    <3> QED  BY <3>1, <3>2, <3>3 DEF SlotInv
  <2>4. DispatchedOnce'
    <3>1. \A f \in Execs : Dispatched(f)' => Dispatched(f) /\ exec'[f].task = exec[f].task
      BY <2>1 DEF Dispatched, Forced, Same, Live
    <3> QED  BY <1>1, <2>1, <3>1, DispatchKept DEF DispatchedOnce
  <2> QED  BY <2>2, <2>3, <2>4 DEF IInv
<1>5. CASE /\ ~AlreadyInFlight(e) /\ NeedsSlot(e)
           /\ exec' = [exec EXCEPT ![e].pc = "waiting"]
           /\ queue' = Append(queue, e)
           /\ row' = [row EXCEPT ![e] = "queued"]
           /\ started' = [started EXCEPT ![t] = Append(@, e)]
           /\ executing' = members
           /\ handle' = handles
           /\ UNCHANGED <<database, slot, owed>>
  <2>1. exec'[e] = [exec[e] EXCEPT !.pc = "waiting"]
        /\ exec'[e] \in Exec /\ exec'[e].pc = "waiting"
        /\ exec'[e].task = t /\ exec'[e].origin = exec[e].origin
        /\ \A f \in Execs \ {e} : exec'[f] = exec[f] /\ Same(f) /\ row'[f] = row[f]
    BY <1>1, <1>5, ZenonT(60) DEF Same, Exec, Live
  <2>2. /\ queue' \in Seq(Execs) /\ QueuedOnce'
        /\ \A f \in Execs : InQueue(f)' <=> f = e \/ InQueue(f)
    BY <1>1, <1>5, AppendQueued
  <2>3. Typed'
    <3>1. Append(started[t], e) \in Seq(Execs)
      BY <1>1 DEF Typed, TypeOK
    <3>2. MemoryTyped' /\ RowTyped'
      BY <1>1, <1>2, <1>5, <3>1 DEF Typed, TypeOK, MemoryTyped, RowTyped
    <3>3. ExecTyped'
      BY <1>1, <1>5, <2>1 DEF Typed, TypeOK, Shape, ExecTyped
    <3>4. DatabaseTyped' /\ OtherTyped'
      BY <1>1, <1>5, <2>2 DEF Typed, TypeOK, DatabaseTyped, OtherTyped, database, user
    <3> QED  BY <3>2, <3>3, <3>4, TypedPartsNext
  <2>4. SlotInv'
    <3>1. Accounted(e)'
      BY <1>1, <1>5, <2>1, <2>2 DEF SlotInv, Accounted, NeedsSlot, Forced
    <3>2. \A f \in Execs \ {e} : Accounted(f)'
      BY <1>1, <1>5, <2>1, <2>2, StillAccounted DEF SlotInv, RowKept
    <3> QED  BY <2>2, <3>1, <3>2 DEF SlotInv
  <2>5. DispatchedOnce'
    BY <1>1, <1>3, <1>5, <2>1, PassDispatched
  <2> QED  BY <2>3, <2>4, <2>5 DEF IInv
<1>6. CASE /\ ~AlreadyInFlight(e)
           /\ ~(NeedsSlot(e) /\ (slot # NoExec \/ queue # <<>>))
           /\ Proceed(e, "queued", members, handles, IF NeedsSlot(e) THEN e ELSE slot)
           /\ UNCHANGED queue
  <2>1. LeavesQueue(e) /\ queue' \in Seq(Execs)
    BY <1>1, <1>6, NotQueued DEF Typed, TypeOK
  <2>2. NeedsSlot(e) => slot = NoExec
    BY <1>6
  <2> QED  BY <1>1, <1>2, <1>3, <1>6, <2>1, <2>2, ProceedStep
<1> QED  BY <1>4, <1>5, <1>6 DEF Begin, members, handles

LEMMA AcquireStep ==
  ASSUME IInv, NEW e \in Execs, Acquire(e) PROVE IInv'
<1>1. /\ Typed /\ SlotInv /\ exec[e].pc = "waiting" /\ slot = NoExec
      /\ NeedsSlot(e) /\ Dispatched(e)
      /\ Proceed(e, row[e], executing, handle, e)
      /\ Head(queue) = e /\ queue' = Tail(queue)
      /\ UNCHANGED <<user, stopped, used>>
  BY DEF IInv, Acquire, SlotInv, Accounted, Dispatched, NeedsSlot, Live
<1>2. LeavesQueue(e) /\ queue' \in Seq(Execs)
  BY <1>1, TailLeaves
<1>3. /\ row[e] \in {"closed", "queued", "running", "aborted"}
      /\ executing \in SUBSET Tasks /\ handle \in [Tasks -> Execs \cup {NoExec}]
  BY <1>1 DEF Typed, TypeOK
<1>4. Proceed(e, row[e], executing, handle, IF NeedsSlot(e) THEN e ELSE slot)
  BY <1>1
<1> QED  BY <1>1, <1>2, <1>3, <1>4, ProceedStep

LEMMA StartRunStep ==
  ASSUME IInv, NEW e \in Execs, StartRun(e) PROVE IInv'
<1> DEFINE t == exec[e].task
<1>1. /\ Typed /\ SlotInv /\ DispatchedOnce /\ exec[e].pc = "quiet"
      /\ t \in Tasks /\ exec \in [Execs -> Exec] /\ exec[e] \in Exec
      /\ row \in [Execs -> {"closed", "queued", "running", "aborted"}]
  BY AliveTyped DEF IInv, StartRun, Typed, TypeOK
<1>2. /\ exec' = [exec EXCEPT ![e].pc = "running", ![e].seen = nextRun[t] # "none"]
      /\ row' = [row EXCEPT ![e] = "running"]
      /\ started' = [started EXCEPT ![t] = Append(Without(@, e), e)]
      /\ owed' = owed \ {t}
      /\ UNCHANGED <<database, memory, user, stopped, used>>
  BY DEF StartRun
<1>3. /\ exec'[e].pc = "running" /\ exec'[e] \in Exec
      /\ exec'[e].task = t /\ exec'[e].origin = exec[e].origin
      /\ \A f \in Execs \ {e} : exec'[f] = exec[f] /\ Same(f) /\ row'[f] = row[f]
  BY <1>1, <1>2 DEF Same, Exec, Live
<1>4. Typed'
  <2>1. Append(Without(started[t], e), e) \in Seq(Execs)
    BY <1>1, WithoutSeq DEF Typed, TypeOK
  <2>2. MemoryTyped' /\ RowTyped'
    BY <1>1, <1>2, <2>1 DEF Typed, TypeOK, MemoryTyped, RowTyped, memory
  <2>3. ExecTyped'
    BY <1>1, <1>2, <1>3 DEF Typed, TypeOK, Shape, ExecTyped
  <2>4. DatabaseTyped' /\ OtherTyped'
    BY <1>1, <1>2 DEF Typed, TypeOK, DatabaseTyped, OtherTyped, database, memory, user
  <2> QED  BY <2>2, <2>3, <2>4, TypedPartsNext
<1>5. SlotInv'
  <2>1. UNCHANGED <<queue, slot>>
    BY <1>2 DEF memory
  <2>2. slot' = (IF NeedsSlot(e) THEN e ELSE slot) /\ (NeedsSlot(e) => slot \in {NoExec, e})
    BY <1>1, <2>1 DEF SlotInv, Accounted
  <2>3. LeavesQueue(e)
    BY <1>1, <2>1, NotQueued
  <2> QED  BY <1>1, <1>3, <2>2, <2>3, PassAccounted
<1>6. DispatchedOnce'
  <2>1. Dispatched(e) \/ Forced(e)
    BY <1>1 DEF Dispatched, Live
  <2> QED  BY <1>1, <1>2, <1>3, <2>1, PassDispatched DEF memory
<1> QED  BY <1>4, <1>5, <1>6 DEF IInv

\* An execution past its first step ends; it may have started its chain.
LEMMA EndStep ==
  ASSUME IInv, NEW e \in Execs, exec[e].pc \in {"waiting", "quiet", "running"},
         Finish(e, executing, handle, slot), row' = [row EXCEPT ![e] = "closed"],
         LeavesQueue(e), queue' \in Seq(Execs),
         exec' \in [Execs -> Exec], exec'[e].pc = "idle",
         \A f \in Execs \ {e} : \/ exec'[f] = exec[f]
                                \/ /\ Starting(f) /\ exec'[f].origin = "chain"
                                   /\ exec'[f].task \in Tasks,
         DatabaseTyped', UNCHANGED <<user, stopped, used>>
  PROVE  IInv'
<1>1. /\ Typed /\ SlotInv /\ DispatchedOnce /\ exec[e].pc # "idle"
      /\ exec[e].task \in Tasks /\ Holding(e, slot)
  BY AliveTyped DEF IInv, Holding
<1>2. Dispatched(e) \/ Forced(e)
  BY DEF Dispatched, Live
<1>3. /\ executing' = (IF Forced(e) THEN executing ELSE executing \ {exec[e].task})
      /\ slot' = (IF slot = e THEN NoExec ELSE slot)
  BY DEF Finish
<1>4. \A f \in Execs \ {e} : Same(f) \/ (Starting(f) /\ exec'[f].origin = "chain")
  BY DEF Same
<1>5. Typed'
  <2>1. MemoryTyped'
    <3>1. /\ executing \in SUBSET Tasks /\ slot \in Execs \cup {NoExec}
          /\ handle \in [Tasks -> Execs \cup {NoExec}]
      BY <1>1 DEF Typed, TypeOK
    <3> QED  BY <1>1, <3>1, FinishTyped
  <2>2. RowTyped'
    BY <1>1 DEF Typed, TypeOK, RowTyped
  <2>3. ExecTyped'
    BY <1>1 DEF Typed, Shape, ExecTyped
  <2>4. OtherTyped'
    BY <1>1 DEF Typed, TypeOK, OtherTyped, user
  <2> QED  BY <2>1, <2>2, <2>3, <2>4, TypedPartsNext
<1>6. SlotInv'
  <2>1. \A f \in Execs \ {e} : Same(f) \/ Starting(f)
    BY <1>4
  <2> QED  BY <1>1, <1>3, <2>1, EndAccounted
<1>7. DispatchedOnce'
  <2>1. executing \subseteq executing /\ UNCHANGED stopped
    OBVIOUS
  <2> QED  BY ONLY <1>1, <1>2, <1>3, <1>4, <2>1, exec'[e].pc = "idle", e \in Execs,
              EndDispatched
<1> QED  BY <1>5, <1>6, <1>7 DEF IInv

\* An execution that ends without a chain.
LEMMA OverFacts ==
  ASSUME Typed, NEW e \in Execs, exec' = [exec EXCEPT ![e] = Idle]
  PROVE  /\ exec' \in [Execs -> Exec] /\ exec'[e].pc = "idle"
         /\ \A f \in Execs \ {e} : exec'[f] = exec[f]
BY ExecIdleTyped, IdleTyped DEF Typed, TypeOK

LEMMA CompleteStep ==
  ASSUME IInv, NEW e \in Execs, Complete(e) PROVE IInv'
<1> DEFINE t == exec[e].task
           over == [exec EXCEPT ![e] = Idle]
<1>1. /\ Typed /\ SlotInv /\ exec[e].pc = "running" /\ t \in Tasks
      /\ row' = [row EXCEPT ![e] = "closed"]
      /\ Finish(e, executing, handle, slot)
      /\ UNCHANGED <<counter, expired, queue, user, history, used>>
  BY AliveTyped DEF IInv, Complete
<1>2. /\ ComputeNext(t) \in {"none", "later"}
      /\ WrittenOnEnd(e) \in {"none", "later", "due"}
      /\ ErrorNextRun(e) \in {"none", "later", "due"}
  BY <1>1, NextRunTyped
<1>3. LeavesQueue(e) /\ queue' \in Seq(Execs)
  BY <1>1, NotQueued, SMTT(60) DEF Typed, TypeOK
<1>4. /\ status' \in [Tasks -> {"active", "paused", "completed"}]
      /\ \E v \in {"none", "later", "due"} : nextRun' = [nextRun EXCEPT ![t] = v]
      /\ \/ exec' = over
         \/ /\ Then[t] # NoTask /\ Room({Then[t]})
            /\ exec' = Spawned(over, {Then[t]}, "chain")
  <2>1. status \in [Tasks -> {"active", "paused", "completed"}]
    BY <1>1 DEF Typed, TypeOK
  <2>2. CASE \E result \in {"success", "error"}, fresh \in BOOLEAN :
             /\ nextRun' = [nextRun EXCEPT ![t] =
                   IF fresh /\ Kind[t] = "event" THEN "none" ELSE WrittenOnEnd(e)]
             /\ status' = IF Kind[t] = "once" /\ ComputeNext(t) = "none"
                          THEN [status EXCEPT ![t] = "completed"] ELSE status
             /\ IF result = "success" /\ Then[t] # NoTask /\ Then[t] \notin HasChainCycle
                THEN Room({Then[t]}) /\ exec' = Spawned(over, {Then[t]}, "chain")
                ELSE exec' = over
    <3> PICK result \in {"success", "error"}, fresh \in BOOLEAN :
             /\ nextRun' = [nextRun EXCEPT ![t] =
                   IF fresh /\ Kind[t] = "event" THEN "none" ELSE WrittenOnEnd(e)]
             /\ status' = IF Kind[t] = "once" /\ ComputeNext(t) = "none"
                          THEN [status EXCEPT ![t] = "completed"] ELSE status
             /\ IF result = "success" /\ Then[t] # NoTask /\ Then[t] \notin HasChainCycle
                THEN Room({Then[t]}) /\ exec' = Spawned(over, {Then[t]}, "chain")
                ELSE exec' = over
      BY <2>2
    <3>1. status' \in [Tasks -> {"active", "paused", "completed"}]
      BY <2>1
    <3>2. \E v \in {"none", "later", "due"} : nextRun' = [nextRun EXCEPT ![t] = v]
      BY <1>2
    <3> QED  BY <3>1, <3>2
  <2>3. CASE /\ nextRun' = [nextRun EXCEPT ![t] = WrittenOnEnd(e)]
             /\ exec' = over /\ UNCHANGED status
    BY <1>2, <2>1, <2>3
  <2>4. CASE /\ nextRun' = [nextRun EXCEPT ![t] = "later"]
             /\ exec' = over /\ UNCHANGED status
    BY <2>1, <2>4
  <2>5. CASE /\ nextRun' = [nextRun EXCEPT ![t] = ErrorNextRun(e)]
             /\ exec' = over /\ UNCHANGED status
    BY <1>2, <2>1, <2>5
  <2> QED  BY <2>2, <2>3, <2>4, <2>5 DEF Complete
<1>5. DatabaseTyped'
  BY <1>1, <1>4 DEF Typed, TypeOK, DatabaseTyped, history
<1>6. /\ exec' \in [Execs -> Exec] /\ exec'[e].pc = "idle"
      /\ \A f \in Execs \ {e} : \/ exec'[f] = exec[f]
                                \/ /\ Starting(f) /\ exec'[f].origin = "chain"
                                   /\ exec'[f].task \in Tasks
  <2>1. CASE exec' = over
    BY <1>1, <2>1, OverFacts
  <2>2. CASE /\ Then[t] # NoTask /\ Room({Then[t]})
             /\ exec' = Spawned(over, {Then[t]}, "chain")
    <3>1. {Then[t]} \in SUBSET Tasks
      BY <1>1, <2>2
    <3>2. over \in [Execs -> Exec] /\ over[e].pc = "idle"
          /\ \A f \in Execs \ {e} : over[f] = exec[f]
      BY <1>1, ExecIdleTyped, IdleTyped DEF Typed, TypeOK
    <3> DEFINE S == {Then[t]}
               after == Spawned(over, S, "chain")
    <3> HIDE DEF over
    <3>3. S \in SUBSET Tasks /\ Room(S) /\ exec' = after
      BY <2>2, <3>1 DEF over
    <3> HIDE DEF S
    <3>4. /\ exec' \in [Execs -> Exec]
          /\ \A f \in Execs :
               \/ exec'[f] = over[f]
               \/ /\ exec[f].pc = "idle" /\ exec'[f].pc = "spawned"
                  /\ exec'[f].origin = "chain" /\ exec'[f].task \in S
      BY ONLY <3>2, <3>3, SpawnedFacts,
         "chain" \in {"loop", "event", "manual", "chain", "force"}
    <3> QED  BY <1>1, <3>2, <3>3, <3>4 DEF Starting
  <2> QED  BY <1>4, <2>1, <2>2
<1> QED  BY <1>1, <1>3, <1>5, <1>6, EndStep DEF history

LEMMA CancelWaitingStep ==
  ASSUME IInv, NEW e \in Execs, CancelWaiting(e) PROVE IInv'
<1>1. /\ Typed /\ SlotInv /\ exec[e].pc \in {"waiting", "quiet"} /\ exec[e].task \in Tasks
      /\ row' = [row EXCEPT ![e] = "closed"]
      /\ nextRun' = DeferIfDue(exec[e].task)
      /\ queue' = Without(queue, e)
      /\ exec' = [exec EXCEPT ![e] = Idle]
      /\ Finish(e, executing, handle, slot)
      /\ UNCHANGED <<status, counter, expired, user, history, used>>
  BY AliveTyped DEF IInv, CancelWaiting
<1>2. LeavesQueue(e) /\ queue' \in Seq(Execs)
  BY <1>1, WithoutLeaves
<1>3. DatabaseTyped'
  BY <1>1 DEF Typed, TypeOK, DatabaseTyped, DeferIfDue, history
<1>4. /\ exec' \in [Execs -> Exec] /\ exec'[e].pc = "idle"
      /\ \A f \in Execs \ {e} : exec'[f] = exec[f]
  BY <1>1, OverFacts
<1> QED  BY <1>1, <1>2, <1>3, <1>4, EndStep DEF history

LEMMA CancelRunningStep ==
  ASSUME IInv, NEW e \in Execs, CancelRunning(e) PROVE IInv'
<1>1. /\ Typed /\ SlotInv /\ exec[e].pc = "running" /\ exec[e].task \in Tasks
      /\ row' = [row EXCEPT ![e] = "closed"]
      /\ nextRun' = [nextRun EXCEPT ![exec[e].task] =
                        IF exec[e].hit THEN "later" ELSE WrittenOnEnd(e)]
      /\ exec' = [exec EXCEPT ![e] = Idle]
      /\ Finish(e, executing, handle, slot)
      /\ UNCHANGED <<status, counter, expired, queue, user, history, used>>
  BY AliveTyped DEF IInv, CancelRunning
<1>2. LeavesQueue(e) /\ queue' \in Seq(Execs)
  BY <1>1, NotQueued DEF Typed, TypeOK
<1>3. WrittenOnEnd(e) \in {"none", "later", "due"}
  BY <1>1, NextRunTyped
<1>4. DatabaseTyped'
  BY <1>1, <1>3 DEF Typed, TypeOK, DatabaseTyped, history
<1>5. /\ exec' \in [Execs -> Exec] /\ exec'[e].pc = "idle"
      /\ \A f \in Execs \ {e} : exec'[f] = exec[f]
  BY <1>1, OverFacts
<1> QED  BY <1>1, <1>2, <1>4, <1>5, EndStep DEF history

-----------------------------------------------------------------------------
(* The steps of the loop, the routes, the user and the clock.              *)

\* A step that moves no coroutine; what it takes out of _executing it records
\* as stopped.
LEMMA StillStep ==
  ASSUME IInv, exec' \in [Execs -> Exec], \A e \in Execs : Same(e) /\ RowKept(e),
         RowTyped', DatabaseTyped', UNCHANGED <<started, handle, slot, queue>>,
         executing' \subseteq executing, executing \ executing' \subseteq stopped',
         stopped \subseteq stopped', stopped' \subseteq Tasks,
         foreground' \in BOOLEAN, stopping' \in BOOLEAN, used' \in [Inputs -> Nat]
  PROVE  IInv'
<1>1. Typed /\ SlotInv /\ DispatchedOnce
  BY DEF IInv
<1>2. Typed'
  <2>1. MemoryTyped' /\ OtherTyped'
    BY <1>1 DEF Typed, TypeOK, MemoryTyped, OtherTyped
  <2>2. ExecTyped'
    BY <1>1 DEF Typed, Shape, ExecTyped, Same
  <2> QED  BY <2>1, <2>2, TypedPartsNext
<1>3. SlotInv'
  BY <1>1, OthersAccounted
<1>4. DispatchedOnce'
  <2>1. ASSUME NEW e \in Execs, Dispatched(e)'
        PROVE  Dispatched(e) /\ exec'[e].task = exec[e].task
    BY <2>1 DEF Dispatched, Forced, Same
  <2>2. ASSUME NEW e \in Execs, Dispatched(e)', exec'[e].task \notin stopped'
        PROVE  exec'[e].task \in executing'
    BY <1>1, <2>1, <2>2 DEF DispatchedOnce
  <2> QED  BY <1>1, <2>1, <2>2, DispatchKept
<1> QED  BY <1>2, <1>3, <1>4 DEF IInv

\* New coroutines: forced ones, or those of tasks that enter _executing.
LEMMA SpawnStep ==
  ASSUME IInv, NEW S \in SUBSET Tasks,
         NEW origin \in {"loop", "event", "manual", "force"}, Spawn(S, origin),
         executing \subseteq executing', executing' \subseteq Tasks,
         origin # "force" => S \cap executing = {} /\ S \subseteq executing',
         DatabaseTyped', used' \in [Inputs -> Nat],
         UNCHANGED <<runs, handle, slot, queue, user, stopped>>
  PROVE  IInv'
<1>1. /\ Typed /\ SlotInv /\ DispatchedOnce
      /\ exec \in [Execs -> Exec] /\ Room(S) /\ exec' = Spawned(exec, S, origin)
      /\ origin \in {"loop", "event", "manual", "chain", "force"}
  BY DEF IInv, Typed, TypeOK, Spawn
<1>2. /\ exec' \in [Execs -> Exec]
      /\ \A e \in Execs :
           \/ exec'[e] = exec[e]
           \/ /\ exec[e].pc = "idle"
              /\ exec'[e].pc = "spawned" /\ exec'[e].origin = origin
              /\ exec'[e].cancelled = "no" /\ exec'[e].task \in S
      /\ \A e, f \in Execs :
           /\ exec[e].pc = "idle" /\ exec'[e] # exec[e]
           /\ exec[f].pc = "idle" /\ exec'[f] # exec[f]
           /\ exec'[e].task = exec'[f].task
           => e = f
  BY ONLY <1>1, SpawnedFacts, S \in SUBSET Tasks
<1>3. \A e \in Execs : exec'[e] = exec[e] => Same(e)
  BY DEF Same
<1>4. Typed'
  <2>1. MemoryTyped' /\ OtherTyped' /\ RowTyped'
    BY <1>1 DEF Typed, TypeOK, MemoryTyped, OtherTyped, RowTyped, runs, user
  <2>2. ExecTyped'
    BY <1>1, <1>2 DEF Typed, Shape, ExecTyped
  <2> QED  BY <2>1, <2>2, TypedPartsNext
<1>5. SlotInv'
  <2>1. \A e \in Execs : (Same(e) \/ Starting(e)) /\ RowKept(e)
    BY <1>2, <1>3 DEF Starting, RowKept, runs
  <2> QED  BY <1>1, <2>1, OthersAccounted
<1>6. DispatchedOnce'
  <2>1. ASSUME NEW e \in Execs, exec'[e] = exec[e]
        PROVE  Dispatched(e)' <=> Dispatched(e)
    BY <2>1 DEF Dispatched, Forced
  <2>2. ASSUME NEW e \in Execs, exec'[e] # exec[e], Dispatched(e)'
        PROVE  exec[e].pc = "idle" /\ exec'[e].task \in S /\ origin # "force"
    BY <1>2, <2>2 DEF Dispatched, Forced
  <2>3. ASSUME NEW e \in Execs, Dispatched(e)'
        PROVE  \/ Dispatched(e) /\ exec'[e].task = exec[e].task
               \/ /\ ~Dispatched(e) /\ exec'[e].task \notin executing
                  /\ \A f \in Execs : Dispatched(f)' /\ ~Dispatched(f)
                                      /\ exec'[f].task = exec'[e].task => f = e
    <3>1. CASE exec'[e] = exec[e]
      BY <2>1, <2>3, <3>1
    <3>2. CASE exec'[e] # exec[e]
      <4>1. exec[e].pc = "idle" /\ exec'[e].task \in S /\ exec'[e].task \notin executing
        BY <2>2, <2>3, <3>2
      <4>2. ~Dispatched(e)
        BY <4>1 DEF Dispatched, Live
      <4>3. ASSUME NEW f \in Execs, Dispatched(f)', ~Dispatched(f),
                   exec'[f].task = exec'[e].task
            PROVE  f = e
        <5>1. exec'[f] # exec[f]
          BY <2>1, <4>3
        <5>2. exec[f].pc = "idle"
          BY <2>2, <4>3, <5>1
        <5> QED  BY <1>2, <3>2, <4>1, <4>3, <5>1, <5>2
      <4> QED  BY <4>1, <4>2, <4>3
    <3> QED  BY <3>1, <3>2
  <2>4. ASSUME NEW e \in Execs, Dispatched(e)', exec'[e].task \notin stopped'
        PROVE  exec'[e].task \in executing'
    <3>1. CASE exec'[e] = exec[e]
      BY <1>1, <2>1, <2>4, <3>1 DEF DispatchedOnce
    <3>2. CASE exec'[e] # exec[e]
      BY <2>2, <2>4, <3>2
    <3> QED  BY <3>1, <3>2
  <2>5. stopped \subseteq stopped'
    OBVIOUS
  <2> QED  BY ONLY <1>1, <2>3, <2>4, <2>5, DispatchKept
<1> QED  BY <1>4, <1>5, <1>6 DEF IInv

LEMMA InterruptStep ==
  ASSUME IInv, NEW e \in Execs, Interrupt(e) PROVE IInv'
<1>1. /\ Typed /\ exec \in [Execs -> Exec] /\ exec[e] \in Exec
      /\ UNCHANGED <<database, runs, memory, user, history, used>>
      /\ exec' = [exec EXCEPT ![e].hit = TRUE,
                              ![e].cancelled = IF @ = "no" THEN "foreground" ELSE @]
  BY DEF IInv, Interrupt, Typed, TypeOK
<1>2. \E r \in Exec : /\ r.pc = exec[e].pc /\ r.task = exec[e].task
                      /\ r.origin = exec[e].origin
                      /\ exec' = [exec EXCEPT ![e] = r]
  <2> DEFINE r == [exec[e] EXCEPT !.hit = TRUE,
                     !.cancelled = IF @ = "no" THEN "foreground" ELSE @]
  <2>1. /\ r \in Exec /\ r.pc = exec[e].pc /\ r.task = exec[e].task
        /\ r.origin = exec[e].origin
    BY <1>1 DEF Exec
  <2>2. exec' = [exec EXCEPT ![e] = r]
    BY <1>1 DEF Exec
  <2> QED  BY <2>1, <2>2
<1>3. exec' \in [Execs -> Exec] /\ \A f \in Execs : Same(f) /\ RowKept(f)
  BY <1>1, <1>2 DEF Same, RowKept, runs
<1>4. RowTyped' /\ DatabaseTyped'
  BY <1>1 DEF Typed, TypeOK, RowTyped, DatabaseTyped, runs, database, history
<1>5. /\ UNCHANGED <<started, handle, slot, queue>>
      /\ executing' \subseteq executing /\ executing \ executing' \subseteq stopped'
      /\ stopped \subseteq stopped' /\ stopped' \subseteq Tasks
      /\ foreground' \in BOOLEAN /\ stopping' \in BOOLEAN /\ used' \in [Inputs -> Nat]
  BY <1>1 DEF Typed, TypeOK, runs, memory, user, history
<1> QED  BY <1>3, <1>4, <1>5, StillStep

LEMMA LoopTickStep ==
  ASSUME IInv, LoopTick PROVE IInv'
<1> DEFINE due == {t \in Tasks : status[t] = "active" /\ nextRun[t] = "due"} \ executing
<1>1. /\ Typed /\ exec \in [Execs -> Exec]
      /\ UNCHANGED <<status, counter, expired, runs, handle, slot, queue, user, history, used>>
      /\ due \in SUBSET Tasks /\ due \cap executing = {}
  BY DEF IInv, LoopTick, Typed, TypeOK
<1>2. CASE /\ nextRun' = [t \in Tasks |-> IF t \in due THEN "later" ELSE nextRun[t]]
           /\ UNCHANGED <<executing, exec>>
  <2>1. exec' \in [Execs -> Exec] /\ \A f \in Execs : Same(f) /\ RowKept(f)
    BY <1>1, <1>2 DEF Same, RowKept, runs
  <2>2. RowTyped' /\ DatabaseTyped'
    <3> HIDE DEF due
    <3> QED  BY <1>1, <1>2 DEF Typed, TypeOK, RowTyped, DatabaseTyped, runs, history
  <2>3. /\ UNCHANGED <<started, handle, slot, queue>>
        /\ executing' \subseteq executing /\ executing \ executing' \subseteq stopped'
        /\ stopped \subseteq stopped' /\ stopped' \subseteq Tasks
        /\ foreground' \in BOOLEAN /\ stopping' \in BOOLEAN /\ used' \in [Inputs -> Nat]
    BY <1>1, <1>2 DEF Typed, TypeOK, runs, user, history
  <2> QED  BY <2>1, <2>2, <2>3, StillStep
<1>3. CASE /\ executing' = executing \cup due
           /\ Spawn(due, "loop")
           /\ UNCHANGED nextRun
  <2>1. DatabaseTyped' /\ used' \in [Inputs -> Nat]
    BY <1>1, <1>3 DEF Typed, TypeOK, DatabaseTyped, history
  <2>2. /\ executing \subseteq executing' /\ executing' \subseteq Tasks
        /\ due \subseteq executing'
        /\ UNCHANGED <<runs, handle, slot, queue, user, stopped>>
    BY <1>1, <1>3 DEF Typed, TypeOK, history
  <2> HIDE DEF due
  <2> QED  BY <1>1, <1>3, <2>1, <2>2, SpawnStep
<1> QED  BY <1>2, <1>3 DEF LoopTick

LEMMA HandleEventStep ==
  ASSUME IInv, HandleEvent PROVE IInv'
<1> DEFINE heard == {t \in EventTasks : status[t] = "active"}
           fired == {t \in heard : counter[t] + 1 >= Threshold}
           S == fired \ executing
<1>1. /\ Typed /\ exec \in [Execs -> Exec]
      /\ Spend("event") /\ Spawn(S, "event")
      /\ counter' = [t \in Tasks |-> IF t \in heard THEN Counted(t) ELSE counter[t]]
      /\ nextRun' = [t \in Tasks |-> IF t \in fired THEN "due" ELSE nextRun[t]]
      /\ executing' = executing \cup fired
      /\ owed' = owed \cup S
      /\ UNCHANGED <<status, expired, runs, handle, slot, queue, user, stopped>>
      /\ S \in SUBSET Tasks /\ S \cap executing = {} /\ S \subseteq EventTasks
      /\ fired \subseteq Tasks
  BY DEF IInv, HandleEvent, Typed, TypeOK, EventTasks
<1>2. used' \in [Inputs -> Nat]
  BY <1>1, SpendTyped DEF Inputs
<1>3. \A t \in Tasks : Counted(t) \in 0 .. Threshold - 1
  BY <1>1 DEF Typed, TypeOK, Counted
<1> HIDE DEF heard, fired, S
<1>4. DatabaseTyped'
  BY <1>1, <1>3 DEF Typed, TypeOK, DatabaseTyped
<1>5. /\ executing \subseteq executing' /\ executing' \subseteq Tasks
      /\ S \subseteq executing'
  BY <1>1 DEF Typed, TypeOK, S
<1> QED  BY <1>1, <1>2, <1>4, <1>5, SpawnStep

LEMMA RunTaskNowStep ==
  ASSUME IInv, NEW t \in Tasks, RunTaskNow(t) PROVE IInv'
<1>1. /\ Typed /\ Spend("manual") /\ t \notin executing
      /\ executing' = executing \cup {t} /\ Spawn({t}, "manual")
      /\ UNCHANGED <<database, runs, handle, slot, queue, user, history>>
  BY DEF IInv, RunTaskNow
<1>2. used' \in [Inputs -> Nat] /\ DatabaseTyped'
  BY <1>1, SpendTyped DEF Inputs, Typed, TypeOK, DatabaseTyped, database, history
<1>3. /\ executing \subseteq executing' /\ executing' \subseteq Tasks
      /\ {t} \in SUBSET Tasks /\ {t} \cap executing = {} /\ {t} \subseteq executing'
      /\ UNCHANGED stopped
  BY <1>1 DEF Typed, TypeOK, history
<1> QED  BY <1>1, <1>2, <1>3, SpawnStep

LEMMA ForceTaskNowStep ==
  ASSUME IInv, NEW t \in Tasks, ForceTaskNow(t) PROVE IInv'
<1>1. /\ Typed /\ Spend("force") /\ Spawn({t}, "force")
      /\ UNCHANGED <<database, runs, memory, user, history>>
  BY DEF IInv, ForceTaskNow
<1>2. used' \in [Inputs -> Nat] /\ DatabaseTyped'
  BY <1>1, SpendTyped DEF Inputs, Typed, TypeOK, DatabaseTyped, database, history
<1>3. /\ executing \subseteq executing' /\ executing' \subseteq Tasks
      /\ {t} \in SUBSET Tasks
      /\ UNCHANGED <<handle, slot, queue, stopped>>
  BY <1>1 DEF Typed, TypeOK, history, memory
<1> QED  BY <1>1, <1>2, <1>3, SpawnStep

\* handle.cancel() and _mark_run_aborted leave every coroutine where it is.
LEMMA CancelAndAbort ==
  ASSUME Typed, NEW S, NEW cause \in {"user", "foreground"},
         CancelHandles(S, cause), AbortLatest(S)
  PROVE  /\ exec' \in [Execs -> Exec] /\ RowTyped'
         /\ \A e \in Execs : Same(e) /\ RowKept(e)
<1>1. \E latest : row' = [e \in Execs |-> IF e \in latest THEN "aborted" ELSE row[e]]
  BY DEF AbortLatest
<1>2. RowTyped' /\ \A e \in Execs : RowKept(e)
  BY <1>1 DEF Typed, TypeOK, RowTyped, RowKept
<1>3. ASSUME NEW e \in Execs
      PROVE  exec'[e] \in Exec /\ Same(e)
  <2>1. exec[e] \in Exec /\ exec'[e] \in {exec[e], [exec[e] EXCEPT !.cancelled = cause]}
    BY DEF Typed, TypeOK, CancelHandles
  <2> QED  BY <2>1 DEF Exec, Same
<1>4. exec' \in [Execs -> Exec]
  BY <1>3 DEF CancelHandles
<1> QED  BY <1>2, <1>3, <1>4

LEMMA StopTaskStep ==
  ASSUME IInv, NEW t \in Tasks, StopTask(t) PROVE IInv'
<1>1. /\ Typed /\ Spend("stop") /\ CancelHandles({t}, "user") /\ AbortLatest({t})
      /\ executing' = executing \ {t}
      /\ stopped' = IF t \in executing THEN stopped \cup {t} ELSE stopped
      /\ UNCHANGED <<database, started, handle, slot, queue, user, owed>>
  BY DEF IInv, StopTask
<1>2. /\ exec' \in [Execs -> Exec] /\ RowTyped'
      /\ \A e \in Execs : Same(e) /\ RowKept(e)
  BY <1>1, CancelAndAbort
<1>3. used' \in [Inputs -> Nat] /\ DatabaseTyped'
  BY <1>1, SpendTyped DEF Inputs, Typed, TypeOK, DatabaseTyped, database
<1>4. /\ executing' \subseteq executing /\ executing \ executing' \subseteq stopped'
      /\ stopped \subseteq stopped' /\ stopped' \subseteq Tasks
      /\ foreground' \in BOOLEAN /\ stopping' \in BOOLEAN
  BY <1>1 DEF Typed, TypeOK, user
<1> QED  BY <1>1, <1>2, <1>3, <1>4, StillStep

LEMMA StopBackgroundTasksStep ==
  ASSUME IInv, StopBackgroundTasks PROVE IInv'
<1>1. /\ Typed /\ CancelHandles(executing, "foreground") /\ AbortLatest(executing)
      /\ stopping' = FALSE
      /\ UNCHANGED <<database, started, memory, foreground, history, used>>
  BY DEF IInv, StopBackgroundTasks
<1>2. /\ exec' \in [Execs -> Exec] /\ RowTyped'
      /\ \A e \in Execs : Same(e) /\ RowKept(e)
  BY <1>1, CancelAndAbort
<1>3. /\ DatabaseTyped' /\ UNCHANGED <<started, handle, slot, queue>>
      /\ executing' \subseteq executing /\ executing \ executing' \subseteq stopped'
      /\ stopped \subseteq stopped' /\ stopped' \subseteq Tasks
      /\ foreground' \in BOOLEAN /\ stopping' \in BOOLEAN /\ used' \in [Inputs -> Nat]
  BY <1>1 DEF Typed, TypeOK, DatabaseTyped, database, memory, history
<1> QED  BY <1>2, <1>3, StillStep

\* Steps of the database and of the user alone.
LEMMA OutsideStep ==
  ASSUME IInv, DatabaseTyped', UNCHANGED <<runs, memory, exec, stopped>>,
         foreground' \in BOOLEAN, stopping' \in BOOLEAN, used' \in [Inputs -> Nat]
  PROVE  IInv'
<1>1. Typed
  BY DEF IInv
<1>2. /\ exec' \in [Execs -> Exec] /\ RowTyped'
      /\ \A e \in Execs : Same(e) /\ RowKept(e)
  BY <1>1 DEF Typed, TypeOK, RowTyped, Same, RowKept, runs
<1>3. /\ UNCHANGED <<started, handle, slot, queue>>
      /\ executing' \subseteq executing /\ executing \ executing' \subseteq stopped'
      /\ stopped \subseteq stopped' /\ stopped' \subseteq Tasks
  BY <1>1 DEF Typed, TypeOK, runs, memory
<1> QED  BY <1>2, <1>3, StillStep

LEMMA TaskRowStep ==
  ASSUME IInv, NEW t \in Tasks, TimePasses(t) \/ PauseTask(t) \/ ResumeTask(t)
  PROVE  IInv'
<1>1. Typed
  BY DEF IInv
<1>2. CASE TimePasses(t)
  <2>1. DatabaseTyped'
    BY <1>1, <1>2 DEF TimePasses, Typed, TypeOK, DatabaseTyped, history
  <2> QED  BY <1>1, <1>2, <2>1, OutsideStep DEF TimePasses, Typed, TypeOK, user, history
<1>3. CASE PauseTask(t)
  <2>1. DatabaseTyped'
    BY <1>1, <1>3 DEF PauseTask, Typed, TypeOK, DatabaseTyped, history
  <2>2. used' \in [Inputs -> Nat]
    BY <1>1, <1>3, SpendTyped DEF PauseTask, Inputs
  <2> QED  BY <1>1, <1>3, <2>1, <2>2, OutsideStep DEF PauseTask, Typed, TypeOK, user, history
<1>4. CASE ResumeTask(t)
  <2>1. DatabaseTyped'
    BY <1>1, <1>4 DEF ResumeTask, ComputeNext, Typed, TypeOK, DatabaseTyped, history
  <2> QED  BY <1>1, <1>4, <2>1, OutsideStep DEF ResumeTask, Typed, TypeOK, user, history
<1> QED  BY <1>2, <1>3, <1>4

\* start(): nothing is in memory, so nothing can be missing from it.
LEMMA EmptyMemory ==
  ASSUME exec \in [Execs -> {Idle}], queue = <<>>, slot = NoExec,
         row \in [Execs -> {"closed"}]
  PROVE  Shape /\ SlotInv /\ DispatchedOnce
<1>1. \A e \in Execs : exec[e].pc = "idle" /\ row[e] = "closed" /\ slot # e
  BY IdleTyped
<1>2. SlotInv
  BY <1>1 DEF SlotInv, QueuedOnce, Accounted, InQueue
<1> QED  BY <1>1, <1>2 DEF Shape, DispatchedOnce, Dispatched, Live

LEMMA InitStep == Init => IInv
<1> SUFFICES ASSUME Init PROVE IInv
  OBVIOUS
<1>1. TypeOK
  <2>1. DatabaseTyped /\ RowTyped
    BY DEF Init, DatabaseTyped, RowTyped, EventTasks
  <2>2. MemoryTyped /\ OtherTyped
    <3>1. <<>> \in Seq(Execs)
      OBVIOUS
    <3> QED  BY <3>1 DEF Init, MemoryTyped, OtherTyped
  <2>3. exec \in [Execs -> Exec]
    BY IdleTyped DEF Init
  <2> QED  BY <2>1, <2>2, <2>3
           DEF TypeOK, DatabaseTyped, MemoryTyped, RowTyped, OtherTyped
<1>2. Shape /\ SlotInv /\ DispatchedOnce
  BY EmptyMemory DEF Init
<1> QED  BY <1>1, <1>2 DEF IInv, Typed

LEMMA RestartStep ==
  ASSUME IInv, Restart PROVE IInv'
<1>1. used' \in [Inputs -> Nat]
  BY SpendTyped DEF IInv, Restart, Inputs
<1>2. TypeOK'
  <2>1. DatabaseTyped' /\ RowTyped'
    BY DEF IInv, Typed, TypeOK, Restart, DatabaseTyped, RowTyped
  <2>2. MemoryTyped' /\ OtherTyped'
    <3>1. <<>> \in Seq(Execs)
      OBVIOUS
    <3> QED  BY <1>1, <3>1 DEF Restart, MemoryTyped, OtherTyped
  <2>3. (exec \in [Execs -> Exec])'
    BY IdleTyped DEF Restart
  <2> QED  BY <2>1, <2>2, <2>3
           DEF TypeOK, DatabaseTyped, MemoryTyped, RowTyped, OtherTyped
<1>3. /\ exec' \in [Execs -> {Idle}] /\ queue' = <<>> /\ slot' = NoExec
      /\ row' \in [Execs -> {"closed"}]
  BY DEF Restart
<1>4. \A e \in Execs : exec'[e].pc = "idle" /\ row'[e] = "closed" /\ slot' # e
  BY <1>3, IdleTyped
<1>5. SlotInv'
  BY <1>3, <1>4 DEF SlotInv, QueuedOnce, Accounted, InQueue
<1> QED  BY <1>2, <1>4, <1>5 DEF IInv, Typed, Shape, DispatchedOnce, Dispatched, Live

LEMMA NextStep == IInv /\ [Next]_vars => IInv'
<1> SUFFICES ASSUME IInv, [Next]_vars PROVE IInv'
  OBVIOUS
<1>1. CASE UNCHANGED vars
  <2>1. /\ UNCHANGED <<status, nextRun, counter, expired, row, started, executing,
                       handle, slot, queue, exec, foreground, stopping, owed, stopped, used>>
    BY <1>1 DEF vars, database, runs, memory, user, history
  <2>2. DatabaseTyped' /\ UNCHANGED <<runs, memory, exec, stopped>>
    BY <2>1 DEF IInv, Typed, TypeOK, DatabaseTyped, runs, memory
  <2>3. foreground' \in BOOLEAN /\ stopping' \in BOOLEAN /\ used' \in [Inputs -> Nat]
    BY <2>1 DEF IInv, Typed, TypeOK
  <2> QED  BY <2>2, <2>3, OutsideStep
<1>2. ASSUME NEW e \in Execs,
             \/ Begin(e) \/ Acquire(e) \/ StartRun(e) \/ Complete(e)
             \/ CancelWaiting(e) \/ CancelRunning(e) \/ Interrupt(e)
      PROVE  IInv'
  BY <1>2, BeginStep, AcquireStep, StartRunStep, CompleteStep, CancelWaitingStep,
     CancelRunningStep, InterruptStep
<1>3. ASSUME NEW t \in Tasks, RunTaskNow(t) \/ ForceTaskNow(t) \/ StopTask(t)
      PROVE  IInv'
  BY <1>3, RunTaskNowStep, ForceTaskNowStep, StopTaskStep
<1>4. ASSUME NEW t \in Tasks, TimePasses(t) \/ PauseTask(t) \/ ResumeTask(t)
      PROVE  IInv'
  BY <1>4, TaskRowStep
<1>5. CASE ForegroundBegins
  <2>1. DatabaseTyped' /\ used' \in [Inputs -> Nat]
    BY <1>5, SpendTyped
    DEF ForegroundBegins, Inputs, IInv, Typed, TypeOK, DatabaseTyped, database, history
  <2> QED  BY <1>5, <2>1, OutsideStep DEF ForegroundBegins, history
<1>6. CASE ForegroundEnds
  <2>1. DatabaseTyped' /\ used' \in [Inputs -> Nat] /\ stopping' \in BOOLEAN
    BY <1>6 DEF ForegroundEnds, IInv, Typed, TypeOK, DatabaseTyped, database, history
  <2> QED  BY <1>6, <2>1, OutsideStep DEF ForegroundEnds, history
<1>7. CASE LoopTick \/ HandleEvent \/ StopBackgroundTasks \/ Restart
  BY <1>7, LoopTickStep, HandleEventStep, StopBackgroundTasksStep, RestartStep
<1> QED  BY <1>1, <1>2, <1>3, <1>4, <1>5, <1>6, <1>7 DEF Next

-----------------------------------------------------------------------------
(* What follows for every behaviour.                                       *)

\* The inductive invariant of the scheduler: types, what the slot, its queue and
\* the run rows say of every coroutine, and the guards of _executing.
THEOREM SchedulerInv == Spec => []IInv
<1>1. Init => IInv
  BY InitStep
<1>2. IInv /\ [Next]_vars => IInv'
  BY NextStep
<1> QED  BY <1>1, <1>2, PTL DEF Spec

\* Every variable of the scheduler keeps its type, and the trigger counter of an
\* event task stays below its threshold.
THEOREM TypesHold == Spec => []TypeOK
<1>1. IInv => TypeOK
  BY DEF IInv, Typed
<1> QED  BY <1>1, SchedulerInv, PTL

\* A task nobody stopped is dispatched at most once, whatever the loop, the
\* manual trigger, the events and the chains do, and _executing has it as long
\* as its execution lives.
THEOREM NoDoubleEntry == Spec => []DispatchedOnce
<1>1. IInv => DispatchedOnce
  BY DEF IInv
<1> QED  BY <1>1, SchedulerInv, PTL

\* However an execution ends, at whichever await it is cancelled, its semaphore
\* slot, its place in the queue and its run row do not outlive it.
THEOREM NothingLeaks == Spec => []NothingLeaked
<1>1. ASSUME IInv PROVE NothingLeaked
  <2>1. /\ slot \in Execs \cup {NoExec} /\ QueuedOnce
        /\ \A e \in Execs : Accounted(e)
    BY <1>1 DEF IInv, Typed, TypeOK, SlotInv
  <2>2. slot # NoExec => exec[slot].pc \in {"quiet", "running"} /\ NeedsSlot(slot)
    BY <2>1 DEF Accounted
  <2>3. ASSUME NEW e \in Execs
        PROVE  Cardinality({i \in DOMAIN queue : queue[i] = e}) =
                   IF exec[e].pc = "waiting" THEN 1 ELSE 0
    <3> DEFINE places == {i \in DOMAIN queue : queue[i] = e}
    <3>1. CASE exec[e].pc = "waiting"
      <4>1. PICK i \in DOMAIN queue : queue[i] = e
        BY <2>1, <3>1 DEF Accounted, InQueue
      <4>2. places = {i}
        BY <2>1, <4>1 DEF QueuedOnce
      <4> HIDE DEF places
      <4>3. Cardinality(places) = 1
        BY <4>2, FS_Singleton
      <4> QED  BY <3>1, <4>3 DEF places
    <3>2. CASE exec[e].pc # "waiting"
      <4>1. places = {}
        BY <2>1, <3>2 DEF Accounted, InQueue
      <4> HIDE DEF places
      <4>2. Cardinality(places) = 0
        BY <4>1, FS_EmptySet
      <4> QED  BY <3>2, <4>2 DEF places
    <3> QED  BY <3>1, <3>2
  <2>4. \A e \in Execs : NeedsSlot(e) /\ exec[e].pc \in {"quiet", "running"} => slot = e
    BY <2>1 DEF Accounted
  <2>5. NoPhantomRuns
    BY <2>1 DEF Accounted, NoPhantomRuns, Live
  <2> QED  BY <2>2, <2>3, <2>4, <2>5 DEF NothingLeaked, SlotAccounted
<1> QED  BY <1>1, SchedulerInv, PTL

-----------------------------------------------------------------------------
(* The triggers of the event tasks.                                        *)

\* Nobody has taken a task out of _executing or forced a run: with either, two
\* executions of one task overlap, and the end of one takes back the next_run
\* that the trigger of the other stored.
Undisturbed == stopped = {} /\ \A e \in Execs : ~Forced(e)

\* An accepted trigger has a next_run, and no execution that runs will write
\* one for the same task.
TriggerInv ==
  /\ AcceptedTriggerKept
  /\ \A e \in Execs : exec[e].pc = "running" => exec[e].task \notin owed

\* A step that ends no running execution and pauses nothing: no next_run of an
\* owed task becomes none and no execution begins to run for one.
LEMMA TriggerStill ==
  ASSUME TriggerInv, owed' \subseteq owed,
         \A t \in owed' : nextRun[t] # "none" => nextRun'[t] # "none",
         \A e \in Execs : exec'[e].pc = "running" =>
            exec'[e].task \notin owed' \/ (exec[e].pc = "running" /\ exec'[e].task = exec[e].task)
  PROVE  TriggerInv'
BY DEF TriggerInv, AcceptedTriggerKept

\* The end of an execution writes the next_run of its own task only.
LEMMA TriggerEnd ==
  ASSUME Typed, TriggerInv, NEW e \in Execs, exec[e].pc = "running", UNCHANGED owed,
         NEW v, nextRun' = [nextRun EXCEPT ![exec[e].task] = v],
         \A f \in Execs : exec'[f].pc = "running" => exec'[f] = exec[f]
  PROVE  TriggerInv'
<1>1. exec[e].task \notin owed
  BY DEF TriggerInv
<1>2. \A t \in owed' : nextRun[t] # "none" => nextRun'[t] # "none"
  BY <1>1 DEF Typed, TypeOK
<1> QED  BY <1>2, TriggerStill

LEMMA TriggerProceed ==
  ASSUME Typed, TriggerInv, NEW e \in Execs, exec[e].pc # "idle", ~Forced(e),
         NEW rowNow, NEW members, NEW handles, NEW holder,
         Proceed(e, rowNow, members, handles, holder)
  PROVE  TriggerInv'
<1> DEFINE t == exec[e].task
<1>1. t \in Tasks /\ exec \in [Execs -> Exec] /\ exec[e] \in Exec
      /\ nextRun \in [Tasks -> {"none", "later", "due"}] /\ owed \subseteq Tasks
  BY AliveTyped DEF Typed, TypeOK, EventTasks
<1>2. CASE exec' = [exec EXCEPT ![e] = Idle] /\ UNCHANGED <<database, owed>>
  <2>1. \A f \in Execs : exec'[f].pc = "running" => exec'[f] = exec[f]
    BY <1>1, <1>2, IdleTyped
  <2>2. UNCHANGED <<nextRun, owed>>
    BY <1>2 DEF database
  <2> QED  BY <2>1, <2>2, TriggerStill
<1>3. CASE /\ nextRun' = [nextRun EXCEPT ![t] = "none"]
           /\ owed' = owed \ {t}
           /\ exec' = [exec EXCEPT ![e] = Idle]
  <2>1. \A f \in Execs : exec'[f].pc = "running" => exec'[f] = exec[f]
    BY <1>1, <1>3, IdleTyped
  <2>2. \A u \in owed' : nextRun'[u] = nextRun[u]
    BY <1>1, <1>3
  <2> QED  BY <1>3, <2>1, <2>2, TriggerStill
<1>4. CASE exec' = [exec EXCEPT ![e].pc = "quiet"] /\ UNCHANGED <<database, owed>>
  <2>1. \A f \in Execs : exec'[f].pc = "running" => exec'[f] = exec[f]
    BY <1>1, <1>4 DEF Exec
  <2>2. UNCHANGED <<nextRun, owed>>
    BY <1>4 DEF database
  <2> QED  BY <2>1, <2>2, TriggerStill
<1>5. Forced(e) \in BOOLEAN
  BY DEF Forced
<1> QED  BY <1>2, <1>3, <1>4, <1>5 DEF Proceed

LEMMA TriggerCoroutine ==
  ASSUME IInv, TriggerInv, Undisturbed, NEW e \in Execs,
         \/ Begin(e) \/ Acquire(e) \/ StartRun(e) \/ Complete(e)
         \/ CancelWaiting(e) \/ CancelRunning(e) \/ Interrupt(e)
  PROVE  TriggerInv'
<1>1. /\ Typed /\ ~Forced(e) /\ exec \in [Execs -> Exec] /\ exec[e] \in Exec
      /\ nextRun \in [Tasks -> {"none", "later", "due"}] /\ owed \subseteq Tasks
  BY DEF IInv, Undisturbed, Typed, TypeOK, EventTasks
<1>2. CASE Begin(e)
  <2>1. exec[e].pc = "spawned"
    BY <1>2 DEF Begin
  <2>2. CASE exec' = [exec EXCEPT ![e] = Idle] /\ UNCHANGED <<database, owed>>
    <3>1. \A f \in Execs : exec'[f].pc = "running" => exec'[f] = exec[f]
      BY <1>1, <2>2, IdleTyped
    <3> QED  BY <2>2, <3>1, TriggerStill DEF database
  <2>3. CASE exec' = [exec EXCEPT ![e].pc = "waiting"] /\ UNCHANGED <<database, owed>>
    <3>1. \A f \in Execs : exec'[f].pc = "running" => exec'[f] = exec[f]
      BY <1>1, <2>3 DEF Exec
    <3> QED  BY <2>3, <3>1, TriggerStill DEF database
  <2>4. CASE \E members, handles, holder : Proceed(e, "queued", members, handles, holder)
    BY <1>1, <2>1, <2>4, TriggerProceed
  <2> QED  BY <1>2, <2>2, <2>3, <2>4 DEF Begin
<1>3. CASE Acquire(e)
  BY <1>1, <1>3, TriggerProceed DEF Acquire
<1>4. CASE StartRun(e)
  <2>1. /\ owed' = owed \ {exec[e].task} /\ UNCHANGED nextRun
        /\ exec' = [exec EXCEPT ![e].pc = "running",
                                ![e].seen = nextRun[exec[e].task] # "none"]
    BY <1>4 DEF StartRun, database
  <2>2. \A f \in Execs \ {e} : exec'[f] = exec[f]
    BY <1>1, <2>1
  <2>3. exec'[e].task = exec[e].task
    BY <1>1, <2>1 DEF Exec
  <2>4. \A f \in Execs : exec'[f].pc = "running" =>
            exec'[f].task \notin owed' \/ (exec[f].pc = "running" /\ exec'[f].task = exec[f].task)
    <3>1. exec'[e].task \notin owed'
      BY ONLY <2>1, <2>3
    <3>2. ASSUME NEW f \in Execs \ {e}, exec'[f].pc = "running"
          PROVE  exec[f].pc = "running" /\ exec'[f].task = exec[f].task
      BY ONLY <2>2, <3>2
    <3> QED  BY ONLY <3>1, <3>2
  <2>5. owed' \subseteq owed /\ \A t \in owed' : nextRun[t] # "none" => nextRun'[t] # "none"
    BY <2>1
  <2> QED  BY <2>4, <2>5, TriggerStill
<1>5. CASE Complete(e)
  <2>1. exec[e].pc = "running" /\ UNCHANGED owed
    BY <1>5 DEF Complete, history
  <2>2. \E v : nextRun' = [nextRun EXCEPT ![exec[e].task] = v]
    BY <1>5 DEF Complete
  <2>3. \A f \in Execs : exec'[f].pc = "running" => exec'[f] = exec[f]
    <3> DEFINE over == [exec EXCEPT ![e] = Idle]
    <3>1. over \in [Execs -> Exec]
          /\ \A f \in Execs : over[f].pc = "running" => over[f] = exec[f]
      BY <1>1, IdleTyped
    <3>2. CASE exec' = over
      BY <3>1, <3>2
    <3>3. CASE \E t \in Tasks : Room({t}) /\ exec' = Spawned(over, {t}, "chain")
      <4>1. PICK t \in Tasks : Room({t}) /\ exec' = Spawned(over, {t}, "chain")
        BY <3>3
      <4> DEFINE S == {t}
                 after == Spawned(over, S, "chain")
      <4>2. S \in SUBSET Tasks /\ Room(S) /\ exec' = after
        BY <4>1
      <4> HIDE DEF over, S
      <4>3. \A f \in Execs : exec'[f] = over[f] \/ exec'[f].pc = "spawned"
        BY ONLY <3>1, <4>2, SpawnedFacts,
           "chain" \in {"loop", "event", "manual", "chain", "force"}
      <4> QED  BY <3>1, <4>3
    <3>4. Then[exec[e].task] # NoTask => Then[exec[e].task] \in Tasks
      BY <1>1, <2>1, AliveTyped
    <3> QED  BY <1>5, <3>2, <3>3, <3>4 DEF Complete
  <2> QED  BY <1>1, <2>1, <2>2, <2>3, TriggerEnd
<1>6. CASE CancelWaiting(e)
  <2>1. /\ nextRun' = DeferIfDue(exec[e].task) /\ UNCHANGED owed
        /\ exec' = [exec EXCEPT ![e] = Idle]
    BY <1>6 DEF CancelWaiting, history
  <2>2. \A t \in owed : nextRun[t] # "none" => nextRun'[t] # "none"
    BY <1>1, <2>1 DEF DeferIfDue
  <2> QED  BY <1>1, <2>1, <2>2, IdleTyped, TriggerStill
<1>7. CASE CancelRunning(e)
  <2>1. /\ exec[e].pc = "running" /\ UNCHANGED owed
        /\ \E v : nextRun' = [nextRun EXCEPT ![exec[e].task] = v]
        /\ exec' = [exec EXCEPT ![e] = Idle]
    BY <1>7 DEF CancelRunning, history
  <2>2. \A f \in Execs : exec'[f].pc = "running" => exec'[f] = exec[f]
    BY <1>1, <2>1, IdleTyped
  <2> QED  BY <1>1, <2>1, <2>2, TriggerEnd
<1>8. CASE Interrupt(e)
  <2>1. /\ UNCHANGED <<nextRun, owed>>
        /\ exec' = [exec EXCEPT ![e].hit = TRUE,
                                ![e].cancelled = IF @ = "no" THEN "foreground" ELSE @]
    BY <1>8 DEF Interrupt, database, history
  <2>2. \A f \in Execs : exec'[f].pc = exec[f].pc /\ exec'[f].task = exec[f].task
    <3>1. \A f \in Execs \ {e} : exec'[f] = exec[f]
      BY <1>1, <2>1
    <3>2. exec'[e].pc = exec[e].pc /\ exec'[e].task = exec[e].task
      BY <1>1, <2>1 DEF Exec
    <3> QED  BY <3>1, <3>2
  <2> QED  BY <2>1, <2>2, TriggerStill
<1> QED  BY <1>2, <1>3, <1>4, <1>5, <1>6, <1>7, <1>8

\* New coroutines do not run yet.
LEMMA TriggerSpawn ==
  ASSUME Typed, NEW S \in SUBSET Tasks,
         NEW origin \in {"loop", "event", "manual", "force"}, Spawn(S, origin)
  PROVE  \A f \in Execs : exec'[f].pc = "running" => exec'[f] = exec[f]
<1>1. /\ exec \in [Execs -> Exec] /\ Room(S) /\ exec' = Spawned(exec, S, origin)
      /\ origin \in {"loop", "event", "manual", "chain", "force"}
  BY DEF Typed, TypeOK, Spawn
<1>2. \A f \in Execs : exec'[f] = exec[f] \/ exec'[f].pc = "spawned"
  BY ONLY <1>1, SpawnedFacts, S \in SUBSET Tasks
<1> QED  BY <1>2

\* An event that reaches the threshold of a task stores next_run; a task that
\* runs is in _executing, so its trigger is refused and not owed.
LEMMA TriggerEvent ==
  ASSUME IInv, TriggerInv, Undisturbed, HandleEvent PROVE TriggerInv'
<1> DEFINE heard == {t \in EventTasks : status[t] = "active"}
           fired == {t \in heard : counter[t] + 1 >= Threshold}
           S == fired \ executing
<1>1. /\ Typed /\ DispatchedOnce
      /\ Spawn(S, "event") /\ S \in SUBSET Tasks /\ fired \subseteq Tasks
      /\ nextRun' = [t \in Tasks |-> IF t \in fired THEN "due" ELSE nextRun[t]]
      /\ owed' = owed \cup S /\ owed \subseteq Tasks
  BY DEF IInv, HandleEvent, Typed, TypeOK, EventTasks
<1>2. \A f \in Execs : exec'[f].pc = "running" => exec'[f] = exec[f]
  BY <1>1, TriggerSpawn
<1>3. S \subseteq fired /\ S \cap executing = {}
  OBVIOUS
<1> HIDE DEF heard, fired, S
<1>4. AcceptedTriggerKept'
  BY <1>1, <1>3 DEF TriggerInv, AcceptedTriggerKept
<1>5. ASSUME NEW e \in Execs, exec'[e].pc = "running"
      PROVE  exec'[e].task \notin owed'
  <2>1. exec'[e] = exec[e] /\ exec[e].pc = "running"
    BY <1>2, <1>5
  <2>2. Dispatched(e) /\ exec[e].task \notin stopped
    BY <2>1 DEF Dispatched, Live, Undisturbed
  <2>3. exec[e].task \in executing
    BY <1>1, <2>2 DEF DispatchedOnce
  <2> QED  BY <1>1, <1>3, <2>1, <2>3 DEF TriggerInv
<1> QED  BY <1>4, <1>5 DEF TriggerInv

LEMMA TriggerTask ==
  ASSUME IInv, TriggerInv, NEW t \in Tasks,
         \/ RunTaskNow(t) \/ ForceTaskNow(t) \/ StopTask(t)
         \/ TimePasses(t) \/ PauseTask(t) \/ ResumeTask(t)
  PROVE  TriggerInv'
<1>1. /\ Typed /\ owed \subseteq EventTasks
      /\ nextRun \in [Tasks -> {"none", "later", "due"}] /\ EventTasks \subseteq Tasks
  BY DEF IInv, Typed, TypeOK, EventTasks
<1>2. CASE RunTaskNow(t) \/ ForceTaskNow(t)
  <2>1. UNCHANGED <<nextRun, owed>> /\ (Spawn({t}, "manual") \/ Spawn({t}, "force"))
    BY <1>2 DEF RunTaskNow, ForceTaskNow, database, history
  <2>2. \A f \in Execs : exec'[f].pc = "running" => exec'[f] = exec[f]
    BY <1>1, <2>1, TriggerSpawn
  <2> QED  BY <2>1, <2>2, TriggerStill
<1>3. CASE StopTask(t)
  <2>1. /\ UNCHANGED <<nextRun, owed>> /\ CancelHandles({t}, "user") /\ AbortLatest({t})
    BY <1>3 DEF StopTask, database
  <2>2. \A f \in Execs : Same(f)
    BY <1>1, <2>1, CancelAndAbort
  <2> QED  BY <2>1, <2>2, TriggerStill DEF Same
<1>4. CASE TimePasses(t)
  <2>1. /\ nextRun' = [nextRun EXCEPT ![t] = "due"] /\ UNCHANGED <<exec, owed>>
    BY <1>4 DEF TimePasses, history
  <2>2. \A u \in owed : nextRun[u] # "none" => nextRun'[u] # "none"
    BY <1>1, <2>1
  <2> QED  BY <2>1, <2>2, TriggerStill
<1>5. CASE PauseTask(t)
  BY <1>5, TriggerStill DEF PauseTask, history
<1>6. CASE ResumeTask(t)
  <2>1. UNCHANGED <<exec, owed>> /\ \A u \in owed : nextRun'[u] = nextRun[u]
    BY <1>1, <1>6 DEF ResumeTask, history, EventTasks
  <2> QED  BY <2>1, TriggerStill
<1> QED  BY <1>2, <1>3, <1>4, <1>5, <1>6

LEMMA TriggerLoop ==
  ASSUME IInv, TriggerInv,
         \/ LoopTick \/ ForegroundBegins \/ ForegroundEnds
         \/ StopBackgroundTasks \/ Restart
  PROVE  TriggerInv'
<1>1. /\ Typed /\ owed \subseteq Tasks /\ exec \in [Execs -> Exec]
      /\ nextRun \in [Tasks -> {"none", "later", "due"}]
  BY DEF IInv, Typed, TypeOK, EventTasks
<1>2. CASE LoopTick
  <2> DEFINE due == {t \in Tasks : status[t] = "active" /\ nextRun[t] = "due"} \ executing
  <2>1. UNCHANGED owed
    BY <1>2 DEF LoopTick, history
  <2>2. \A t \in owed : nextRun[t] # "none" => nextRun'[t] # "none"
    BY <1>1, <1>2 DEF LoopTick
  <2>3. \A f \in Execs : exec'[f].pc = "running" => exec'[f] = exec[f]
    <3>1. due \in SUBSET Tasks /\ (UNCHANGED exec \/ Spawn(due, "loop"))
      BY <1>2 DEF LoopTick
    <3> HIDE DEF due
    <3> QED  BY <1>1, <3>1, TriggerSpawn
  <2> QED  BY <2>1, <2>2, <2>3, TriggerStill
<1>3. CASE ForegroundBegins \/ ForegroundEnds
  BY <1>3, TriggerStill DEF ForegroundBegins, ForegroundEnds, database, history
<1>4. CASE StopBackgroundTasks
  <2>1. /\ UNCHANGED <<nextRun, owed>>
        /\ CancelHandles(executing, "foreground") /\ AbortLatest(executing)
    BY <1>4 DEF StopBackgroundTasks, database, history
  <2>2. \A f \in Execs : Same(f)
    BY <1>1, <2>1, CancelAndAbort
  <2> QED  BY <2>1, <2>2, TriggerStill DEF Same
<1>5. CASE Restart
  <2>1. UNCHANGED owed /\ \A t \in owed : nextRun[t] # "none" => nextRun'[t] # "none"
    BY <1>1, <1>5 DEF Restart
  <2>2. \A f \in Execs : exec'[f].pc = "idle"
    BY <1>5, IdleTyped DEF Restart
  <2> QED  BY <2>1, <2>2, TriggerStill
<1> QED  BY <1>2, <1>3, <1>4, <1>5

LEMMA TriggerStep ==
  IInv /\ TriggerInv /\ Undisturbed /\ [Next]_vars => TriggerInv'
<1> SUFFICES ASSUME IInv, TriggerInv, Undisturbed, [Next]_vars PROVE TriggerInv'
  OBVIOUS
<1>1. CASE UNCHANGED vars
  BY <1>1, TriggerStill DEF vars, database, history
<1>2. ASSUME NEW e \in Execs,
             \/ Begin(e) \/ Acquire(e) \/ StartRun(e) \/ Complete(e)
             \/ CancelWaiting(e) \/ CancelRunning(e) \/ Interrupt(e)
      PROVE  TriggerInv'
  BY <1>2, TriggerCoroutine
<1>3. ASSUME NEW t \in Tasks, \/ RunTaskNow(t) \/ ForceTaskNow(t) \/ StopTask(t)
                              \/ TimePasses(t) \/ PauseTask(t) \/ ResumeTask(t)
      PROVE  TriggerInv'
  BY <1>3, TriggerTask
<1>4. CASE \/ LoopTick \/ ForegroundBegins \/ ForegroundEnds
           \/ StopBackgroundTasks \/ Restart
  BY <1>4, TriggerLoop
<1>5. CASE HandleEvent
  BY <1>5, TriggerEvent
<1> QED  BY <1>1, <1>2, <1>3, <1>4, <1>5 DEF Next

\* In a behaviour in which no run is stopped by hand or forced, the trigger of
\* an event task that run_task_now accepted keeps a next_run until a run of the
\* task has begun: a cancellation by the user's activity, a pause, a restart, a
\* chain or the poll loop does not lose it.
THEOREM TriggersKept == Spec /\ []Undisturbed => []AcceptedTriggerKept
<1>1. Init => TriggerInv
  BY IdleTyped DEF Init, TriggerInv, AcceptedTriggerKept
<1>2. IInv /\ TriggerInv /\ Undisturbed /\ [Next]_vars => TriggerInv'
  BY TriggerStep
<1>3. TriggerInv => AcceptedTriggerKept
  BY DEF TriggerInv
<1> QED  BY <1>1, <1>2, <1>3, SchedulerInv, PTL DEF Spec

=============================================================================
