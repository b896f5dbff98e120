-------------------------- MODULE ChatClientProofs --------------------------
(***************************************************************************)
(* Theorems about ChatClient, for every set of chats and every number of   *)
(* sends and events.                                                       *)
(***************************************************************************)
EXTENDS ChatClient, TLAPS

USE ClientAssumption

-----------------------------------------------------------------------------
(* The inductive invariant.                                                *)

\* What is known of a send belongs to one that was committed: its chat, its
\* place among the sends, the requests and Stops of the user
Counted ==
    /\ \A i \in Sends : IF i <= cl.count THEN cl.sess[i] \in Sessions ELSE cl.phase[i] = "none"
    /\ cl.probe <= cl.count
    /\ \A s \in Sessions : /\ cl.latest[s] <= cl.count
                           /\ cl.latest[s] # 0 => cl.sess[cl.latest[s]] = s
    /\ \A i \in queued \cup named : i <= cl.count
    /\ \A s \in Sessions : \A i \in posts[s] : i <= cl.latest[s]

\* A queued Stop whose send has no name yet is kept for it until the send is
\* over; and a chat whose latest send has a name has one to stop
StopKept ==
    /\ \A i \in queued \ named : cl.pend[i] # "no" \/ cl.phase[i] \in {"done", "failed"}
    /\ \A s \in Sessions : cl.latest[s] \in named => cl.runId[s] # 0

IInv == /\ TypeOK /\ Counted /\ StopKept
        /\ QueuedStopFires /\ NoDeadRegistration /\ LiveRegistered

-----------------------------------------------------------------------------
(* The helpers.                                                            *)

\* A state of the module in which the sends are where they were, but that
\* some may have been aborted
Keeps(m, n) ==
    /\ m \in ClientType
    /\ m.count = n.count /\ m.sess = n.sess /\ m.phase = n.phase /\ m.latest = n.latest
    /\ m.reg = n.reg /\ m.pend = n.pend /\ m.runId = n.runId /\ m.probe = n.probe
    /\ \A i \in Sends : \/ m.ctrl[i] = n.ctrl[i]
                        \/ n.ctrl[i] = "live" /\ m.ctrl[i] = "aborted"

LEMMA KeepsTrans ==
  ASSUME NEW n, NEW m, NEW o, Keeps(m, n), Keeps(o, m)
  PROVE  Keeps(o, n)
BY DEF Keeps

LEMMA ForegroundType ==
  ASSUME NEW n \in ClientType
  PROVE  Foreground(n) \in SendOrNone
BY DEF Foreground, ClientType, SendOrNone

LEMMA SyncKeeps ==
  ASSUME NEW n \in ClientType
  PROVE  Keeps(Sync(n), n)
BY ForegroundType DEF Sync, Keeps, ClientType

LEMMA IdleKeeps ==
  ASSUME NEW n \in ClientType
  PROVE  Keeps(Idle(n), n)
BY DEF Idle, Keeps, ClientType

LEMMA AbortKeeps ==
  ASSUME NEW n \in ClientType, NEW i \in SendOrNone
  PROVE  Keeps(AbortSend(n, i), n)
BY ZenonT(60) DEF AbortSend, Keeps, ClientType, SendOrNone, Sends

LEMMA AbortEnds ==
  ASSUME NEW n \in ClientType, NEW i \in Sends
  PROVE  AbortSend(n, i).ctrl[i] # "live"
<1>1. i # 0
  BY DEF Sends
<1> QED  BY <1>1 DEF AbortSend, ClientType

LEMMA StopChatType ==
  ASSUME NEW n \in ClientType
  PROVE  StopChat(n) \in Sessions \cup {None}
BY DEF StopChat, ClientType

LEMMA CurrentCtrlType ==
  ASSUME NEW n \in ClientType
  PROVE  CurrentCtrl(n) \in SendOrNone
<1>1. Foreground(n) \in SendOrNone
  BY ForegroundType
<1>2. StopChat(n) # None => StopChat(n) \in Sessions
  BY StopChatType
<1> QED  BY <1>1, <1>2 DEF CurrentCtrl, ClientType, SendOrNone

LEMMA DetachKeeps ==
  ASSUME NEW n \in ClientType, NEW s \in Sessions \cup {None}
  PROVE  Keeps(detachCurrentStream(n, s), n)
<1> DEFINE active == IF s # None THEN n.reg[s] ELSE Foreground(n)
           m == [n EXCEPT !.bg = IF s = None THEN @ ELSE [@ EXCEPT ![s] = "running"],
                          !.sid = IF @ = s THEN None ELSE @]
<1>1. CASE active = 0
  <2>1. Keeps(AbortSend(n, CurrentCtrl(n)), n)
    BY CurrentCtrlType, AbortKeeps
  <2> QED  BY <1>1, <2>1 DEF detachCurrentStream
<1>2. CASE active # 0
  <2>1. Keeps(m, n)
    BY ZenonT(60) DEF Keeps, ClientType
  <2>2. Keeps(Sync(m), m)
    <3>1. m \in ClientType
      BY <2>1 DEF Keeps
    <3> HIDE DEF m
    <3> QED  BY <3>1, SyncKeeps
  <2>3. Keeps(Idle(Sync(m)), Sync(m))
    BY <2>2, IdleKeeps DEF Keeps
  <2>4. Keeps(Idle(Sync(m)), n)
    BY <2>1, <2>2, <2>3, KeepsTrans
  <2> QED  BY <1>2, <2>4 DEF detachCurrentStream
<1> QED  BY <1>1, <1>2

LEMMA EntriesKeeps ==
  ASSUME NEW n \in ClientType, NEW s \in Sessions
  PROVE  Keeps([n EXCEPT !.entries = @ \cup {s}], n)
BY DEF Keeps, ClientType

LEMMA OpenKeeps ==
  ASSUME NEW n \in ClientType, NEW s \in Sessions
  PROVE  Keeps(Open(n, s), n)
<1> DEFINE c == [n EXCEPT !.current = s]
           m == detachCurrentStream(c, n.current)
           e == [m EXCEPT !.entries = @ \cup {s}]
<1>1. Keeps(c, n)
  BY DEF Keeps, ClientType
<1>2. Keeps(m, c)
  <2>1. c \in ClientType /\ n.current \in Sessions \cup {None}
    BY <1>1 DEF Keeps, ClientType
  <2> QED  BY <2>1, DetachKeeps
<1>3. Keeps(e, m)
  <2>1. m \in ClientType
    BY <1>2 DEF Keeps
  <2> HIDE DEF m
  <2> QED  BY <2>1, EntriesKeeps
<1>4. Keeps(e, n)
  BY <1>1, <1>2, <1>3, KeepsTrans
<1> QED  BY <1>4 DEF Open

LEMMA FailedKeeps ==
  ASSUME NEW n \in ClientType, NEW i \in Sends, n.sess[i] \in Sessions
  PROVE  Keeps(Failed(n, i), n)
BY DEF Failed, Keeps, ClientType

\* finally: the send is over, forgets its Stop and its own entry
Cleans(m, n, i, p) ==
    /\ m \in ClientType
    /\ m.count = n.count /\ m.sess = n.sess /\ m.latest = n.latest
    /\ m.runId = n.runId /\ m.probe = n.probe
    /\ m.phase = [n.phase EXCEPT ![i] = p]
    /\ m.pend = [n.pend EXCEPT ![i] = "no"]
    /\ m.reg = [n.reg EXCEPT ![n.sess[i]] = IF @ = i THEN 0 ELSE @]
    /\ \A j \in Sends : \/ m.ctrl[j] = n.ctrl[j]
                        \/ n.ctrl[j] = "live" /\ m.ctrl[j] = "aborted"

LEMMA CleansKeeps ==
  ASSUME NEW n, NEW m, NEW o, NEW i, NEW p, Cleans(m, n, i, p), Keeps(o, m)
  PROVE  Cleans(o, n, i, p)
BY DEF Cleans, Keeps

LEMMA OwnKeeps ==
  ASSUME NEW n \in ClientType, NEW i \in Sends, NEW s \in Sessions
  PROVE  Keeps([n EXCEPT !.sid = IF @ = s THEN None ELSE @,
                         !.state[s] = IF @ = i THEN 0 ELSE @], n)
<1>1. [n.state EXCEPT ![s] = IF @ = i THEN 0 ELSE @] \in [Sessions -> SendOrNone]
  BY DEF ClientType, SendOrNone
<1> QED  BY <1>1 DEF Keeps, ClientType

LEMMA CleanupCleans ==
  ASSUME NEW n \in ClientType, NEW i \in Sends, n.sess[i] \in Sessions
  PROVE  Cleans(Cleanup(n, i), n, i, "done")
<1> DEFINE s == n.sess[i]
           m == [n EXCEPT !.phase[i] = "done", !.pend[i] = "no", !.timed = @ \ {i},
                          !.reg[s] = IF @ = i THEN 0 ELSE @]
           p == [m EXCEPT !.sid = IF @ = s THEN None ELSE @,
                          !.state[s] = IF @ = i THEN 0 ELSE @]
           o == Sync(p)
<1>1. Cleans(m, n, i, "done")
  <2>1. /\ [n.phase EXCEPT ![i] = "done"]
              \in [Sends -> {"none", "switch", "preflight", "post", "read", "refused", "done", "failed"}]
        /\ [n.pend EXCEPT ![i] = "no"] \in [Sends -> {"no", "null", "own"}]
        /\ n.timed \ {i} \in SUBSET Sends
    BY DEF ClientType
  <2>2. [n.reg EXCEPT ![s] = IF @ = i THEN 0 ELSE @] \in [Sessions -> SendOrNone]
    BY DEF ClientType, SendOrNone
  <2>3. m \in ClientType
    BY <2>1, <2>2 DEF ClientType
  <2> QED  BY <2>3 DEF Cleans, ClientType
<1>2. Keeps(p, m)
  <2>1. m \in ClientType /\ s \in Sessions
    BY <1>1 DEF Cleans
  <2> HIDE DEF m, s
  <2> QED  BY <2>1, OwnKeeps
<1>3. Keeps(o, p)
  <2>1. p \in ClientType
    BY <1>2 DEF Keeps
  <2> HIDE DEF p
  <2> QED  BY <2>1, SyncKeeps
<1>4. Keeps(Idle(o), o)
  <2>1. o \in ClientType
    BY <1>3 DEF Keeps
  <2> HIDE DEF o
  <2> QED  BY <2>1, IdleKeeps, SMTT(60)
<1>5. Cleanup(n, i) \in {m, o, Idle(o)}
  BY DEF Cleanup
<1> HIDE DEF m, p, o
<1> QED  BY <1>1, <1>2, <1>3, <1>4, <1>5, CleansKeeps

-----------------------------------------------------------------------------
(* Kinds of steps.                                                         *)

LEMMA FieldTypes ==
  ASSUME NEW n \in ClientType
  PROVE  /\ n.count \in SendOrNone /\ n.probe \in SendOrNone
         /\ n.sess \in [Sends -> Sessions \cup {None}]
         /\ n.phase \in [Sends -> {"none", "switch", "preflight", "post", "read", "refused", "done", "failed"}]
         /\ n.ctrl \in [Sends -> {"none", "live", "aborted"}]
         /\ n.pend \in [Sends -> {"no", "null", "own"}]
         /\ n.latest \in [Sessions -> SendOrNone] /\ n.runId \in [Sessions -> SendOrNone]
         /\ n.reg \in [Sessions -> SendOrNone] /\ n.answer \in [Sessions -> SendOrNone]
         /\ n.current \in Sessions \cup {None}
BY DEF ClientType

LEMMA NoSend == 0 \in SendOrNone /\ \A i \in SendOrNone : i \in Nat /\ (i # 0 => i \in Sends)
BY DEF SendOrNone, Sends

LEMMA CommittedChat ==
  ASSUME IInv, NEW i \in Sends, cl.phase[i] # "none"
  PROVE  i <= cl.count /\ cl.sess[i] \in Sessions
BY DEF IInv, Counted

\* A step that leaves the sends where they are, names runs of chats and aborts
LEMMA KeepStep ==
  ASSUME IInv, cl' \in ClientType,
         cl'.count = cl.count, cl'.sess = cl.sess, cl'.phase = cl.phase,
         cl'.latest = cl.latest, cl'.reg = cl.reg, cl'.pend = cl.pend,
         cl'.probe <= cl.count,
         \A s \in Sessions : cl.runId[s] # 0 => cl'.runId[s] # 0,
         \A i \in Sends : \/ cl'.ctrl[i] = cl.ctrl[i]
                          \/ cl.ctrl[i] = "live" /\ cl'.ctrl[i] = "aborted",
         stops \subseteq stops', stops' \subseteq Sends,
         run' \in [Sends -> {"none", "running", "over"}], events' \in 0 .. MaxEvents,
         UNCHANGED <<queued, named, posts, cut>>
  PROVE  IInv'
<1>1. /\ cl.reg \in [Sessions -> SendOrNone] /\ cl.latest \in [Sessions -> SendOrNone]
      /\ cl.ctrl \in [Sends -> {"none", "live", "aborted"}]
      /\ \A s \in Sessions : /\ cl.reg[s] # 0 => cl.reg[s] \in Sends
                             /\ cl.latest[s] # 0 => cl.latest[s] \in Sends
  <2>1. cl \in ClientType
    BY DEF IInv, TypeOK
  <2> QED  BY <2>1, FieldTypes, NoSend
<1>2. TypeOK'
  <2>1. \A i \in Sends : cl'.phase[i] \in {"none", "switch", "preflight"} => cl'.ctrl[i] = "none"
    BY DEF IInv, TypeOK
  <2>2. \A s \in Sessions :
           cl'.reg[s] # 0 => cl'.ctrl[cl'.reg[s]] # "none" /\ cl'.sess[cl'.reg[s]] = s
    BY <1>1 DEF IInv, TypeOK
  <2> QED  BY <2>1, <2>2 DEF IInv, TypeOK
<1>3. Counted'
  BY DEF IInv, Counted
<1>4. StopKept' /\ QueuedStopFires'
  BY <1>1 DEF IInv, StopKept, QueuedStopFires
<1>5. NoDeadRegistration'
  BY DEF IInv, NoDeadRegistration
<1>6. LiveRegistered'
  BY <1>1 DEF IInv, LiveRegistered
<1> QED  BY <1>2, <1>3, <1>4, <1>5, <1>6 DEF IInv

\* A step that ends a send
LEMMA CleanStep ==
  ASSUME IInv, NEW i \in Sends, NEW n, NEW p \in {"done", "failed"},
         cl.phase[i] # "none", Keeps(n, cl), Cleans(cl', n, i, p),
         events' \in 0 .. MaxEvents,
         UNCHANGED <<run, queued, named, stops, posts, cut>>
  PROVE  IInv'
<1> DEFINE c == cl.sess[i]
<1>1. /\ cl' \in ClientType /\ cl \in ClientType /\ i <= cl.count /\ c \in Sessions
      /\ cl'.count = cl.count /\ cl'.sess = cl.sess /\ cl'.latest = cl.latest
      /\ cl'.runId = cl.runId /\ cl'.probe = cl.probe
      /\ cl'.phase = [cl.phase EXCEPT ![i] = p]
      /\ cl'.pend = [cl.pend EXCEPT ![i] = "no"]
      /\ cl'.reg = [cl.reg EXCEPT ![c] = IF @ = i THEN 0 ELSE @]
      /\ \A j \in Sends : \/ cl'.ctrl[j] = cl.ctrl[j]
                          \/ cl.ctrl[j] = "live" /\ cl'.ctrl[j] = "aborted"
  BY CommittedChat DEF IInv, TypeOK, Keeps, Cleans
<1>2. /\ \A j \in Sends : cl'.phase[j] = IF j = i THEN p ELSE cl.phase[j]
      /\ \A j \in Sends : cl'.pend[j] = IF j = i THEN "no" ELSE cl.pend[j]
      /\ \A s \in Sessions : cl'.reg[s] = IF s = c /\ cl.reg[s] = i THEN 0 ELSE cl.reg[s]
  BY <1>1 DEF ClientType
<1>3. /\ cl.reg \in [Sessions -> SendOrNone] /\ cl.latest \in [Sessions -> SendOrNone]
      /\ cl.ctrl \in [Sends -> {"none", "live", "aborted"}]
  BY FieldTypes, <1>1
<1> HIDE DEF c
<1>4. TypeOK'
  <2>1. \A j \in Sends : cl'.phase[j] \in {"none", "switch", "preflight"} => cl'.ctrl[j] = "none"
    BY <1>1, <1>2 DEF IInv, TypeOK
  <2>2. \A s \in Sessions :
           cl'.reg[s] # 0 => cl'.ctrl[cl'.reg[s]] # "none" /\ cl'.sess[cl'.reg[s]] = s
    BY <1>1, <1>2, <1>3, NoSend DEF IInv, TypeOK
  <2> QED  BY <1>1, <2>1, <2>2 DEF IInv, TypeOK
<1>5. Counted'
  BY <1>1, <1>2 DEF IInv, Counted
<1>6. StopKept' /\ QueuedStopFires'
  <2>1. queued \subseteq Sends
    BY DEF IInv, TypeOK
  <2> QED  BY <1>1, <1>2, <2>1 DEF IInv, StopKept, QueuedStopFires
<1>7. NoDeadRegistration'
  <2> SUFFICES ASSUME NEW s \in Sessions, cl'.reg[s] # 0
               PROVE  cl'.phase[cl'.reg[s]] \in {"post", "read", "refused"}
    BY DEF NoDeadRegistration
  <2>1. cl'.reg[s] = cl.reg[s] /\ cl.reg[s] # 0 /\ cl.reg[s] \in Sends
    BY <1>2, <1>3, NoSend
  <2>2. cl.sess[cl.reg[s]] = s /\ cl.phase[cl.reg[s]] \in {"post", "read", "refused"}
    BY <2>1 DEF IInv, TypeOK, NoDeadRegistration
  <2>3. cl.reg[s] # i
    BY <1>1, <1>2, <2>1, <2>2 DEF c
  <2> QED  BY <1>2, <2>1, <2>2, <2>3
<1>8. LiveRegistered'
  <2> SUFFICES ASSUME NEW s \in Sessions, cl.latest[s] # 0,
                      cl'.phase[cl.latest[s]] \in {"post", "read", "refused"},
                      cl'.ctrl[cl.latest[s]] = "live", cl.latest[s] \notin cut
               PROVE  cl'.reg[s] = cl.latest[s]
    BY <1>1 DEF LiveRegistered
  <2>1. cl.latest[s] \in Sends
    BY <1>3, NoSend
  <2>2. cl.latest[s] # i /\ cl.phase[cl.latest[s]] = cl'.phase[cl.latest[s]]
    BY <1>2, <2>1
  <2>3. cl.ctrl[cl.latest[s]] = "live"
    BY <1>1, <2>1
  <2>4. cl.reg[s] = cl.latest[s]
    BY <2>2, <2>3 DEF IInv, LiveRegistered
  <2> QED  BY <1>2, <2>2, <2>4
<1> QED  BY <1>4, <1>5, <1>6, <1>7, <1>8 DEF IInv

\* What most of the steps need of the invariant
LEMMA Facts ==
  ASSUME IInv
  PROVE  /\ cl \in ClientType /\ cl.probe <= cl.count
         /\ cl.reg \in [Sessions -> SendOrNone] /\ cl.latest \in [Sessions -> SendOrNone]
         /\ cl.ctrl \in [Sends -> {"none", "live", "aborted"}]
         /\ cl.count \in SendOrNone
         /\ run \in [Sends -> {"none", "running", "over"}]
         /\ queued \subseteq Sends /\ named \subseteq Sends /\ stops \subseteq Sends
         /\ posts \in [Sessions -> SUBSET Sends] /\ cut \subseteq Sends
         /\ events \in 0 .. MaxEvents
<1>1. cl \in ClientType
  BY DEF IInv, TypeOK
<1> QED  BY <1>1, FieldTypes DEF IInv, TypeOK, Counted

LEMMA EventType ==
  ASSUME IInv, Event \/ Inner \/ UNCHANGED events
  PROVE  events' \in 0 .. MaxEvents
BY DEF IInv, TypeOK, Event, Inner

\* A step of the page that leaves the sends where they are
LEMMA QuietStep ==
  ASSUME IInv, Keeps(cl', cl), Quiet, Event \/ Inner
  PROVE  IInv'
BY Facts, EventType, KeepStep DEF Keeps, Quiet

\* A step of the server
LEMMA ServerStep ==
  ASSUME IInv, UNCHANGED <<cl, queued, named, stops, posts, cut>>, Inner,
         run' \in [Sends -> {"none", "running", "over"}]
  PROVE  IInv'
BY Facts, EventType, KeepStep

-----------------------------------------------------------------------------
(* The steps that begin a send, post it and name its run.                  *)

LEMMA PressStep ==
  ASSUME IInv, Press
  PROVE  IInv'
<1> DEFINE i == cl.count + 1
           s == cl.current
<1>1. /\ s \in Sessions /\ i \in Sends /\ i \in SendOrNone /\ cl.count < i
      /\ \A x \in Sessions : cl.latest[x] <= cl.count /\ cl.latest[x] \in SendOrNone
      /\ cl.phase[i] = "none" /\ cl.ctrl[i] = "none"
  <2>1. s \in Sessions /\ i \in Sends
    BY Facts, FieldTypes DEF Press
  <2>2. i \in SendOrNone /\ cl.count < i
    BY <2>1, Facts DEF SendOrNone, Sends
  <2>3. \A x \in Sessions : cl.latest[x] <= cl.count /\ cl.latest[x] \in SendOrNone
    BY Facts DEF IInv, Counted
  <2>4. cl.phase[i] = "none"
    BY <2>1, <2>2, Facts DEF IInv, Counted, SendOrNone
  <2> QED  BY <2>1, <2>2, <2>3, <2>4 DEF IInv, TypeOK
<1>2. cl' \in ClientType
  <2> DEFINE m == [cl EXCEPT !.count = i, !.sess[i] = s, !.phase[i] = "switch",
                             !.streaming = TRUE]
  <2>1. cl' = [m EXCEPT !.latest[s] = i, !.state[s] = i, !.runId[s] = 0, !.sid = s]
    BY DEF Press
  <2>2. m \in ClientType
    BY <1>1, Facts DEF ClientType
  <2>3. 0 \in SendOrNone
    BY DEF SendOrNone
  <2> HIDE DEF i, s, m
  <2> QED  BY <1>1, <2>1, <2>2, <2>3 DEF ClientType
<1>3. /\ cl'.count = i /\ cl'.reg = cl.reg /\ cl'.ctrl = cl.ctrl /\ cl'.pend = cl.pend
      /\ cl'.probe = cl.probe
      /\ \A j \in Sends : /\ cl'.sess[j] = IF j = i THEN s ELSE cl.sess[j]
                          /\ cl'.phase[j] = IF j = i THEN "switch" ELSE cl.phase[j]
      /\ \A x \in Sessions : /\ cl'.latest[x] = IF x = s THEN i ELSE cl.latest[x]
                             /\ cl'.runId[x] = IF x = s THEN 0 ELSE cl.runId[x]
  BY <1>1, Facts DEF Press, ClientType
<1>4. /\ UNCHANGED <<run, queued, named, stops, posts, cut>>
      /\ events' \in 0 .. MaxEvents
  BY EventType DEF Press, Quiet
<1> HIDE DEF i, s
<1>5. \A x \in Sessions : cl.reg[x] # 0 => /\ cl.reg[x] \in Sends /\ cl.reg[x] # i
                                           /\ cl.sess[cl.reg[x]] = x
                                           /\ cl.ctrl[cl.reg[x]] # "none"
  BY <1>1, Facts, NoSend DEF IInv, TypeOK
<1>6. \A j \in queued \cup named : j \in Sends /\ j <= cl.count /\ j # i
  <2>1. \A j \in queued \cup named : j \in Sends /\ j <= cl.count
    BY Facts DEF IInv, Counted
  <2> QED  BY <1>1, <2>1, Facts DEF SendOrNone, Sends
<1>7. TypeOK'
  <2>1. \A j \in Sends : cl'.phase[j] \in {"none", "switch", "preflight"} => cl'.ctrl[j] = "none"
    BY <1>1, <1>3 DEF IInv, TypeOK
  <2> QED  BY <1>2, <1>3, <1>4, <1>5, <2>1 DEF IInv, TypeOK
<1>8. Counted'
  <2>1. \A j \in Sends : IF j <= i THEN cl'.sess[j] \in Sessions ELSE cl'.phase[j] = "none"
    <3> SUFFICES ASSUME NEW j \in Sends
                 PROVE  IF j <= i THEN cl'.sess[j] \in Sessions ELSE cl'.phase[j] = "none"
      OBVIOUS
    <3>1. IF j <= cl.count THEN cl.sess[j] \in Sessions ELSE cl.phase[j] = "none"
      BY DEF IInv, Counted
    <3>2. j <= i /\ j # i => j <= cl.count
      BY Facts DEF i, Sends, SendOrNone
    <3>3. j <= cl.count \/ j = i => j <= i
      BY <1>1, Facts DEF Sends, SendOrNone
    <3> QED  BY <1>1, <1>3, <3>1, <3>2, <3>3
  <2>2. cl.probe <= i
    BY <1>1, Facts, FieldTypes DEF SendOrNone
  <2>3. \A x \in Sessions : /\ cl'.latest[x] <= i
                            /\ cl'.latest[x] # 0 => cl'.sess[cl'.latest[x]] = x
    <3> SUFFICES ASSUME NEW x \in Sessions
                 PROVE  /\ cl'.latest[x] <= i
                        /\ cl'.latest[x] # 0 => cl'.sess[cl'.latest[x]] = x
      OBVIOUS
    <3>1. CASE x = s
      BY <1>1, <1>3, <3>1 DEF SendOrNone
    <3>2. CASE x # s
      <4>1. cl'.latest[x] = cl.latest[x] /\ cl.latest[x] < i
        BY <1>1, <1>3, <3>2, Facts DEF SendOrNone
      <4> QED  BY <1>1, <1>3, <4>1, NoSend DEF IInv, Counted
    <3> QED  BY <3>1, <3>2
  <2>4. \A j \in queued \cup named : j <= i
    BY <1>1, <1>6, Facts DEF SendOrNone, Sends
  <2>5. \A x \in Sessions : \A j \in posts[x] : j <= cl'.latest[x]
    <3>1. \A x \in Sessions : \A j \in posts[x] : j <= cl.latest[x] /\ j \in Sends
      BY Facts DEF IInv, Counted
    <3>2. \A x \in Sessions : cl.latest[x] <= cl'.latest[x]
      BY <1>1, <1>3, Facts DEF SendOrNone
    <3> QED  BY <1>1, <1>3, <3>1, <3>2, Facts DEF SendOrNone, Sends
  <2> QED  BY <1>3, <1>4, <2>1, <2>2, <2>3, <2>4, <2>5 DEF Counted
<1>9. StopKept' /\ QueuedStopFires'
  <2>1. \A x \in Sessions : cl'.latest[x] \in named => cl'.runId[x] # 0
    BY <1>3, <1>6 DEF IInv, StopKept
  <2>2. \A j \in queued \ named : cl'.pend[j] # "no" \/ cl'.phase[j] \in {"done", "failed"}
    BY <1>3, <1>6 DEF IInv, StopKept
  <2> QED  BY <1>4, <2>1, <2>2 DEF IInv, StopKept, QueuedStopFires
<1>10. NoDeadRegistration'
  BY <1>3, <1>5 DEF IInv, NoDeadRegistration
<1>11. LiveRegistered'
  BY <1>1, <1>3, <1>4, NoSend DEF IInv, LiveRegistered
<1> QED  BY <1>7, <1>8, <1>9, <1>10, <1>11 DEF IInv

\* The steps of a send that has not posted
LEMMA SwitchDoneStep ==
  ASSUME IInv, NEW i \in Sends, SwitchDone(i)
  PROVE  IInv'
<1> DEFINE p == IF cl.latest[cl.sess[i]] = i THEN "preflight" ELSE "done"
<1>1. cl' = [cl EXCEPT !.phase[i] = p] /\ cl.phase[i] = "switch"
  BY DEF SwitchDone
<1>2. p \in {"preflight", "done"}
  OBVIOUS
<1>3. UNCHANGED <<run, queued, named, stops, posts, cut>> /\ events' \in 0 .. MaxEvents
  BY EventType DEF SwitchDone, Quiet
<1> HIDE DEF p
<1>4. /\ cl' \in ClientType
      /\ cl'.count = cl.count /\ cl'.reg = cl.reg /\ cl'.ctrl = cl.ctrl
      /\ cl'.pend = cl.pend /\ cl'.probe = cl.probe /\ cl'.sess = cl.sess
      /\ cl'.latest = cl.latest /\ cl'.runId = cl.runId
      /\ \A j \in Sends : cl'.phase[j] = IF j = i THEN p ELSE cl.phase[j]
  BY <1>1, <1>2, Facts, ZenonT(60) DEF ClientType
<1>5. TypeOK'
  BY <1>1, <1>3, <1>4 DEF IInv, TypeOK
<1>6. Counted'
  BY <1>1, <1>3, <1>4 DEF IInv, Counted
<1>7. StopKept' /\ QueuedStopFires'
  BY <1>1, <1>3, <1>4, Facts DEF IInv, StopKept, QueuedStopFires
<1>8. NoDeadRegistration'
  BY <1>1, <1>4, Facts, NoSend DEF IInv, NoDeadRegistration
<1>9. LiveRegistered'
  BY <1>1, <1>2, <1>3, <1>4, Facts, NoSend DEF IInv, LiveRegistered
<1> QED  BY <1>5, <1>6, <1>7, <1>8, <1>9 DEF IInv

LEMMA PreflightStep ==
  ASSUME IInv, NEW i \in Sends, Preflight(i)
  PROVE  IInv'
<1> DEFINE s == cl.sess[i]
           m == [cl EXCEPT !.phase[i] = "post", !.ctrl[i] = "live", !.reg[s] = i]
<1>1. /\ cl.phase[i] = "preflight" /\ s \in Sessions
      /\ cl.ctrl[i] = "none"
      /\ UNCHANGED <<run, queued, named, stops, cut>> /\ events' \in 0 .. MaxEvents
  BY CommittedChat, EventType DEF Preflight, IInv, TypeOK
<1>2. CASE cl' = Cleanup(cl, i) /\ UNCHANGED posts
  <2>1. Cleans(cl', cl, i, "done") /\ Keeps(cl, cl)
    BY <1>1, <1>2, Facts, CleanupCleans DEF Keeps
  <2> QED  BY <1>1, <1>2, <2>1, CleanStep
<1>3. CASE cl.latest[s] = i /\ cl' = Sync(m) /\ posts' = [posts EXCEPT ![s] = @ \cup {i}]
  <2>1. m \in ClientType
    <3>1. i \in SendOrNone
      BY DEF Sends, SendOrNone
    <3>2. /\ [cl.phase EXCEPT ![i] = "post"]
                \in [Sends -> {"none", "switch", "preflight", "post", "read", "refused", "done", "failed"}]
          /\ [cl.ctrl EXCEPT ![i] = "live"] \in [Sends -> {"none", "live", "aborted"}]
          /\ [cl.reg EXCEPT ![s] = i] \in [Sessions -> SendOrNone]
      BY <1>1, <3>1, Facts DEF ClientType
    <3> QED  BY <3>2, Facts DEF ClientType
  <2>2. Keeps(Sync(m), m)
    <3> HIDE DEF m
    <3> QED  BY <2>1, SyncKeeps
  <2>3. /\ m.count = cl.count /\ m.pend = cl.pend /\ m.probe = cl.probe /\ m.sess = cl.sess
        /\ m.latest = cl.latest /\ m.runId = cl.runId
        /\ \A j \in Sends : /\ m.phase[j] = IF j = i THEN "post" ELSE cl.phase[j]
                            /\ m.ctrl[j] = IF j = i THEN "live" ELSE cl.ctrl[j]
        /\ \A x \in Sessions : m.reg[x] = IF x = s THEN i ELSE cl.reg[x]
    BY <1>1, Facts DEF ClientType
  <2> HIDE DEF m
  <2>4. /\ cl' \in ClientType
        /\ cl'.count = cl.count /\ cl'.pend = cl.pend /\ cl'.probe = cl.probe
        /\ cl'.sess = cl.sess /\ cl'.latest = cl.latest /\ cl'.runId = cl.runId
        /\ \A j \in Sends : /\ cl'.phase[j] = IF j = i THEN "post" ELSE cl.phase[j]
                            /\ j # i => \/ cl'.ctrl[j] = cl.ctrl[j]
                                        \/ cl.ctrl[j] = "live" /\ cl'.ctrl[j] = "aborted"
                            /\ j = i => cl'.ctrl[j] # "none"
        /\ \A x \in Sessions : cl'.reg[x] = IF x = s THEN i ELSE cl.reg[x]
    BY <1>3, <2>2, <2>3 DEF Keeps
  <2> HIDE DEF s
  <2>5. \A x \in Sessions : cl.reg[x] # 0 => /\ cl.reg[x] \in Sends /\ cl.reg[x] # i
                                             /\ cl.sess[cl.reg[x]] = x
                                             /\ cl.ctrl[cl.reg[x]] # "none"
    BY <1>1, Facts, NoSend DEF IInv, TypeOK
  <2>6. TypeOK'
    <3>1. \A j \in Sends : cl'.phase[j] \in {"none", "switch", "preflight"} => cl'.ctrl[j] = "none"
      BY <1>1, <2>4 DEF IInv, TypeOK
    <3>2. \A x \in Sessions :
             cl'.reg[x] # 0 => cl'.ctrl[cl'.reg[x]] # "none" /\ cl'.sess[cl'.reg[x]] = x
      BY <1>1, <2>4, <2>5 DEF s
    <3>3. posts' \in [Sessions -> SUBSET Sends]
      BY <1>1, <1>3, Facts
    <3> QED  BY <1>1, <2>4, <3>1, <3>2, <3>3 DEF IInv, TypeOK
  <2>7. Counted'
    <3>1. \A x \in Sessions : \A j \in posts'[x] : j <= cl.latest[x]
      <4> SUFFICES ASSUME NEW x \in Sessions, NEW j \in posts'[x] PROVE j <= cl.latest[x]
        OBVIOUS
      <4>1. j \in posts[x] \/ (x = s /\ j = i)
        BY <1>1, <1>3, Facts
      <4> QED  BY <1>3, <4>1 DEF IInv, Counted, s, Sends
    <3> QED  BY <1>1, <2>4, <3>1 DEF IInv, Counted
  <2>8. StopKept' /\ QueuedStopFires'
    BY <1>1, <2>4, Facts DEF IInv, StopKept, QueuedStopFires
  <2>9. NoDeadRegistration'
    BY <1>1, <2>4, <2>5 DEF IInv, NoDeadRegistration
  <2>10. LiveRegistered'
    <3> SUFFICES ASSUME NEW x \in Sessions, cl.latest[x] # 0,
                        cl'.phase[cl.latest[x]] \in {"post", "read", "refused"},
                        cl'.ctrl[cl.latest[x]] = "live", cl.latest[x] \notin cut
                 PROVE  cl'.reg[x] = cl.latest[x]
      BY <1>1, <2>4 DEF LiveRegistered
    <3>1. cl.latest[x] \in Sends /\ cl.sess[cl.latest[x]] = x
      BY Facts, NoSend DEF IInv, Counted
    <3>2. CASE x = s
      BY <1>1, <1>3, <2>4, <3>2 DEF s
    <3>3. CASE x # s
      <4>1. cl.latest[x] # i
        BY <3>1, <3>3 DEF s
      <4>2. cl.phase[cl.latest[x]] \in {"post", "read", "refused"} /\ cl.ctrl[cl.latest[x]] = "live"
        BY <2>4, <3>1, <4>1
      <4> QED  BY <2>4, <3>1, <3>3, <4>2 DEF IInv, LiveRegistered
    <3> QED  BY <3>2, <3>3
  <2> QED  BY <2>6, <2>7, <2>8, <2>9, <2>10 DEF IInv
<1> QED  BY <1>2, <1>3 DEF Preflight

LEMMA PreflightFailsStep ==
  ASSUME IInv, NEW i \in Sends, PreflightFails(i)
  PROVE  IInv'
<1> DEFINE n == Idle(cl)
           m == Cleanup(n, i)
<1>1. cl.phase[i] # "none" /\ cl' = [m EXCEPT !.phase[i] = "failed"]
  BY DEF PreflightFails
<1>2. Keeps(n, cl)
  BY Facts, IdleKeeps
<1>3. Cleans(m, n, i, "done")
  <2>1. n \in ClientType /\ n.sess[i] \in Sessions
    BY <1>1, <1>2, CommittedChat DEF Keeps
  <2> HIDE DEF n
  <2> QED  BY <2>1, CleanupCleans
<1> HIDE DEF n, m
<1>4. Cleans(cl', n, i, "failed")
  <2>1. m \in ClientType /\ n \in ClientType /\ m.phase = [n.phase EXCEPT ![i] = "done"]
    BY <1>2, <1>3 DEF Keeps, Cleans
  <2>2. cl' \in ClientType /\ cl'.phase = [n.phase EXCEPT ![i] = "failed"]
    BY <1>1, <2>1 DEF ClientType
  <2> QED  BY <1>1, <1>3, <2>1, <2>2 DEF Cleans, ClientType
<1> QED  BY <1>1, <1>2, <1>4, EventType, CleanStep DEF PreflightFails, Quiet

\* The header names the run and flushes the send's Stop
LEMMA HeadersStep ==
  ASSUME IInv, NEW i \in Sends, Headers(i)
  PROVE  IInv'
<1> DEFINE s == cl.sess[i]
           r == IF cl.latest[s] = i THEN i ELSE cl.runId[s]
           m == [cl EXCEPT !.phase[i] = "read", !.pend[i] = "no",
                           !.runId[s] = IF cl.latest[s] = i THEN i ELSE @]
<1>1. /\ cl.phase[i] = "post" /\ cl.ctrl[i] = "live" /\ s \in Sessions /\ i <= cl.count
      /\ i # 0 /\ i \in SendOrNone
      /\ named' = named \cup {i}
      /\ stops' = IF cl.pend[i] # "no" THEN stops \cup {i} ELSE stops
      /\ UNCHANGED <<run, queued, posts, cut>> /\ events' \in 0 .. MaxEvents
  BY CommittedChat, EventType DEF Headers, Sends, SendOrNone
<1>2. m \in ClientType
  <2>1. /\ [cl.phase EXCEPT ![i] = "read"]
              \in [Sends -> {"none", "switch", "preflight", "post", "read", "refused", "done", "failed"}]
        /\ [cl.pend EXCEPT ![i] = "no"] \in [Sends -> {"no", "null", "own"}]
        /\ [cl.runId EXCEPT ![s] = IF cl.latest[s] = i THEN i ELSE @] \in [Sessions -> SendOrNone]
    BY <1>1, Facts DEF ClientType
  <2> QED  BY <2>1, Facts DEF ClientType
<1>3. /\ m.count = cl.count /\ m.reg = cl.reg /\ m.probe = cl.probe /\ m.sess = cl.sess
      /\ m.latest = cl.latest /\ m.ctrl = cl.ctrl
      /\ \A j \in Sends : /\ m.phase[j] = IF j = i THEN "read" ELSE cl.phase[j]
                          /\ m.pend[j] = IF j = i THEN "no" ELSE cl.pend[j]
      /\ \A x \in Sessions : m.runId[x] = IF x = s THEN r ELSE cl.runId[x]
  BY <1>1, Facts DEF ClientType
<1> HIDE DEF m, s, r
<1>4. Keeps(cl', m)
  <2>1. cl' = IF cl.pend[i] = "own" THEN AbortSend(m, i) ELSE m
    BY DEF Headers, m, s
  <2>2. Keeps(AbortSend(m, i), m)
    BY <1>1, <1>2, AbortKeeps
  <2> QED  BY <1>2, <2>1, <2>2 DEF Keeps
<1>5. /\ cl' \in ClientType
      /\ cl'.count = cl.count /\ cl'.reg = cl.reg /\ cl'.probe = cl.probe
      /\ cl'.sess = cl.sess /\ cl'.latest = cl.latest
      /\ \A j \in Sends : /\ cl'.phase[j] = IF j = i THEN "read" ELSE cl.phase[j]
                          /\ cl'.pend[j] = IF j = i THEN "no" ELSE cl.pend[j]
                          /\ \/ cl'.ctrl[j] = cl.ctrl[j]
                             \/ cl.ctrl[j] = "live" /\ cl'.ctrl[j] = "aborted"
      /\ \A x \in Sessions : cl'.runId[x] = IF x = s THEN r ELSE cl.runId[x]
  BY <1>3, <1>4 DEF Keeps
<1>6. \A x \in Sessions : /\ cl.reg[x] # 0 => cl.reg[x] \in Sends
                          /\ cl.latest[x] # 0 => cl.latest[x] \in Sends /\ cl.sess[cl.latest[x]] = x
  BY Facts, NoSend DEF IInv, Counted
<1>7. TypeOK'
  <2>1. \A j \in Sends : cl'.phase[j] \in {"none", "switch", "preflight"} => cl'.ctrl[j] = "none"
    BY <1>1, <1>5 DEF IInv, TypeOK
  <2>2. \A x \in Sessions :
           cl'.reg[x] # 0 => cl'.ctrl[cl'.reg[x]] # "none" /\ cl'.sess[cl'.reg[x]] = x
    BY <1>5, <1>6 DEF IInv, TypeOK
  <2> QED  BY <1>1, <1>5, <2>1, <2>2, Facts DEF IInv, TypeOK
<1>8. Counted'
  BY <1>1, <1>5 DEF IInv, Counted
<1>9. StopKept'
  <2>1. \A j \in queued \ named' : cl'.pend[j] # "no" \/ cl'.phase[j] \in {"done", "failed"}
    BY <1>1, <1>5, Facts DEF IInv, StopKept
  <2>2. \A x \in Sessions : cl.latest[x] \in named' => cl'.runId[x] # 0
    <3> SUFFICES ASSUME NEW x \in Sessions, cl.latest[x] \in named' PROVE cl'.runId[x] # 0
      OBVIOUS
    <3>1. CASE cl.latest[x] = i
      <4>1. x = s
        BY <1>1, <1>6, <3>1 DEF s
      <4> QED  BY <1>1, <1>5, <3>1, <4>1 DEF r
    <3>2. CASE cl.latest[x] # i
      <4>1. cl.runId[x] # 0
        BY <1>1, <3>2 DEF IInv, StopKept
      <4> QED  BY <1>1, <1>5, <4>1 DEF r
    <3> QED  BY <3>1, <3>2
  <2> QED  BY <1>1, <1>5, <2>1, <2>2 DEF StopKept
<1>10. QueuedStopFires'
  BY <1>1 DEF IInv, StopKept, QueuedStopFires
<1>11. NoDeadRegistration'
  BY <1>5, <1>6 DEF IInv, NoDeadRegistration
<1>12. LiveRegistered'
  BY <1>1, <1>5, <1>6 DEF IInv, LiveRegistered
<1> QED  BY <1>7, <1>8, <1>9, <1>10, <1>11, <1>12 DEF IInv

LEMMA RefusedStep ==
  ASSUME IInv, NEW i \in Sends, Refused(i)
  PROVE  IInv'
<1>1. /\ cl.phase[i] = "post" /\ cl' = [cl EXCEPT !.phase[i] = "refused"]
      /\ run' \in [Sends -> {"none", "running", "over"}] /\ events' \in 0 .. MaxEvents
      /\ UNCHANGED <<queued, named, stops, posts, cut>>
  BY Facts, EventType DEF Refused
<1>2. cl' \in ClientType
  <2>1. [cl.phase EXCEPT ![i] = "refused"]
           \in [Sends -> {"none", "switch", "preflight", "post", "read", "refused", "done", "failed"}]
    BY Facts DEF ClientType
  <2> QED  BY <1>1, <2>1, Facts DEF ClientType
<1>3. /\ cl'.count = cl.count /\ cl'.reg = cl.reg /\ cl'.probe = cl.probe
      /\ cl'.sess = cl.sess /\ cl'.latest = cl.latest /\ cl'.pend = cl.pend
      /\ cl'.ctrl = cl.ctrl /\ cl'.runId = cl.runId
      /\ \A j \in Sends : cl'.phase[j] = IF j = i THEN "refused" ELSE cl.phase[j]
  BY <1>1, Facts DEF ClientType
<1>4. \A x \in Sessions : /\ cl.reg[x] # 0 => cl.reg[x] \in Sends
                          /\ cl.latest[x] # 0 => cl.latest[x] \in Sends
  BY Facts, NoSend
<1>5. TypeOK'
  BY <1>1, <1>2, <1>3, <1>4 DEF IInv, TypeOK
<1>6. Counted' /\ StopKept' /\ QueuedStopFires'
  BY <1>1, <1>3, Facts DEF IInv, Counted, StopKept, QueuedStopFires
<1>7. NoDeadRegistration' /\ LiveRegistered'
  BY <1>1, <1>3, <1>4 DEF IInv, NoDeadRegistration, LiveRegistered
<1> QED  BY <1>5, <1>6, <1>7 DEF IInv

-----------------------------------------------------------------------------
(* The steps that end a send.                                              *)

\* catch and finally together, or finally alone
LEMMA EndStep ==
  ASSUME IInv, NEW i \in Sends, NEW n, cl.phase[i] # "none", Keeps(n, cl),
         cl' = Cleanup(n, i), events' \in 0 .. MaxEvents,
         UNCHANGED <<run, queued, named, stops, posts, cut>>
  PROVE  IInv'
<1>1. n \in ClientType /\ n.sess[i] \in Sessions
  BY CommittedChat DEF Keeps
<1>2. Cleans(cl', n, i, "done")
  BY <1>1, CleanupCleans
<1> QED  BY <1>2, CleanStep

LEMMA FinishStep ==
  ASSUME IInv, NEW i \in Sends, Finish(i)
  PROVE  IInv'
<1> DEFINE s == cl.sess[i]
           m == [cl EXCEPT !.bg[s] = IF cl.current = s THEN "none" ELSE "completed"]
<1>1. cl.phase[i] # "none" /\ cl' = Cleanup(m, i)
  BY DEF Finish
<1>2. Keeps(m, cl)
  BY <1>1, CommittedChat, Facts DEF Keeps, ClientType
<1> HIDE DEF m
<1> QED  BY <1>1, <1>2, EventType, EndStep DEF Finish, Quiet

LEMMA RefusalShownStep ==
  ASSUME IInv, NEW i \in Sends, RefusalShown(i)
  PROVE  IInv'
<1>1. cl.phase[i] # "none" /\ cl' = Cleanup(cl, i)
  BY DEF RefusalShown
<1>2. Keeps(cl, cl)
  BY Facts DEF Keeps
<1> QED  BY <1>1, <1>2, EventType, EndStep DEF RefusalShown, Quiet

LEMMA AbortedStep ==
  ASSUME IInv, NEW i \in Sends, Aborted(i)
  PROVE  IInv'
<1>1. cl.phase[i] # "none" /\ cl' = Cleanup(Failed(cl, i), i)
  BY DEF Aborted, Unwinding
<1>2. Keeps(Failed(cl, i), cl)
  BY <1>1, CommittedChat, Facts, FailedKeeps
<1> QED  BY <1>1, <1>2, EventType, EndStep DEF Aborted, Quiet

LEMMA LostStep ==
  ASSUME IInv, NEW i \in Sends, Lost(i)
  PROVE  IInv'
<1> DEFINE s == cl.sess[i]
           k == IF cl.pend[i] # "no" THEN i ELSE 0
           a == AbortSend(cl, k)
           n == Failed(a, i)
           m == Cleanup(n, i)
<1>1. /\ cl.phase[i] # "none" /\ s \in Sessions
      /\ cl' \in {m, [m EXCEPT !.entries = @ \cup {s}]}
      /\ UNCHANGED <<run, queued, named, stops, posts, cut>> /\ events' \in 0 .. MaxEvents
  BY CommittedChat, EventType DEF Lost, Quiet
<1>2. Keeps(a, cl)
  BY Facts, AbortKeeps DEF Sends, SendOrNone
<1>3. Keeps(n, a)
  <2>1. a \in ClientType /\ a.sess[i] \in Sessions
    BY <1>1, <1>2 DEF Keeps
  <2> HIDE DEF a
  <2> QED  BY <2>1, FailedKeeps
<1>4. Keeps(n, cl)
  BY <1>2, <1>3, KeepsTrans
<1>5. Cleans(m, n, i, "done")
  <2>1. n \in ClientType /\ n.sess[i] \in Sessions
    BY <1>1, <1>4 DEF Keeps
  <2> HIDE DEF n
  <2> QED  BY <2>1, CleanupCleans
<1> HIDE DEF m, n, a, s
<1>6. Cleans(cl', n, i, "done")
  <2>1. m \in ClientType
    BY <1>5 DEF Cleans
  <2>2. Keeps([m EXCEPT !.entries = @ \cup {s}], m)
    BY <1>1, <2>1, EntriesKeeps
  <2>3. Cleans([m EXCEPT !.entries = @ \cup {s}], n, i, "done")
    BY <1>5, <2>2, CleansKeeps
  <2> QED  BY <1>1, <1>5, <2>3
<1> QED  BY <1>1, <1>4, <1>6, CleanStep

-----------------------------------------------------------------------------
(* Stops and timeouts.                                                     *)

\* A Stop is queued for the latest send of a chat with no run to name
LEMMA QueueStep ==
  ASSUME IInv, NEW s \in Sessions, NEW i \in Sends, NEW q \in {"null", "own"},
         cl.latest[s] = i, cl.runId[s] = 0,
         cl' \in ClientType, cl'.count = cl.count, cl'.sess = cl.sess, cl'.phase = cl.phase,
         cl'.latest = cl.latest, cl'.reg = cl.reg, cl'.runId = cl.runId, cl'.ctrl = cl.ctrl,
         cl'.probe = cl.probe, cl'.pend = [cl.pend EXCEPT ![i] = q],
         queued' = queued \cup {i}, events' \in 0 .. MaxEvents,
         UNCHANGED <<run, named, stops, posts, cut>>
  PROVE  IInv'
<1>1. \A j \in Sends : cl'.pend[j] = IF j = i THEN q ELSE cl.pend[j]
  BY Facts DEF ClientType
<1>2. i \notin named
  BY DEF IInv, StopKept
<1>3. TypeOK'
  BY DEF IInv, TypeOK
<1>4. Counted'
  BY DEF IInv, Counted
<1>5. StopKept' /\ QueuedStopFires'
  BY <1>1, <1>2, Facts DEF IInv, StopKept, QueuedStopFires
<1>6. NoDeadRegistration' /\ LiveRegistered'
  BY DEF IInv, NoDeadRegistration, LiveRegistered
<1> QED  BY <1>3, <1>4, <1>5, <1>6 DEF IInv

\* A Stop of a run whose name is known, or of none
LEMMA KnownStopStep ==
  ASSUME IInv, Keeps(cl', cl), events' \in 0 .. MaxEvents,
         stops' = stops \/ (\E s \in Sessions : /\ cl.runId[s] # 0
                                                /\ stops' = stops \cup {cl.runId[s]}),
         UNCHANGED <<run, queued, named, posts, cut>>
  PROVE  IInv'
<1>1. \A s \in Sessions : cl.runId[s] # 0 => cl.runId[s] \in Sends
  BY Facts, FieldTypes, NoSend
<1>2. stops \subseteq stops' /\ stops' \subseteq Sends
  BY <1>1, Facts
<1> QED  BY <1>2, Facts, KeepStep DEF Keeps

LEMMA StopStep ==
  ASSUME IInv, Stop
  PROVE  IInv'
<1> DEFINE s == StopChat(cl)
           ctrl == CurrentCtrl(cl)
           known == s # None /\ cl.runId[s] # 0
           i == IF s = None THEN 0 ELSE cl.latest[s]
           q == IF ctrl # 0 THEN "own" ELSE IF cl.pend[i] = "no" THEN "null" ELSE cl.pend[i]
           m == [cl EXCEPT !.pend[i] =
                    IF ctrl # 0 THEN "own" ELSE IF @ = "no" THEN "null" ELSE @]
<1>1. /\ cl \in ClientType /\ s \in Sessions \cup {None} /\ ctrl \in SendOrNone
      /\ UNCHANGED <<run, named, posts, cut>> /\ events' \in 0 .. MaxEvents
  BY Facts, StopChatType, CurrentCtrlType, EventType DEF Stop
<1>2. CASE /\ known \/ s = None
           /\ cl' = Idle(AbortSend(cl, ctrl))
           /\ stops' = IF known THEN stops \cup {cl.runId[s]} ELSE stops
           /\ UNCHANGED queued
  <2>1. Keeps(AbortSend(cl, ctrl), cl)
    BY <1>1, AbortKeeps
  <2>2. Keeps(Idle(AbortSend(cl, ctrl)), AbortSend(cl, ctrl))
    <3>1. AbortSend(cl, ctrl) \in ClientType
      BY <2>1 DEF Keeps
    <3> QED  BY <3>1, IdleKeeps
  <2>3. Keeps(cl', cl)
    BY <1>2, <2>1, <2>2, KeepsTrans
  <2> HIDE DEF s, ctrl
  <2> QED  BY <1>1, <1>2, <2>3, KnownStopStep
<1>3. CASE s # None /\ ~known /\ i = 0 /\ cl' = Idle(cl) /\ UNCHANGED <<queued, stops>>
  <2>1. Keeps(cl', cl)
    BY <1>1, <1>3, IdleKeeps
  <2> QED  BY <1>1, <1>3, <2>1, KnownStopStep
<1>4. CASE s # None /\ ~known /\ i # 0 /\ cl' = Idle(m) /\ queued' = queued \cup {i}
           /\ UNCHANGED stops
  <2>1. s \in Sessions /\ i \in Sends /\ cl.latest[s] = i
    <3> HIDE DEF s
    <3> QED  BY <1>1, <1>4, Facts, NoSend
  <2> HIDE DEF s, ctrl, i
  <2>2. q \in {"null", "own"}
    BY <1>1, <2>1, FieldTypes
  <2>3. m = [cl EXCEPT !.pend[i] = q]
    BY <1>1, <2>1 DEF ClientType
  <2> HIDE DEF q, m
  <2>4. m \in ClientType
    BY <1>1, <2>1, <2>2, <2>3 DEF ClientType
  <2>5. cl' \in ClientType
    BY <1>4, <2>4, IdleKeeps DEF Keeps
  <2>6. /\ cl'.count = cl.count /\ cl'.sess = cl.sess /\ cl'.phase = cl.phase
        /\ cl'.latest = cl.latest /\ cl'.reg = cl.reg /\ cl'.runId = cl.runId
        /\ cl'.ctrl = cl.ctrl /\ cl'.probe = cl.probe /\ cl'.pend = [cl.pend EXCEPT ![i] = q]
    BY <1>1, <1>4, <2>3 DEF Idle, ClientType
  <2> QED  BY <1>1, <1>4, <2>1, <2>2, <2>5, <2>6, QueueStep
<1> QED  BY <1>2, <1>3, <1>4 DEF Stop

LEMMA TimeoutStep ==
  ASSUME IInv, NEW i \in Sends, Timeout(i)
  PROVE  IInv'
<1> DEFINE s == cl.sess[i]
           m == [cl EXCEPT !.pend[i] = "own", !.timed = @ \cup {i}]
<1>1. /\ cl \in ClientType /\ s \in Sessions /\ i \in SendOrNone
      /\ UNCHANGED <<run, named, posts, cut>> /\ events' \in 0 .. MaxEvents
  BY Facts, CommittedChat, EventType DEF Timeout, Sends, SendOrNone
<1>2. CASE cl' = AbortSend(cl, i) /\ UNCHANGED <<queued, stops>>
  BY <1>1, <1>2, AbortKeeps, KnownStopStep
<1>3. CASE /\ cl.runId[s] # 0 /\ cl' = AbortSend(cl, i)
           /\ stops' = stops \cup {cl.runId[s]} /\ UNCHANGED queued
  <2>1. Keeps(cl', cl)
    BY <1>1, <1>3, AbortKeeps
  <2> HIDE DEF s
  <2> QED  BY <1>1, <1>3, <2>1, KnownStopStep
<1>4. CASE /\ cl.latest[s] = i /\ cl.runId[s] = 0 /\ cl' = m
           /\ queued' = queued \cup {i} /\ UNCHANGED stops
  <2>1. m \in ClientType
    BY <1>1 DEF ClientType
  <2>2. /\ m.count = cl.count /\ m.sess = cl.sess /\ m.phase = cl.phase
        /\ m.latest = cl.latest /\ m.reg = cl.reg /\ m.runId = cl.runId
        /\ m.ctrl = cl.ctrl /\ m.probe = cl.probe /\ m.pend = [cl.pend EXCEPT ![i] = "own"]
    BY <1>1 DEF ClientType
  <2> HIDE DEF m, s
  <2> QED  BY <1>1, <1>4, <2>1, <2>2, QueueStep
<1> QED  BY <1>2, <1>3, <1>4 DEF Timeout

LEMMA HardAbortStep ==
  ASSUME IInv, NEW i \in Sends, HardAbort(i)
  PROVE  IInv'
<1> DEFINE m == [cl EXCEPT !.timed = @ \ {i}]
<1>1. Keeps(m, cl)
  BY Facts DEF Keeps, ClientType
<1>2. Keeps(AbortSend(m, i), m)
  <2>1. m \in ClientType /\ i \in SendOrNone
    BY <1>1 DEF Keeps, Sends, SendOrNone
  <2> HIDE DEF m
  <2> QED  BY <2>1, AbortKeeps
<1>3. Keeps(cl', cl)
  BY <1>1, <1>2, KeepsTrans DEF HardAbort
<1> QED  BY <1>3, QuietStep DEF HardAbort

-----------------------------------------------------------------------------
(* Chats opened and left, their polls and resumed streams.                 *)

LEMMA SelectStep ==
  ASSUME IInv, NEW s \in Sessions, Select(s)
  PROVE  IInv'
BY Facts, OpenKeeps, QuietStep DEF Select

LEMMA NewChatStep ==
  ASSUME IInv, NewChat
  PROVE  IInv'
<1> DEFINE m == detachCurrentStream(cl, cl.current)
<1>1. Keeps(m, cl)
  BY Facts, FieldTypes, DetachKeeps
<1>2. Keeps([m EXCEPT !.current = None], m)
  <2>1. m \in ClientType
    BY <1>1 DEF Keeps
  <2> HIDE DEF m
  <2> QED  BY <2>1 DEF Keeps, ClientType
<1>3. Keeps(cl', cl)
  BY <1>1, <1>2, KeepsTrans DEF NewChat
<1> QED  BY <1>3, QuietStep DEF NewChat

LEMMA OutputStep ==
  ASSUME IInv, NEW i \in Sends, Output(i)
  PROVE  IInv'
<1>1. cl.sess[i] \in Sessions
  BY CommittedChat DEF Output
<1>2. Keeps(cl', cl)
  BY <1>1, Facts DEF Output, Keeps, ClientType
<1> QED  BY <1>2, QuietStep DEF Output

LEMMA EntryStep ==
  ASSUME IInv, NEW s \in Sessions, Entry(s)
  PROVE  IInv'
<1> DEFINE e == [cl EXCEPT !.entries = @ \ {s}]
           m == [cl EXCEPT !.entries = @ \ {s},
                           !.bg[s] = IF @ \in {"completed", "error"} THEN "none" ELSE @,
                           !.polls = IF cl.bg[s] = "running" THEN @ \cup {s} ELSE @]
           a == [m EXCEPT !.asking = @ \cup {s}]
<1>1. Keeps(e, cl)
  BY Facts DEF Keeps, ClientType
<1>2. Keeps(m, cl)
  <2>1. /\ [cl.bg EXCEPT ![s] = IF @ \in {"completed", "error"} THEN "none" ELSE @]
              \in [Sessions -> {"none", "running", "completed", "error"}]
        /\ (IF cl.bg[s] = "running" THEN cl.polls \cup {s} ELSE cl.polls) \in SUBSET Sessions
    BY Facts DEF ClientType
  <2>2. m \in ClientType
    BY <2>1, Facts DEF ClientType
  <2> QED  BY <2>2, Facts DEF Keeps, ClientType
<1>3. Keeps(a, m)
  <2>1. m \in ClientType
    BY <1>2 DEF Keeps
  <2> HIDE DEF m
  <2> QED  BY <2>1, SMTT(60) DEF Keeps, ClientType
<1>4. cl' \in {e, m, a}
  BY DEF Entry
<1> HIDE DEF e, m, a
<1>5. Keeps(cl', cl)
  BY <1>1, <1>2, <1>3, <1>4, KeepsTrans
<1> QED  BY <1>5, QuietStep DEF Entry

LEMMA PollStep ==
  ASSUME IInv, NEW s \in Sessions, Poll(s)
  PROVE  IInv'
<1> DEFINE m == [cl EXCEPT !.polls = @ \ {s}]
           b == [m EXCEPT !.bg[s] = "none"]
<1>1. Keeps(m, cl)
  BY Facts DEF Keeps, ClientType
<1>2. Keeps(b, m)
  <2>1. m \in ClientType
    BY <1>1 DEF Keeps
  <2> HIDE DEF m
  <2> QED  BY <2>1 DEF Keeps, ClientType
<1>3. Keeps(Open(b, s), b)
  <2>1. b \in ClientType
    BY <1>2 DEF Keeps
  <2> HIDE DEF b
  <2> QED  BY <2>1, OpenKeeps
<1>4. cl' \in {m, Open(b, s)}
  BY DEF Poll
<1> HIDE DEF m, b
<1>5. Keeps(cl', cl)
  BY <1>1, <1>2, <1>3, <1>4, KeepsTrans
<1> QED  BY <1>5, QuietStep DEF Poll

LEMMA ServeResumeStep ==
  ASSUME IInv, NEW s \in Sessions, ServeResume(s)
  PROVE  IInv'
<1>1. Keeps(cl', cl)
  <2>1. CASE cl' = [cl EXCEPT !.asking = @ \ {s}]
    BY <2>1, Facts DEF Keeps, ClientType
  <2>2. ASSUME NEW i \in Sends, cl' = [cl EXCEPT !.asking = @ \ {s}, !.answer[s] = i]
        PROVE  Keeps(cl', cl)
    <3>1. i \in SendOrNone
      BY DEF Sends, SendOrNone
    <3> QED  BY <2>2, <3>1, Facts DEF Keeps, ClientType
  <2> QED  BY <2>1, <2>2 DEF ServeResume
<1> QED  BY <1>1, QuietStep DEF ServeResume

LEMMA ResumedStep ==
  ASSUME IInv, NEW s \in Sessions, Resumed(s)
  PROVE  IInv'
<1>1. cl \in ClientType /\ cl.answer[s] # 0 /\ cl.answer[s] \in SendOrNone /\ 0 \in SendOrNone
  BY Facts, FieldTypes DEF Resumed, SendOrNone
<1>2. cl' = [cl EXCEPT !.answer[s] = 0, !.runId[s] = cl.answer[s], !.resuming[s] = cl.answer[s]]
  BY DEF Resumed
<1>3. cl' \in ClientType
  BY <1>1, <1>2 DEF ClientType
<1>4. /\ cl'.count = cl.count /\ cl'.sess = cl.sess /\ cl'.phase = cl.phase
      /\ cl'.latest = cl.latest /\ cl'.reg = cl.reg /\ cl'.pend = cl.pend
      /\ cl'.probe = cl.probe /\ cl'.ctrl = cl.ctrl
      /\ \A x \in Sessions : cl'.runId[x] = IF x = s THEN cl.answer[s] ELSE cl.runId[x]
  BY <1>1, <1>2 DEF ClientType
<1> QED  BY <1>1, <1>3, <1>4, Facts, EventType, KeepStep DEF Resumed, Quiet

LEMMA ResumeEndsStep ==
  ASSUME IInv, NEW s \in Sessions, ResumeEnds(s)
  PROVE  IInv'
<1> DEFINE m == [cl EXCEPT !.resuming[s] = 0]
<1>1. Keeps(m, cl)
  BY Facts, NoSend DEF Keeps, ClientType
<1>2. Keeps(Open(m, s), m)
  <2>1. m \in ClientType
    BY <1>1 DEF Keeps
  <2> HIDE DEF m
  <2> QED  BY <2>1, OpenKeeps
<1>3. cl' \in {m, Open(m, s)}
  BY DEF ResumeEnds
<1> HIDE DEF m
<1>4. Keeps(cl', cl)
  BY <1>1, <1>2, <1>3, KeepsTrans
<1> QED  BY <1>4, QuietStep DEF ResumeEnds

-----------------------------------------------------------------------------
(* The watchdog and the recovery of a sleeping tab.                        *)

\* A registered send is one of the page
LEMMA RegisteredSend ==
  ASSUME IInv, NEW s \in Sessions, cl.reg[s] # 0
  PROVE  cl.reg[s] \in Sends /\ cl.reg[s] <= cl.count
<1>1. cl.reg[s] \in Sends /\ cl.phase[cl.reg[s]] # "none"
  BY Facts, NoSend DEF IInv, NoDeadRegistration
<1> QED  BY <1>1, CommittedChat

LEMMA StartProbeStep ==
  ASSUME IInv, StartProbe
  PROVE  IInv'
<1> DEFINE i == Foreground(cl)
<1>1. i # 0 /\ i \in SendOrNone /\ i <= cl.count
  <2>1. cl.current \in Sessions /\ i = cl.reg[cl.current] /\ i # 0
    BY Facts, FieldTypes DEF StartProbe, Foreground
  <2>2. i \in SendOrNone
    BY Facts, ForegroundType
  <2> QED  BY <2>1, <2>2, RegisteredSend
<1>2. cl' = [cl EXCEPT !.probe = i]
  BY DEF StartProbe
<1> HIDE DEF i
<1>3. cl' \in ClientType
  BY <1>1, <1>2, Facts DEF ClientType
<1>4. /\ cl'.count = cl.count /\ cl'.sess = cl.sess /\ cl'.phase = cl.phase
      /\ cl'.latest = cl.latest /\ cl'.reg = cl.reg /\ cl'.pend = cl.pend
      /\ cl'.probe = i /\ cl'.ctrl = cl.ctrl /\ cl'.runId = cl.runId
  BY <1>2, Facts DEF ClientType
<1> QED  BY <1>1, <1>3, <1>4, Facts, EventType, KeepStep DEF StartProbe, Quiet

LEMMA ServeProbeStep ==
  ASSUME IInv, ServeProbe
  PROVE  IInv'
<1>1. Keeps(cl', cl)
  BY Facts DEF ServeProbe, Keeps, ClientType
<1> QED  BY <1>1, QuietStep DEF ServeProbe

\* A step that removes the entry of a chat, which it aborts or counts as cut
LEMMA DropStep ==
  ASSUME IInv, NEW s \in Sessions, cl' \in ClientType,
         cl'.count = cl.count, cl'.sess = cl.sess, cl'.phase = cl.phase,
         cl'.latest = cl.latest, cl'.pend = cl.pend, cl'.runId = cl.runId,
         cl'.probe <= cl.count,
         \A x \in Sessions : cl'.reg[x] = IF x = s THEN 0 ELSE cl.reg[x],
         \A i \in Sends : \/ cl'.ctrl[i] = cl.ctrl[i]
                          \/ cl.ctrl[i] = "live" /\ cl'.ctrl[i] = "aborted",
         cut \subseteq cut', cut' \subseteq Sends,
         cl.reg[s] # 0 => cl'.ctrl[cl.reg[s]] # "live" \/ cl.reg[s] \in cut',
         events' \in 0 .. MaxEvents,
         UNCHANGED <<run, queued, named, stops, posts>>
  PROVE  IInv'
<1>1. \A x \in Sessions : /\ cl.reg[x] # 0 => cl.reg[x] \in Sends
                          /\ cl.latest[x] # 0 => cl.latest[x] \in Sends
  BY Facts, NoSend
<1>2. TypeOK'
  <2>1. \A i \in Sends : cl'.phase[i] \in {"none", "switch", "preflight"} => cl'.ctrl[i] = "none"
    BY DEF IInv, TypeOK
  <2>2. \A x \in Sessions :
           cl'.reg[x] # 0 => cl'.ctrl[cl'.reg[x]] # "none" /\ cl'.sess[cl'.reg[x]] = x
    BY <1>1 DEF IInv, TypeOK
  <2> QED  BY <2>1, <2>2 DEF IInv, TypeOK
<1>3. Counted'
  BY DEF IInv, Counted
<1>4. StopKept' /\ QueuedStopFires'
  BY Facts DEF IInv, StopKept, QueuedStopFires
<1>5. NoDeadRegistration'
  BY <1>1 DEF IInv, NoDeadRegistration
<1>6. LiveRegistered'
  BY <1>1 DEF IInv, LiveRegistered
<1> QED  BY <1>2, <1>3, <1>4, <1>5, <1>6 DEF IInv

\* The page after an entry was removed and the gate set again
LEMMA DropKeeps ==
  ASSUME NEW n \in ClientType, NEW s \in Sessions
  PROVE  LET m == [n EXCEPT !.reg[s] = 0]
         IN  /\ Keeps(Idle(Sync(m)), m)
             /\ m.count = n.count /\ m.sess = n.sess /\ m.phase = n.phase
             /\ m.latest = n.latest /\ m.pend = n.pend /\ m.runId = n.runId
             /\ m.probe = n.probe /\ m.ctrl = n.ctrl
             /\ \A x \in Sessions : m.reg[x] = IF x = s THEN 0 ELSE n.reg[x]
<1> DEFINE m == [n EXCEPT !.reg[s] = 0]
<1>1. m \in ClientType
  BY NoSend DEF ClientType
<1>2. /\ m.count = n.count /\ m.sess = n.sess /\ m.phase = n.phase
      /\ m.latest = n.latest /\ m.pend = n.pend /\ m.runId = n.runId
      /\ m.probe = n.probe /\ m.ctrl = n.ctrl
      /\ \A x \in Sessions : m.reg[x] = IF x = s THEN 0 ELSE n.reg[x]
  BY DEF ClientType
<1> HIDE DEF m
<1>3. Keeps(Sync(m), m)
  BY <1>1, SyncKeeps
<1>4. Keeps(Idle(Sync(m)), Sync(m))
  BY <1>3, IdleKeeps DEF Keeps
<1>5. Keeps(Idle(Sync(m)), m)
  BY <1>3, <1>4, KeepsTrans
<1> QED  BY <1>2, <1>5 DEF m

LEMMA TabRecoveryStep ==
  ASSUME IInv, TabRecovery
  PROVE  IInv'
<1> DEFINE i == Foreground(cl)
           s == cl.current
           a == AbortSend(cl, i)
           m == [a EXCEPT !.reg[s] = 0]
<1>1. s \in Sessions /\ i = cl.reg[s] /\ i \in Sends
  BY Facts, FieldTypes, NoSend DEF TabRecovery, Foreground
<1>2. Keeps(a, cl) /\ a.ctrl[i] # "live"
  <2>1. Keeps(a, cl)
    BY <1>1, Facts, AbortKeeps DEF Sends, SendOrNone
  <2>2. a.ctrl[i] # "live"
    BY <1>1, Facts, AbortEnds
  <2> QED  BY <2>1, <2>2
<1>3. cl' = Idle(Sync(m))
  BY DEF TabRecovery
<1> HIDE DEF i, s, a
<1>4. /\ Keeps(cl', m)
      /\ m.count = a.count /\ m.sess = a.sess /\ m.phase = a.phase
      /\ m.latest = a.latest /\ m.pend = a.pend /\ m.runId = a.runId
      /\ m.probe = a.probe /\ m.ctrl = a.ctrl
      /\ \A x \in Sessions : m.reg[x] = IF x = s THEN 0 ELSE a.reg[x]
  BY <1>1, <1>2, <1>3, DropKeeps DEF Keeps
<1> HIDE DEF m
<1>5. /\ cl' \in ClientType
      /\ cl'.count = cl.count /\ cl'.sess = cl.sess /\ cl'.phase = cl.phase
      /\ cl'.latest = cl.latest /\ cl'.pend = cl.pend /\ cl'.runId = cl.runId
      /\ cl'.probe = cl.probe
      /\ \A x \in Sessions : cl'.reg[x] = IF x = s THEN 0 ELSE cl.reg[x]
  BY <1>2, <1>4 DEF Keeps
<1>6. \A j \in Sends : \/ cl'.ctrl[j] = cl.ctrl[j]
                       \/ cl.ctrl[j] = "live" /\ cl'.ctrl[j] = "aborted"
  BY <1>2, <1>4 DEF Keeps
<1>7. cl'.ctrl[i] # "live"
  BY <1>1, <1>2, <1>4 DEF Keeps
<1> QED  BY <1>1, <1>5, <1>6, <1>7, Facts, EventType, DropStep DEF TabRecovery, Quiet

LEMMA ProbeReplyStep ==
  ASSUME IInv, ProbeReply
  PROVE  IInv'
<1> DEFINE i == cl.probe
           s == cl.sess[i]
           c == [cl EXCEPT !.probe = 0, !.gone = FALSE]
           a == AbortSend(c, i)
           m == [a EXCEPT !.reg[s] = 0]
<1>1. /\ i \in Sends /\ s \in Sessions /\ i \in SendOrNone
      /\ UNCHANGED <<run, queued, named, stops, posts>> /\ events' \in 0 .. MaxEvents
  <2>1. i \in Sends /\ i \in SendOrNone
    BY Facts, FieldTypes, NoSend DEF ProbeReply
  <2>2. s \in Sessions
    BY <2>1, Facts DEF IInv, Counted
  <2> QED  BY <2>1, <2>2, EventType DEF ProbeReply
<1>2. /\ c \in ClientType /\ c.probe = 0 /\ 0 <= cl.count
      /\ c.count = cl.count /\ c.sess = cl.sess /\ c.phase = cl.phase
      /\ c.latest = cl.latest /\ c.reg = cl.reg /\ c.pend = cl.pend
      /\ c.runId = cl.runId /\ c.ctrl = cl.ctrl
  <2>1. 0 <= cl.count
    BY Facts DEF SendOrNone
  <2> QED  BY <2>1, Facts, NoSend DEF ClientType
<1>3. CASE cl' = c /\ UNCHANGED cut
  <2> HIDE DEF c
  <2> QED  BY <1>1, <1>2, <1>3, Facts, KeepStep
<1>4. CASE cl' = Idle(Sync(m)) /\ cut' = cut \cup ({cl.reg[s]} \ {0, i})
  <2> HIDE DEF c, s, i
  <2>1. Keeps(a, c) /\ a.ctrl[i] # "live"
    <3>1. Keeps(a, c)
      BY <1>1, <1>2, AbortKeeps
    <3>2. a.ctrl[i] # "live"
      BY <1>1, <1>2, AbortEnds
    <3> QED  BY <3>1, <3>2
  <2> HIDE DEF a
  <2>2. /\ Keeps(cl', m)
        /\ m.count = a.count /\ m.sess = a.sess /\ m.phase = a.phase
        /\ m.latest = a.latest /\ m.pend = a.pend /\ m.runId = a.runId
        /\ m.probe = a.probe /\ m.ctrl = a.ctrl
        /\ \A x \in Sessions : m.reg[x] = IF x = s THEN 0 ELSE a.reg[x]
    BY <1>1, <1>4, <2>1, DropKeeps DEF Keeps
  <2> HIDE DEF m
  <2>3. /\ cl' \in ClientType /\ cl'.probe <= cl.count
        /\ cl'.count = cl.count /\ cl'.sess = cl.sess /\ cl'.phase = cl.phase
        /\ cl'.latest = cl.latest /\ cl'.pend = cl.pend /\ cl'.runId = cl.runId
        /\ \A x \in Sessions : cl'.reg[x] = IF x = s THEN 0 ELSE cl.reg[x]
    BY <1>2, <2>1, <2>2 DEF Keeps
  <2>4. \A j \in Sends : \/ cl'.ctrl[j] = cl.ctrl[j]
                         \/ cl.ctrl[j] = "live" /\ cl'.ctrl[j] = "aborted"
    BY <1>2, <2>1, <2>2 DEF Keeps
  <2>5. cl'.ctrl[i] # "live"
    BY <1>1, <2>1, <2>2 DEF Keeps
  <2>6. cl.reg[s] # 0 => cl.reg[s] \in Sends
    BY <1>1, RegisteredSend
  <2>7. cut \subseteq cut' /\ cut' \subseteq Sends
    BY <1>4, <2>6, Facts
  <2>8. cl.reg[s] # 0 => cl'.ctrl[cl.reg[s]] # "live" \/ cl.reg[s] \in cut'
    BY <1>4, <2>5
  <2> QED  BY <1>1, <2>3, <2>4, <2>7, <2>8, DropStep
<1> QED  BY <1>3, <1>4 DEF ProbeReply

-----------------------------------------------------------------------------
(* The theorems.                                                           *)

LEMMA InitInv ==
  ASSUME Init
  PROVE  IInv
<1> PICK s \in Sessions :
       cl = [current |-> s, streaming |-> FALSE, abort |-> 0, count |-> 0,
             sess |-> [i \in Sends |-> None], phase |-> [i \in Sends |-> "none"],
             ctrl |-> [i \in Sends |-> "none"], latest |-> [x \in Sessions |-> 0],
             state |-> [x \in Sessions |-> 0], reg |-> [x \in Sessions |-> 0],
             runId |-> [x \in Sessions |-> 0], pend |-> [i \in Sends |-> "no"],
             timed |-> {}, bg |-> [x \in Sessions |-> "none"], sid |-> None,
             resuming |-> [x \in Sessions |-> 0], entries |-> {}, polls |-> {},
             asking |-> {}, answer |-> [x \in Sessions |-> 0], probe |-> 0, gone |-> FALSE]
  BY DEF Init
<1>1. cl \in ClientType
  BY NoSend DEF ClientType
<1>2. /\ cl.count = 0 /\ cl.probe = 0
      /\ \A i \in Sends : cl.phase[i] = "none" /\ cl.ctrl[i] = "none"
      /\ \A x \in Sessions : cl.latest[x] = 0 /\ cl.reg[x] = 0
  OBVIOUS
<1>3. /\ run \in [Sends -> {"none", "running", "over"}]
      /\ queued = {} /\ named = {} /\ stops = {} /\ cut = {} /\ events \in 0 .. MaxEvents
      /\ posts \in [Sessions -> SUBSET Sends] /\ \A x \in Sessions : posts[x] = {}
  BY DEF Init
<1>4. TypeOK
  BY <1>1, <1>2, <1>3 DEF TypeOK
<1>5. Counted
  BY <1>2, <1>3 DEF Counted, Sends
<1>6. StopKept /\ QueuedStopFires /\ NoDeadRegistration /\ LiveRegistered
  BY <1>2, <1>3 DEF StopKept, QueuedStopFires, NoDeadRegistration, LiveRegistered
<1> QED  BY <1>4, <1>5, <1>6 DEF IInv

LEMMA ServerSteps ==
  ASSUME IInv, NEW i \in Sends, Server(i)
  PROVE  IInv'
<1>1. CASE ServerStart(i)
  BY <1>1, Facts, ServerStep DEF ServerStart
<1>2. CASE ServerStop(i)
  BY <1>2, Facts, ServerStep DEF ServerStop
<1>3. CASE ServerDone(i)
  BY <1>3, Facts, ServerStep DEF ServerDone
<1> QED  BY <1>1, <1>2, <1>3 DEF Server

LEMMA NextInv ==
  ASSUME IInv, [Next]_vars
  PROVE  IInv'
<1>1. CASE \/ Press \/ Stop \/ NewChat
           \/ StartProbe \/ ServeProbe \/ ProbeReply \/ TabRecovery
  BY <1>1, PressStep, StopStep, NewChatStep, StartProbeStep, ServeProbeStep, ProbeReplyStep,
     TabRecoveryStep
<1>2. ASSUME NEW s \in Sessions,
             Select(s) \/ Entry(s) \/ Poll(s) \/ ServeResume(s) \/ Resumed(s) \/ ResumeEnds(s)
      PROVE  IInv'
  BY <1>2, SelectStep, EntryStep, PollStep, ServeResumeStep, ResumedStep, ResumeEndsStep
<1>3. ASSUME NEW i \in Sends, Step(i)
      PROVE  IInv'
  BY <1>3, SwitchDoneStep, PreflightStep, HeadersStep, FinishStep, RefusalShownStep,
     AbortedStep, HardAbortStep DEF Step
<1>4. ASSUME NEW i \in Sends,
             Server(i) \/ Output(i) \/ PreflightFails(i) \/ Lost(i) \/ Refused(i) \/ Timeout(i)
      PROVE  IInv'
  BY <1>4, ServerSteps, OutputStep, PreflightFailsStep, LostStep, RefusedStep, TimeoutStep
<1>5. CASE UNCHANGED vars
  BY <1>5 DEF vars, IInv, TypeOK, Counted, StopKept, QueuedStopFires, NoDeadRegistration,
              LiveRegistered
<1> QED  BY <1>1, <1>2, <1>3, <1>4, <1>5 DEF Next

\* The invariant holds in every behaviour.
THEOREM Invariance == Spec => []IInv
<1>1. Init => IInv
  BY InitInv
<1>2. IInv /\ [Next]_vars => IInv'
  BY NextInv
<1> QED  BY <1>1, <1>2, PTL DEF Spec

\* chat.js:617-633: the state of the page is well typed; an entry of _activeStreams has the
\* controller and the chat of its send.
THEOREM TypeCorrect == Spec => []TypeOK
<1>1. IInv => TypeOK
  BY DEF IInv
<1> QED  BY <1>1, Invariance, PTL

\* chat.js:684-721: a Stop queued before the header arrives is posted with the
\* run's name when it does, however many sends, switches, timeouts and resumed
\* streams come between (_stopExactRun, _rememberStreamRunId).
THEOREM QueuedStops == Spec => []QueuedStopFires
<1>1. IInv => QueuedStopFires
  BY DEF IInv
<1> QED  BY <1>1, Invariance, PTL

\* chat.js:4541-4668: a registered stream is read by its send, and the latest
\* send of a chat stays registered while it is read (finally of
\* handleChatSubmit).
THEOREM Registrations == Spec => []RegistryExact
<1>1. IInv => RegistryExact
  BY DEF IInv, RegistryExact
<1> QED  BY <1>1, Invariance, PTL

\* chat.js:1446-2012: the sends of a chat are posted in the order of their commits:
\* the latest send is the greatest that has posted, and only it may post.
THEOREM PostOrder == Spec => PostsInOrder
<1>1. ASSUME IInv, [Next]_vars, NEW s \in Sessions,
             NEW i \in posts'[s] \ posts[s], NEW j \in posts[s]
      PROVE  j < i
  <2>1. j \in Sends /\ j <= cl.latest[s]
    BY <1>1, Facts DEF IInv, Counted
  <2>2. ASSUME NEW k \in Sends, Preflight(k)
        PROVE  i = k /\ cl.latest[s] = k
    <3>1. cl.sess[k] \in Sessions
      BY <1>1, <2>2, CommittedChat DEF Preflight
    <3>2. cl.latest[cl.sess[k]] = k /\ posts' = [posts EXCEPT ![cl.sess[k]] = @ \cup {k}]
      BY <2>2 DEF Preflight
    <3> QED  BY <1>1, <3>1, <3>2, Facts
  <2>3. CASE \E k \in Sends : Preflight(k)
    <3>1. PICK k \in Sends : Preflight(k)
      BY <2>3
    <3>2. i = k /\ cl.latest[s] = k
      BY <2>2, <3>1
    <3> QED  BY <2>1, <3>2 DEF Sends
  <2>4. CASE posts' = posts
    BY <2>4, SMTT(60)
  <2>5. posts' = posts \/ \E k \in Sends : Preflight(k)
    BY <1>1 DEF Next, vars, Step, Server, Press, Stop, NewChat, StartProbe, ServeProbe, ProbeReply,
                TabRecovery, Select, Entry, Poll, ServeResume, Resumed, ResumeEnds, SwitchDone,
                Headers, Finish, Aborted, HardAbort, ServerStart, ServerStop, ServerDone,
                Output, PreflightFails, Lost, Refused, RefusalShown, Timeout, Quiet
  <2> QED  BY <2>3, <2>4, <2>5
<1>2. IInv /\ [Next]_vars =>
        [\A s \in Sessions : \A i \in posts'[s] \ posts[s], j \in posts[s] : j < i]_vars
  BY <1>1
<1> QED  BY <1>2, Invariance, PTL DEF Spec, PostsInOrder
=============================================================================
