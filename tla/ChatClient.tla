------------------------------ MODULE ChatClient ------------------------------
(***************************************************************************)
(* The life of a message in the browser after it is sent, and its Stop     *)
(* (src/static/js/chat.js, with _checkServerStream of sessions.js).        *)
(*                                                                         *)
(* A send prepares, posts, waits for the header that names its run on the  *)
(* server and reads the answer.  Meanwhile the user stops it, sends again, *)
(* changes the chat and comes back.  Generations, controllers and queued   *)
(* Stops decide whose state a late step may touch.                         *)
(*                                                                         *)
(* A send is its number; its generation, its controller and its run on the *)
(* server are known by the same number, 0 being none.  The answer's text,  *)
(* documents, research, tool approvals, compare and group mode, the queue  *)
(* of further requests and terminal events are left out.                   *)
(***************************************************************************)
EXTENDS Naturals

CONSTANTS
    Sessions,     \* chats
    None,         \* no chat is open
    MaxSends,     \* bound: messages sent
    MaxEvents     \* bound: chats opened or left, Stops, connections lost,
                  \* requests refused, uploads failed, timeouts and watchdog alarms

ASSUME ClientAssumption ==
    /\ None \notin Sessions
    /\ MaxSends \in Nat /\ MaxEvents \in Nat

VARIABLES
    cl,        \* the state of the module, a record (see ClientType)
    run,       \* the runs on the server, by the send that started them
    queued,    \* sends for which a Stop was queued
    named,     \* sends whose header has arrived
    stops,     \* runs for which a Stop was posted
    posts,     \* for each chat, the sends that posted, in their order
    cut,       \* sends whose registration the watchdog of another removed
    events     \* number of events

vars == <<cl, run, queued, named, stops, posts, cut, events>>

Sends == 1 .. MaxSends
SendOrNone == 0 .. MaxSends

ClientType ==
    [current : Sessions \cup {None},
     streaming : BOOLEAN,                        \* isStreaming
     abort : SendOrNone,                         \* currentAbort
     count : SendOrNone,                         \* messages sent so far
     sess : [Sends -> Sessions \cup {None}],
     phase : [Sends -> {"none", "switch", "preflight", "post", "read", "refused", "done", "failed"}],
     ctrl : [Sends -> {"none", "live", "aborted"}],     \* the send's AbortController
     latest : [Sessions -> SendOrNone],          \* _streamGenerations
     state : [Sessions -> SendOrNone],           \* _sendStates
     reg : [Sessions -> SendOrNone],             \* _activeStreams
     runId : [Sessions -> SendOrNone],           \* _streamRunIds
     pend : [Sends -> {"no", "null", "own"}],    \* _pendingRunStops, with its controller
     timed : SUBSET Sends,                       \* waiting for the hard abort
     bg : [Sessions -> {"none", "running", "completed", "error"}],  \* _backgroundStreams
     sid : Sessions \cup {None},                 \* _streamSessionId
     resuming : [Sessions -> SendOrNone],        \* _resumingStreams, by the run it reads
     entries : SUBSET Sessions,                  \* chats opened, their streams not yet looked for
     polls : SUBSET Sessions,                    \* polls of a stream in the background
     asking : SUBSET Sessions,                   \* resume requests sent
     answer : [Sessions -> SendOrNone],          \* the runs that their answers replay
     probe : SendOrNone,                         \* the stream the watchdog asks about
     gone : BOOLEAN]                             \* the server found no run of its chat

\* Type correctness.  A send that has not posted has no controller, and a
\* registered send has one.
TypeOK ==
    /\ cl \in ClientType
    /\ \A i \in Sends : cl.phase[i] \in {"none", "switch", "preflight"} => cl.ctrl[i] = "none"
    /\ \A s \in Sessions : cl.reg[s] # 0 => cl.ctrl[cl.reg[s]] # "none" /\ cl.sess[cl.reg[s]] = s
    /\ run \in [Sends -> {"none", "running", "over"}]
    /\ queued \subseteq Sends /\ named \subseteq Sends /\ stops \subseteq Sends
    /\ posts \in [Sessions -> SUBSET Sends] /\ cut \subseteq Sends
    /\ events \in 0 .. MaxEvents

-----------------------------------------------------------------------------
(* Helpers of the code, as functions of the state record.                  *)

hasActiveStream(n, s) ==
    n.reg[s] # 0 \/ n.sid = s \/ n.bg[s] # "none" \/ n.resuming[s] # 0

Foreground(n) == IF n.current = None THEN 0 ELSE n.reg[n.current]

\* _syncForegroundStreamGlobals
Sync(n) == [n EXCEPT !.streaming = Foreground(n) # 0, !.abort = Foreground(n)]
Idle(n) == [n EXCEPT !.streaming = FALSE]

AbortSend(n, i) == IF i # 0 /\ n.ctrl[i] = "live" THEN [n EXCEPT !.ctrl[i] = "aborted"] ELSE n

\* The controller of abortCurrentRequest: that of the chat's current send,
\* which has none before it posts
StopChat(n) == IF n.current # None THEN n.current ELSE n.sid
CurrentCtrl(n) ==
    LET s == StopChat(n)
    IN  IF s # None /\ n.state[s] # 0
        THEN IF n.ctrl[n.state[s]] = "none" THEN 0 ELSE n.state[s]
        ELSE IF Foreground(n) # 0 THEN Foreground(n) ELSE n.abort

detachCurrentStream(n, s) ==
    LET active == IF s # None THEN n.reg[s] ELSE Foreground(n)
        m == [n EXCEPT !.bg = IF s = None THEN @ ELSE [@ EXCEPT ![s] = "running"],
                       !.sid = IF @ = s THEN None ELSE @]
    IN  IF active = 0 THEN AbortSend(n, CurrentCtrl(n)) ELSE Idle(Sync(m))

\* selectSession, up to its look for a stream of the chat
Open(n, s) ==
    LET m == detachCurrentStream([n EXCEPT !.current = s], n.current)
    IN  [m EXCEPT !.entries = @ \cup {s}]

\* catch and finally of handleChatSubmit
Failed(n, i) ==
    LET s == n.sess[i]
    IN  [n EXCEPT !.bg[s] = IF @ = "running" THEN "error" ELSE @]
\* Mutant: the entry is removed by the owner of the chat alone
Mutant_Cleanup_OwnerRemoves(n, i) ==
    LET s == n.sess[i]
        m == [n EXCEPT !.phase[i] = "done", !.pend[i] = "no", !.timed = @ \ {i}]
        o == Sync([m EXCEPT !.sid = IF @ = s THEN None ELSE @, !.reg[s] = 0,
                            !.state[s] = IF @ = i THEN 0 ELSE @])
    IN  IF n.latest[s] # i THEN m
        ELSE IF n.current = s /\ n.bg[s] = "none" THEN Idle(o) ELSE o

\* Mutant: the entry is removed whoever has registered it
Mutant_Cleanup_AnyEntry(n, i) ==
    LET s == n.sess[i]
        own == n.latest[s] = i
        m == [n EXCEPT !.phase[i] = "done", !.pend[i] = "no", !.timed = @ \ {i},
                       !.reg[s] = 0]
        o == Sync([m EXCEPT !.sid = IF @ = s THEN None ELSE @,
                            !.state[s] = IF @ = i THEN 0 ELSE @])
    IN  IF ~own THEN m ELSE IF n.current = s /\ n.bg[s] = "none" THEN Idle(o) ELSE o

\* Mutant: finally does not resynchronise the gate
Mutant_Cleanup_NoSync(n, i) ==
    LET s == n.sess[i]
        m == [n EXCEPT !.phase[i] = "done", !.pend[i] = "no", !.timed = @ \ {i},
                       !.reg[s] = IF @ = i THEN 0 ELSE @]
        o == [m EXCEPT !.sid = IF @ = s THEN None ELSE @,
                       !.state[s] = IF @ = i THEN 0 ELSE @]
    IN  IF n.latest[s] # i THEN m
        ELSE IF n.current = s /\ n.bg[s] = "none" THEN Idle(o) ELSE o

Cleanup(n, i) ==
    LET s == n.sess[i]
        own == n.latest[s] = i
        m == [n EXCEPT !.phase[i] = "done", !.pend[i] = "no", !.timed = @ \ {i},
                       !.reg[s] = IF @ = i THEN 0 ELSE @]
        o == Sync([m EXCEPT !.sid = IF @ = s THEN None ELSE @,
                            !.state[s] = IF @ = i THEN 0 ELSE @])
    IN  IF ~own THEN m ELSE IF n.current = s /\ n.bg[s] = "none" THEN Idle(o) ELSE o

-----------------------------------------------------------------------------
Init ==
    /\ \E s \in Sessions :
          cl = [current |-> s, streaming |-> FALSE, abort |-> 0, count |-> 0,
                sess |-> [i \in Sends |-> None], phase |-> [i \in Sends |-> "none"],
                ctrl |-> [i \in Sends |-> "none"], latest |-> [x \in Sessions |-> 0],
                state |-> [x \in Sessions |-> 0], reg |-> [x \in Sessions |-> 0],
                runId |-> [x \in Sessions |-> 0], pend |-> [i \in Sends |-> "no"],
                timed |-> {}, bg |-> [x \in Sessions |-> "none"], sid |-> None,
                resuming |-> [x \in Sessions |-> 0], entries |-> {}, polls |-> {},
                asking |-> {}, answer |-> [x \in Sessions |-> 0], probe |-> 0, gone |-> FALSE]
    /\ run = [i \in Sends |-> "none"]
    /\ queued = {} /\ named = {} /\ stops = {} /\ cut = {}
    /\ posts = [s \in Sessions |-> {}]
    /\ events = 0

\* An abort rejects the pending fetch or read at once, and its catch and
\* finally run as microtasks: no event comes between
Unwinding == {i \in Sends : cl.phase[i] \in {"post", "read"} /\ cl.ctrl[i] = "aborted"}

Settled == Unwinding = {}
Event == Settled /\ events < MaxEvents /\ events' = events + 1
Inner == Settled /\ UNCHANGED events
Quiet == UNCHANGED <<run, queued, named, stops, posts, cut>>

-----------------------------------------------------------------------------
(* The user.                                                               *)

\* The commit of handleChatSubmit: from here on the send is the chat's latest
Press ==
    LET i == cl.count + 1
        s == cl.current
        m == [cl EXCEPT !.count = i, !.sess[i] = s, !.phase[i] = "switch",
                        !.streaming = TRUE]
    IN  /\ cl.current # None /\ ~cl.streaming /\ i \in Sends
        /\ cl' = [m EXCEPT !.latest[s] = i, !.state[s] = i, !.runId[s] = 0, !.sid = s]
        /\ Quiet /\ Inner

\* abortCurrentRequest(true): the run is stopped if its name is known, else
\* the Stop is queued for the send that will learn it
Stop ==
    LET s == StopChat(cl)
        ctrl == CurrentCtrl(cl)
        known == s # None /\ cl.runId[s] # 0
        i == IF s = None THEN 0 ELSE cl.latest[s]
    IN  /\ cl.streaming
        /\ \/ /\ known \/ s = None
              /\ cl' = Idle(AbortSend(cl, ctrl))
              /\ stops' = IF known THEN stops \cup {cl.runId[s]} ELSE stops
              /\ UNCHANGED queued
           \/ /\ s # None /\ ~known
              /\ cl' = IF i = 0 THEN Idle(cl)
                      ELSE Idle([cl EXCEPT !.pend[i] =
                                    IF ctrl # 0 THEN "own" ELSE IF @ = "no" THEN "null" ELSE @])
              /\ queued' = IF i = 0 THEN queued ELSE queued \cup {i}
              /\ UNCHANGED stops
        /\ Event /\ UNCHANGED <<run, named, posts, cut>>

Select(s) == cl' = Open(cl, s) /\ Event /\ Quiet

NewChat ==
    /\ cl' = [detachCurrentStream(cl, cl.current) EXCEPT !.current = None]
    /\ Event /\ Quiet

-----------------------------------------------------------------------------
(* The send.                                                               *)

\* The switch of the model is over
SwitchDone(i) ==
    /\ cl.phase[i] = "switch"
    /\ cl' = [cl EXCEPT !.phase[i] = IF cl.latest[cl.sess[i]] = i THEN "preflight" ELSE "done"]
    /\ Quiet /\ Inner

\* Mutant: the generation is not looked at after the uploads
Mutant_Preflight_Superseded(i) ==
    LET s == cl.sess[i]
    IN  /\ cl.phase[i] = "preflight"
        /\ cl' = Sync([cl EXCEPT !.phase[i] = "post", !.ctrl[i] = "live", !.reg[s] = i])
        /\ posts' = [posts EXCEPT ![s] = @ \cup {i}]
        /\ UNCHANGED <<run, queued, named, stops, cut>> /\ Inner

\* Mutant: the entry is registered without a controller of its own
Mutant_Preflight_NoController(i) ==
    LET s == cl.sess[i]
    IN  /\ cl.phase[i] = "preflight"
        /\ \/ cl.latest[s] # i /\ cl' = Cleanup(cl, i) /\ UNCHANGED posts
           \/ /\ cl.latest[s] = i
              /\ cl' = Sync([cl EXCEPT !.phase[i] = "post", !.reg[s] = i])
              /\ posts' = [posts EXCEPT ![s] = @ \cup {i}]
        /\ UNCHANGED <<run, queued, named, stops, cut>> /\ Inner

\* Uploads and document saves are over
Preflight(i) ==
    LET s == cl.sess[i]
    IN  /\ cl.phase[i] = "preflight"
        /\ \/ cl.latest[s] # i /\ cl' = Cleanup(cl, i) /\ UNCHANGED posts
           \/ /\ cl.latest[s] = i
              /\ cl' = Sync([cl EXCEPT !.phase[i] = "post", !.ctrl[i] = "live", !.reg[s] = i])
              /\ posts' = [posts EXCEPT ![s] = @ \cup {i}]
        /\ UNCHANGED <<run, queued, named, stops, cut>> /\ Inner

\* The upload fails
PreflightFails(i) ==
    /\ cl.phase[i] = "preflight"
    /\ cl' = [Cleanup(Idle(cl), i) EXCEPT !.phase[i] = "failed"]
    /\ Event /\ Quiet

\* Mutant: a superseded send does not flush its Stop
Mutant_Headers_LatestOnly(i) ==
    LET s == cl.sess[i]
        flush == cl.latest[s] = i /\ cl.pend[i] # "no"
        m == [cl EXCEPT !.phase[i] = "read", !.pend[i] = "no",
                        !.runId[s] = IF cl.latest[s] = i THEN i ELSE @]
    IN  /\ cl.phase[i] = "post" /\ cl.ctrl[i] = "live" /\ run[i] # "none"
        /\ cl' = IF flush /\ cl.pend[i] = "own" THEN AbortSend(m, i) ELSE m
        /\ stops' = IF flush THEN stops \cup {i} ELSE stops
        /\ named' = named \cup {i}
        /\ UNCHANGED <<run, queued, posts, cut>> /\ Inner

\* _rememberStreamRunId: the header flushes the send's own Stop, whoever is
\* the latest send by now
Headers(i) ==
    LET s == cl.sess[i]
        m == [cl EXCEPT !.phase[i] = "read", !.pend[i] = "no",
                        !.runId[s] = IF cl.latest[s] = i THEN i ELSE @]
    IN  /\ cl.phase[i] = "post" /\ cl.ctrl[i] = "live" /\ run[i] # "none"
        /\ cl' = IF cl.pend[i] = "own" THEN AbortSend(m, i) ELSE m
        /\ stops' = IF cl.pend[i] # "no" THEN stops \cup {i} ELSE stops
        /\ named' = named \cup {i}
        /\ UNCHANGED <<run, queued, posts, cut>> /\ Inner

\* A line of the answer, while another chat is open
Output(i) ==
    LET s == cl.sess[i]
    IN  /\ cl.phase[i] = "read" /\ cl.ctrl[i] = "live"
        /\ cl.current # s /\ cl.bg[s] = "none"
        /\ cl' = [cl EXCEPT !.bg[s] = "running"]
        /\ Quiet /\ Inner

\* [DONE], the last render and finally
Finish(i) ==
    LET s == cl.sess[i]
        m == [cl EXCEPT !.bg[s] = IF cl.current = s THEN "none" ELSE "completed"]
    IN  /\ cl.phase[i] = "read" /\ cl.ctrl[i] = "live" /\ run[i] = "over"
        /\ cl' = Cleanup(m, i)
        /\ Quiet /\ Inner

\* The rejection that follows an abort
Aborted(i) ==
    /\ i \in Unwinding
    /\ cl' = Cleanup(Failed(cl, i), i)
    /\ Quiet /\ UNCHANGED events

\* The connection is lost.  A Stop that waits for the header goes with it;
\* otherwise the stream may be taken up again (_tryAutoRecover)
Lost(i) ==
    LET s == cl.sess[i]
        bg == cl.current # s \/ cl.bg[s] # "none"
        m == Cleanup(Failed(AbortSend(cl, IF cl.pend[i] # "no" THEN i ELSE 0), i), i)
    IN  /\ cl.phase[i] \in {"post", "read"} /\ cl.ctrl[i] = "live"
        /\ cl' = IF bg \/ cl.pend[i] # "no" THEN m ELSE [m EXCEPT !.entries = @ \cup {s}]
        /\ Event /\ Quiet

\* The server answers with an error and starts no run: finally without catch, so that
\* an entry of the background stays "running"
Refused(i) ==
    /\ cl.phase[i] = "post" /\ cl.ctrl[i] = "live" /\ run[i] = "none"
    /\ cl' = [cl EXCEPT !.phase[i] = "refused"]
    /\ run' = [run EXCEPT ![i] = "over"]
    /\ Event /\ UNCHANGED <<queued, named, stops, posts, cut>>

\* The text of the error is read, or the list of chats loaded again
RefusalShown(i) ==
    /\ cl.phase[i] = "refused"
    /\ cl' = Cleanup(cl, i)
    /\ Quiet /\ Inner

Timeout(i) ==
    LET s == cl.sess[i]
        known == cl.runId[s] # 0
    IN  /\ cl.phase[i] \in {"post", "read"} /\ cl.ctrl[i] = "live"
        /\ \/ cl.latest[s] # i /\ cl' = AbortSend(cl, i) /\ UNCHANGED <<queued, stops>>
           \/ /\ cl.latest[s] = i /\ known
              /\ cl' = AbortSend(cl, i) /\ stops' = stops \cup {cl.runId[s]} /\ UNCHANGED queued
           \/ /\ cl.latest[s] = i /\ ~known
              /\ cl' = [cl EXCEPT !.pend[i] = "own", !.timed = @ \cup {i}]
              /\ queued' = queued \cup {i} /\ UNCHANGED stops
        /\ Event /\ UNCHANGED <<run, named, posts, cut>>

HardAbort(i) ==
    /\ i \in cl.timed
    /\ cl' = AbortSend([cl EXCEPT !.timed = @ \ {i}], i)
    /\ Quiet /\ Inner

-----------------------------------------------------------------------------
(* Streams found when a chat is opened again.                              *)

\* checkBackgroundStream, then _checkServerStream and resumeStream's own check
Entry(s) ==
    LET m == [cl EXCEPT !.entries = @ \ {s},
                        !.bg[s] = IF @ \in {"completed", "error"} THEN "none" ELSE @,
                        !.polls = IF cl.bg[s] = "running" THEN @ \cup {s} ELSE @]
    IN  /\ s \in cl.entries
        /\ \/ cl.current # s /\ cl' = [cl EXCEPT !.entries = @ \ {s}]
           \/ /\ cl.current = s
              /\ cl' = IF hasActiveStream(m, s) THEN m ELSE [m EXCEPT !.asking = @ \cup {s}]
        /\ Quiet /\ Inner

Poll(s) ==
    LET m == [cl EXCEPT !.polls = @ \ {s}]
    IN  /\ s \in cl.polls
        /\ \/ cl.current # s /\ cl' = m
           \/ /\ cl.current = s /\ cl.bg[s] # "running"
              /\ cl' = Open([m EXCEPT !.bg[s] = "none"], s)
        /\ Quiet /\ Inner

\* The server names the run that it replays, if there is one
ServeResume(s) ==
    /\ s \in cl.asking /\ cl.answer[s] = 0
    /\ \/ \E i \in Sends : /\ cl.sess[i] = s /\ run[i] = "running"
                           /\ cl' = [cl EXCEPT !.asking = @ \ {s}, !.answer[s] = i]
       \/ /\ \A i \in Sends : cl.sess[i] = s => run[i] # "running"
          /\ cl' = [cl EXCEPT !.asking = @ \ {s}]
    /\ Quiet /\ Inner

\* resumeStream after its await looks neither at the send nor at the chat
Resumed(s) ==
    /\ cl.answer[s] # 0
    /\ cl' = [cl EXCEPT !.answer[s] = 0, !.runId[s] = cl.answer[s],
                        !.resuming[s] = cl.answer[s]]
    /\ Quiet /\ Inner

\* The chat is left, or the replay ends: in place, or by opening the chat again
ResumeEnds(s) ==
    LET m == [cl EXCEPT !.resuming[s] = 0]
    IN  /\ cl.resuming[s] # 0
        /\ \/ cl.current # s /\ cl' = m
           \/ cl.current = s /\ run[cl.resuming[s]] = "over" /\ cl' \in {m, Open(m, s)}
        /\ Quiet /\ Inner

\* The watchdog asks the server about a stream that has been silent
StartProbe ==
    LET i == Foreground(cl)
    IN  /\ i # 0 /\ cl.probe = 0 /\ cl.bg[cl.current] = "none"
        /\ cl' = [cl EXCEPT !.probe = i]
        /\ Event /\ Quiet

\* The server looks for a run of the chat
ServeProbe ==
    /\ cl.probe # 0 /\ ~cl.gone
    /\ \A j \in Sends : cl.sess[j] = cl.sess[cl.probe] => run[j] # "running"
    /\ cl' = [cl EXCEPT !.gone = TRUE]
    /\ Quiet /\ Inner

\* The answer may find a run, or be lost.  If there was none, the stream that was asked
\* about is aborted, and whatever is registered by now is removed
ProbeReply ==
    LET i == cl.probe
        s == cl.sess[i]
        m == [cl EXCEPT !.probe = 0, !.gone = FALSE]
    IN  /\ cl.probe # 0
        /\ \/ cl' = m /\ UNCHANGED cut
           \/ /\ cl.gone /\ Foreground(cl) # 0 /\ cl.bg[s] = "none"
              /\ cl' = Idle(Sync([AbortSend(m, i) EXCEPT !.reg[s] = 0]))
              /\ cut' = cut \cup ({cl.reg[s]} \ {0, i})
        /\ UNCHANGED <<run, queued, named, stops, posts>> /\ Inner

\* The tab was asleep: the stream is given up
TabRecovery ==
    LET i == Foreground(cl)
    IN  /\ i # 0
        /\ cl' = Idle(Sync([AbortSend(cl, i) EXCEPT !.reg[cl.current] = 0]))
        /\ Event /\ Quiet

-----------------------------------------------------------------------------
(* The server: one run a chat, a new one replaces it; an exact Stop ends   *)
(* the run it names.                                                       *)

\* A request is served even if the browser has given it up since
ServerStart(i) ==
    LET s == cl.sess[i]
    IN  /\ cl.phase[i] \in {"post", "done"} /\ cl.ctrl[i] # "none" /\ run[i] = "none"
        /\ run' = [j \in Sends |-> IF j = i THEN "running"
                                   ELSE IF cl.sess[j] = s /\ run[j] = "running" THEN "over"
                                   ELSE run[j]]
        /\ UNCHANGED <<cl, queued, named, stops, posts, cut>> /\ Inner

ServerStop(i) ==
    /\ i \in stops /\ run[i] = "running"
    /\ run' = [run EXCEPT ![i] = "over"]
    /\ UNCHANGED <<cl, queued, named, stops, posts, cut>> /\ Inner

ServerDone(i) ==
    /\ run[i] = "running"
    /\ run' = [run EXCEPT ![i] = "over"]
    /\ UNCHANGED <<cl, queued, named, stops, posts, cut>> /\ Inner

-----------------------------------------------------------------------------
Step(i) == SwitchDone(i) \/ Preflight(i) \/ Headers(i) \/ Finish(i) \/ RefusalShown(i)
           \/ Aborted(i) \/ HardAbort(i)

Server(i) == ServerStart(i) \/ ServerStop(i) \/ ServerDone(i)

Next ==
    \/ Press \/ Stop \/ NewChat \/ StartProbe \/ ServeProbe \/ ProbeReply \/ TabRecovery
    \/ \E s \in Sessions : \/ Select(s) \/ Entry(s) \/ Poll(s)
                           \/ ServeResume(s) \/ Resumed(s) \/ ResumeEnds(s)
    \/ \E i \in Sends : \/ Step(i) \/ Server(i) \/ Output(i)
                        \/ PreflightFails(i) \/ Lost(i) \/ Refused(i) \/ Timeout(i)

\* The browser runs its callbacks; the server starts a run for a request and
\* ends it (AgentRuns)
Fairness ==
    \A i \in Sends : WF_vars(Step(i)) /\ WF_vars(ServerStart(i)) /\ WF_vars(ServerDone(i))

Spec == Init /\ [][Next]_vars /\ Fairness
-----------------------------------------------------------------------------
(* Properties.                                                             *)

\* A Stop pressed before the header arrived is posted with the run's own name
\* as soon as the header arrives, whoever has become the latest send since
\* (_stopExactRun queues it by generation, _rememberStreamRunId flushes it)
QueuedStopFires == queued \cap named \subseteq stops

\* A send is never posted after a later send of its chat, whatever it awaited before: the
\* server would cancel the newer run in favour of the old one (the checks of the
\* generation after each await of handleChatSubmit).  This is the order in which the page
\* posts, not that in which two requests under way reach the server
PostsInOrder ==
    [][\A s \in Sessions : \A i \in posts'[s] \ posts[s], j \in posts[s] : j < i]_vars

\* A registered stream is one that is being read: no send leaves its entry
\* behind for Stop, polls and the composer to find (finally)
NoDeadRegistration ==
    \A s \in Sessions : cl.reg[s] # 0 => cl.phase[cl.reg[s]] \in {"post", "read", "refused"}

\* The latest send of a chat stays registered while it is read, whatever the
\* superseded sends clean up, unless a watchdog or the user gave it up
LiveRegistered ==
    \A s \in Sessions :
        LET i == cl.latest[s]
        IN  i # 0 /\ cl.phase[i] \in {"post", "read", "refused"} /\ cl.ctrl[i] = "live" /\ i \notin cut
                => cl.reg[s] = i

\* _activeStreams names exactly the streams that are read: the cleanup of a send
\* neither leaves a dead entry nor takes that of a later send (finally)
RegistryExact == NoDeadRegistration /\ LiveRegistered

\* The composer is never locked for ever: it opens again after every send,
\* whether it is answered, stopped, left, lost or replaced (finally
\* resynchronises the gate).  A send whose upload failed is excepted: its
\* finally takes the gate from an older stream that is still registered, and
\* that one, superseded, does not give it back
ComposerUnlocks == cl.streaming ~> (~cl.streaming \/ \E i \in Sends : cl.phase[i] = "failed")
=============================================================================
