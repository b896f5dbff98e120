------------------------------ MODULE SessionNav ------------------------------
(***************************************************************************)
(* Which chat the browser shows and which chat a message is sent to        *)
(* (src/static/js/sessions.js, with the model picker and the first half of *)
(* handleChatSubmit in chat.js).                                           *)
(*                                                                         *)
(* The history of a chat, the list of chats, the creation of a deferred    *)
(* "New Chat" and the default model are fetched; between the request and   *)
(* its answer the user goes elsewhere.  A navigation token, the identity   *)
(* of the deferred chat and a shared promise decide which answer counts.   *)
(*                                                                         *)
(* A deferred chat is the number of its _pendingChat object.  Messages,    *)
(* models, incognito, group and compare mode and the layout are left out.  *)
(***************************************************************************)
EXTENDS Naturals, FiniteSets

CONSTANTS
    Active,       \* chats of the user that exist and are listed
    Transient,    \* those of them in the Assistant and Tasks folders
    Archived,     \* chats that exist and are not listed
    Fresh,        \* identifiers of chats that do not exist yet
    None,         \* null
    Loading,      \* the pane shows the placeholder of a chat being loaded
    Failed,       \* the pane shows that a chat could not be loaded
    MaxCalls,     \* bound: requests in flight when the user acts
    MaxInputs     \* bound: inputs of the user and list reloads

Sessions == Active \cup Archived \cup Fresh

ASSUME NavAssumption ==
    /\ Transient \subseteq Active
    /\ Active \cap Archived = {} /\ (Active \cup Archived) \cap Fresh = {}
    /\ {None, Loading, Failed} \cap Sessions = {} /\ Cardinality({None, Loading, Failed}) = 3
    /\ \A s \in Sessions \cup {None, Loading, Failed} : s \notin Nat
    /\ MaxCalls \in Nat /\ MaxInputs \in Nat

VARIABLES
    nav,       \* the state of the modules, a record (see NavType)
    exists,    \* chats on the server
    made,      \* the chats created, each with the deferred chat it was created for
    posts,     \* messages sent: where they were written and where they went, except
               \* those that were held back as a command or a key
    inputs     \* number of inputs so far

vars == <<nav, exists, made, posts, inputs>>

Chats == 0 .. 2 * MaxInputs + 2      \* 0 is no deferred chat
Place == Sessions \cup {None} \cup Chats

\* One record for every fetch and every call that is awaited
Call == [kind : {"select", "mat", "drop", "delete", "list", "peek", "pick", "default", "auto",
                 "catalog"},
         id : Sessions \cup {None}, chat : Chats, token : Nat,
         phase : {"sent", "served", "swap", "failed"}, timer : BOOLEAN, adopt : BOOLEAN,
         ids : SUBSET Sessions]

NavType ==
    [current : Sessions \cup {None},       \* currentSessionId
     token : Nat,                          \* _sessionNavToken
     pending : Chats,                      \* _pendingChat
     chats : Chats,                        \* deferred chats so far
     manual : SUBSET Chats,                \* those with source 'manual'
     promise : Chats,                      \* _pendingMaterializePromise, by its chat
     pane : Sessions \cup {None, Loading, Failed},   \* the chat history shown
     hash : Sessions \cup {None},          \* location.hash
     last : Sessions \cup {None},          \* __telemachosLastSelectedSessionId
     saved : Sessions \cup {None},         \* lastSessionId of the local storage
     row : Sessions \cup {None},           \* the row of the list that is highlighted
     skip : BOOLEAN, rooted : BOOLEAN,     \* _skipAutoSelect, _rootFreshChatApplied
     listed : SUBSET Sessions,             \* the list of active chats
     picking : {"no", "valid", "stale"},   \* _defaultChatPickInFlight and its sequence number
     auto : BOOLEAN,                       \* _autoCreateInProgress
     sending : {"no", "slash", "adopt", "mat", "default", "confirm"},  \* what _sendInFlight waits for
     from : Place, waits : Chats,          \* of the message being sent
     held : BOOLEAN,                       \* it was held back
     calls : SUBSET Call]

\* Type correctness.  A promise that is kept is that of a creation in flight,
\* and only a message that is being sent waits for one.
TypeOK ==
    /\ nav \in NavType
    /\ nav.promise # 0 => \E c \in nav.calls : c.kind = "mat" /\ c.chat = nav.promise
    /\ nav.waits # 0 <=> nav.sending = "mat"
    /\ exists \subseteq Sessions
    /\ made \subseteq [chat : Chats, id : Fresh]
    /\ posts \subseteq [from : Place, to : Sessions]
    /\ inputs \in 0 .. MaxInputs

-----------------------------------------------------------------------------
(* Helpers of the code, as functions of the state record.                  *)

NewCall(kind) ==
    [kind |-> kind, id |-> None, chat |-> 0, token |-> 0, phase |-> "sent",
     timer |-> FALSE, adopt |-> FALSE, ids |-> {}]

Add(n, c) == [n EXCEPT !.calls = @ \cup {c}]
Done(c) == [nav EXCEPT !.calls = @ \ {c}]

\* The part of selectSession before its first await
selectSession(n, id, adopt) ==
    LET m == [n EXCEPT !.token = @ + 1, !.pending = 0, !.promise = 0, !.current = id,
                       !.last = id, !.row = IF id \in n.listed THEN id ELSE None,
                       !.hash = IF id \in Transient THEN @ ELSE id,
                       !.saved = IF id \in Transient THEN @ ELSE id]
    IN  Add(m, [NewCall("select") EXCEPT !.id = id, !.token = m.token, !.adopt = adopt,
                                         !.timer = ~adopt /\ n.current # id])

\* Mutant: a stale answer is known by its token alone.
Mutant_Stale_TokenOnly(n, c) == c.token # n.token

\* A select that the user has left behind
Stale(n, c) == c.token # n.token \/ c.id # n.current

setPendingChat(n, isManual) ==
    [n EXCEPT !.pending = n.chats + 1, !.chats = @ + 1,
              !.manual = IF isManual THEN @ \cup {n.chats + 1} ELSE @]

createDirectChat(n, isManual) ==
    IF n.pending \in n.manual /\ ~isManual THEN n
    ELSE [setPendingChat(n, isManual) EXCEPT
             !.token = @ + 1, !.promise = 0, !.current = None, !.pane = None,
             !.hash = None, !.last = None, !.saved = None, !.row = None, !.skip = TRUE]

\* Mutant: a caller does not look for the promise of an earlier one.
Mutant_materializePendingSession_Again(n) ==
    IF n.pending = 0 THEN n
    ELSE Add([n EXCEPT !.promise = n.pending], [NewCall("mat") EXCEPT !.chat = n.pending])

\* One request per deferred chat: a second caller joins the promise
materializePendingSession(n) ==
    IF n.promise # 0 \/ n.pending = 0 THEN n
    ELSE Add([n EXCEPT !.promise = n.pending], [NewCall("mat") EXCEPT !.chat = n.pending])

\* Reloads in flight are told apart by their token
loadSessions(n) ==
    LET used == {c.token : c \in {d \in n.calls : d.kind = "list"}}
        free == CHOOSE t \in 0 .. Cardinality(used) : t \notin used
    IN  Add(n, [NewCall("list") EXCEPT !.token = free])

\* handleChatSubmit from the materialization on: what it awaits, or "no" when
\* it goes on to post
Submit(n) ==
    IF n.pending # 0
    THEN LET m == materializePendingSession(n)
         IN  [m EXCEPT !.sending = "mat", !.waits = m.promise]
    ELSE IF n.current = None THEN Add([n EXCEPT !.sending = "default"], NewCall("default"))
    ELSE [n EXCEPT !.sending = "no"]

Release(n) == [n EXCEPT !.sending = "no", !.from = None, !.waits = 0, !.held = FALSE]

\* _adoptOpenedSessionBeforeAutoCreate opens again what the list, the address
\* or the memory of the page names
Adopt(n) ==
    LET opened == IF n.row # None THEN n.row ELSE IF n.hash # None THEN n.hash ELSE n.last
    IN  IF n.current = None /\ n.pending = 0 /\ opened # None
        THEN [selectSession(n, opened, TRUE) EXCEPT !.sending = "adopt"] ELSE Submit(n)

\* Mutant: a chat the list does not hold yet gives way to the first of the list.
Mutant_ListTarget_Unlisted(n, ids) ==
    IF n.pending # 0 THEN {None}
    ELSE IF n.hash \in ids THEN {n.hash}
    ELSE IF n.current \in ids THEN {n.current}
    ELSE IF n.skip \/ ids \ Transient = {} THEN {None} ELSE ids \ Transient

FreshRoot(n) == ~n.rooted /\ n.hash = None /\ n.current = None /\ n.pending = 0

\* The chat that a reload of the list opens: None leaves everything as it is
ListTarget(n, ids) ==
    LET real == ids \ Transient
    IN  IF n.pending # 0 THEN {None}
        ELSE IF n.hash \in ids THEN {n.hash}
        ELSE IF n.current # None THEN {n.current}
        ELSE IF ~FreshRoot(n) /\ n.saved \in real THEN {n.saved}
        ELSE IF FreshRoot(n) \/ n.skip \/ ids = {} THEN {None}
        ELSE IF real # {} THEN real ELSE ids

Here == IF nav.current # None THEN nav.current ELSE IF nav.pending # 0 THEN nav.pending ELSE None

-----------------------------------------------------------------------------
Init ==
    /\ \E hash, saved \in Active \cup Archived \cup {None} :
          nav = [current |-> None, token |-> 0, pending |-> 0, chats |-> 0, manual |-> {},
                 promise |-> 0, pane |-> None, hash |-> hash, last |-> None, saved |-> saved,
                 row |-> None, skip |-> FALSE, rooted |-> FALSE, listed |-> {},
                 picking |-> "no", auto |-> FALSE, sending |-> "no", from |-> None,
                 waits |-> 0, held |-> FALSE, calls |-> {NewCall("list")}]
    /\ exists = Active \cup Archived
    /\ made = {} /\ posts = {} /\ inputs = 0

-----------------------------------------------------------------------------
(* The user.                                                               *)

Input == inputs < MaxInputs /\ inputs' = inputs + 1 /\ Cardinality(nav.calls) < MaxCalls
Server == UNCHANGED <<exists, made>>

Select(id) ==
    /\ Input /\ id \in nav.listed
    /\ nav' = selectSession(nav, id, FALSE)
    /\ Server /\ UNCHANGED posts

\* The + button, or a model picked while no chat is open
NewChat ==
    /\ Input
    /\ nav' = createDirectChat(nav, TRUE)
    /\ Server /\ UNCHANGED posts

\* A model picked for the deferred chat replaces it, and voids a default pick
PickModel ==
    /\ Input /\ nav.current = None /\ nav.pending # 0
    /\ nav' = [setPendingChat(nav, TRUE) EXCEPT !.picking = IF @ = "valid" THEN "stale" ELSE @]
    /\ Server /\ UNCHANGED posts

\* setCurrentSessionId(null), _startFreshChat
FreshChat ==
    /\ Input
    /\ nav' = [nav EXCEPT !.token = @ + 1, !.current = None, !.hash = None, !.last = None,
                        !.saved = None, !.row = None, !.pane = None]
    /\ Server /\ UNCHANGED posts

\* From the list, or the open chat from the menu above it
Delete(id) ==
    LET n == Add([nav EXCEPT !.listed = @ \ {id}, !.skip = TRUE,
                             !.row = IF @ = id THEN None ELSE @],
                 [NewCall("delete") EXCEPT !.id = id])
    IN  /\ Input /\ id \in nav.listed \cup {nav.current}
        /\ nav' = IF nav.current = id
                  THEN [n EXCEPT !.current = None, !.pane = None, !.hash = None, !.saved = None]
                  ELSE n
        /\ Server /\ UNCHANGED posts

PeekArchived(id) ==
    /\ Input /\ id \in Archived
    /\ nav' = Add(nav, [NewCall("peek") EXCEPT !.id = id])
    /\ Server /\ UNCHANGED posts

\* preMaterializePendingSession, when the user begins to type
PreMaterialize ==
    /\ Input /\ nav.pending # 0 /\ nav.promise = 0
    /\ nav' = materializePendingSession(nav)
    /\ Server /\ UNCHANGED posts

\* A stream that ends, a rename, a tool: the list is loaded again
Reload ==
    /\ Input
    /\ nav' = loadSessions(nav)
    /\ Server /\ UNCHANGED posts

\* updateModelPicker finds neither a chat nor a model
StartPick ==
    /\ Input /\ nav.picking = "no" /\ nav.current = None /\ nav.pending = 0
    /\ nav' = Add([nav EXCEPT !.picking = "valid"], NewCall("pick"))
    /\ Server /\ UNCHANGED posts

Hold(n) == [n EXCEPT !.held = TRUE, !.from = None]

\* A message that has its chat is posted to the one that is open, at once or,
\* when it looks like a key, if the user confirms it
Proceed(n) ==
    IF n.sending # "no" THEN nav' = n /\ UNCHANGED posts
    ELSE \/ nav' = Release(n)
            /\ posts' = IF n.held THEN posts ELSE posts \cup {[from |-> n.from, to |-> n.current]}
         \/ nav' = [Hold(n) EXCEPT !.sending = "confirm"] /\ UNCHANGED posts

\* The message is read from the composer here, and sent when the waiting is over.
\* What looks like a command is looked up among the skills
Press ==
    LET n == [nav EXCEPT !.from = Here]
    IN  /\ Input /\ nav.sending = "no"
        /\ \/ Proceed(Adopt(n))
           \/ nav' = Add([Hold(n) EXCEPT !.sending = "slash"], NewCall("catalog"))
              /\ UNCHANGED posts
        /\ Server

\* The message goes to the chat that is open by then, or is taken back
Confirm ==
    /\ nav.sending = "confirm"
    /\ nav' = Release(nav)
    /\ Server /\ UNCHANGED <<posts, inputs>>

-----------------------------------------------------------------------------
(* Answers.                                                                *)

\* A select that ends lets the message that waits for it go on
Ended(n, c) == IF c.adopt /\ n.sending = "adopt" THEN Submit(n) ELSE n
PostedBy(n, m) ==
    IF n.sending # "no" /\ m.sending = "no" THEN Proceed(m) ELSE nav' = m /\ UNCHANGED posts

\* The placeholder of a slow load.  A load that fails leaves its timer armed
LoadingTimer(c) ==
    LET n == IF c.phase = "failed" THEN Done(c) ELSE Add(Done(c), [c EXCEPT !.timer = FALSE])
    IN  /\ c.kind = "select" /\ c.timer
        /\ nav' = IF Stale(nav, c) THEN n ELSE [n EXCEPT !.pane = Loading]
        /\ Server /\ UNCHANGED <<posts, inputs>>

HistoryReply(c) ==
    /\ c.kind = "select" /\ c.phase = "sent"
    /\ \/ Stale(nav, c) /\ PostedBy(nav, Ended(Done(c), c))
       \/ /\ ~Stale(nav, c) /\ nav' = Add(Done(c), [c EXCEPT !.phase = "swap", !.timer = FALSE])
          /\ UNCHANGED posts
    /\ Server /\ UNCHANGED inputs

\* After the fade, or the frame of the placeholder.  A chat without messages is
\* not highlighted
Paint(c) ==
    LET n == [Done(c) EXCEPT !.pane = c.id]
    IN  /\ c.kind = "select" /\ c.phase = "swap"
        /\ \E m \in IF Stale(nav, c) THEN {Done(c)} ELSE {n, [n EXCEPT !.row = None]} :
              PostedBy(nav, Ended(m, c))
        /\ Server /\ UNCHANGED inputs

\* The catch of selectSession asks neither the token nor the chat
HistoryFails(c) ==
    LET left == [c EXCEPT !.phase = "failed", !.adopt = FALSE]
        n == IF c.timer THEN Add(Done(c), left) ELSE Done(c)
    IN  /\ c.kind = "select" /\ c.phase = "sent"
        /\ PostedBy(nav, Ended([n EXCEPT !.pane = IF @ = Loading THEN Failed ELSE @], c))
        /\ Server /\ UNCHANGED inputs

PeekReply(c) ==
    /\ c.kind = "peek"
    /\ nav' = [Done(c) EXCEPT !.current = c.id, !.pane = c.id]
    /\ Server /\ UNCHANGED <<posts, inputs>>

PickReply(c) ==
    LET n == [Done(c) EXCEPT !.picking = "no"]
    IN  /\ c.kind = "pick"
        /\ nav' = IF nav.picking = "stale" \/ nav.pending \in nav.manual THEN n
                  ELSE setPendingChat(n, FALSE)
        /\ Server /\ UNCHANGED <<posts, inputs>>

\* handleChatSubmit creates a chat with the default model, wherever the user is by now
DefaultReply(c) ==
    LET n == materializePendingSession(createDirectChat(Done(c), FALSE))
    IN  /\ c.kind = "default"
        /\ \/ nav' = Release(Done(c))   \* no default model
           \/ nav' = [n EXCEPT !.sending = "mat", !.waits = n.promise]
        /\ Server /\ UNCHANGED <<posts, inputs>>

\* The command is known, or it is a message
CatalogReply(c) ==
    /\ c.kind = "catalog"
    /\ \/ nav' = Release(Done(c)) /\ UNCHANGED posts
       \/ Proceed(Adopt([Done(c) EXCEPT !.sending = "no"]))
    /\ Server /\ UNCHANGED inputs

AutoReply(c) ==
    LET n == [Done(c) EXCEPT !.auto = FALSE]
    IN  /\ c.kind = "auto"
        /\ nav' \in {n, createDirectChat(n, FALSE)}
        /\ Server /\ UNCHANGED <<posts, inputs>>

-----------------------------------------------------------------------------
(* The server, and the answers that follow.                                *)

ServeCreate(c) ==
    /\ c.kind = "mat" /\ c.phase = "sent"
    /\ \E id \in Fresh \ {m.id : m \in made} :
          /\ exists' = exists \cup {id}
          /\ made' = made \cup {[chat |-> c.chat, id |-> id]}
          /\ nav' = Add(Done(c), [c EXCEPT !.phase = "served", !.id = id])
    /\ UNCHANGED <<posts, inputs>>

\* The promise's caller, when it is the message being sent
Waiting(n, c) == n.sending = "mat" /\ n.waits = c.chat

\* Mutant: the promise is not forgotten when it is settled.
Mutant_Settle_Never(n, c) == n

Settle(n, c) == IF n.promise = c.chat THEN [n EXCEPT !.promise = 0] ELSE n

\* The chat created becomes the open one
Kept(n, c) ==
    [loadSessions(n) EXCEPT !.pending = 0, !.current = c.id, !.hash = c.id, !.saved = c.id]

\* The message that waited goes on
Resumed(n) == [n EXCEPT !.sending = "no", !.waits = 0]

\* Mutant: the sender does not look whether its chat was kept, only for an open one.
Mutant_MatReply_Unchecked(c) ==
    LET n == Settle(Done(c), c)
        kept == Kept(n, c)
        m == IF nav.pending = c.chat THEN kept ELSE Add(n, [NewCall("drop") EXCEPT !.id = c.id])
    IN  /\ c.kind = "mat" /\ c.phase = "served"
        /\ IF Waiting(n, c) /\ m.current # None THEN Proceed(Resumed(m))
           ELSE nav' = (IF Waiting(n, c) THEN Release(m) ELSE m) /\ UNCHANGED posts
        /\ Server /\ UNCHANGED inputs

\* Mutant: a message whose deferred chat is gone keeps waiting for it.
Mutant_MatReply_Waits(c) ==
    LET n == Settle(Done(c), c)
        kept == Kept(n, c)
        dropped == Add(n, [NewCall("drop") EXCEPT !.id = c.id])
    IN  /\ c.kind = "mat" /\ c.phase = "served"
        /\ nav' = IF nav.pending # c.chat THEN dropped
                  ELSE IF Waiting(n, c) THEN Release(kept) ELSE kept
        /\ UNCHANGED posts /\ Server /\ UNCHANGED inputs

\* A deferred chat the user has left is deleted again
MatReply(c) ==
    LET n == Settle(Done(c), c)
        kept == Kept(n, c)
        dropped == Add(n, [NewCall("drop") EXCEPT !.id = c.id])
    IN  /\ c.kind = "mat" /\ c.phase = "served"
        /\ \/ /\ nav.pending = c.chat
              /\ IF Waiting(n, c) THEN Proceed(Resumed(kept)) ELSE nav' = kept /\ UNCHANGED posts
           \/ /\ nav.pending # c.chat
              /\ nav' = IF Waiting(n, c) THEN Release(dropped) ELSE dropped
              /\ UNCHANGED posts
        /\ Server /\ UNCHANGED inputs

MatFails(c) ==
    LET n == Settle(Done(c), c)
    IN  /\ c.kind = "mat"
        /\ nav' = IF Waiting(n, c) THEN Release(n) ELSE n
        /\ Server /\ UNCHANGED <<posts, inputs>>

\* DELETE: of the user, followed by a reload; of a chat nobody wanted, forgotten
DeleteReply(c) ==
    /\ c.kind \in {"delete", "drop"}
    /\ exists' \in {exists, exists \ {c.id}}
    /\ nav' = IF c.kind = "delete" THEN loadSessions(Done(c)) ELSE Done(c)
    /\ UNCHANGED <<made, posts, inputs>>

ServeList(c) ==
    /\ c.kind = "list" /\ c.phase = "sent"
    /\ nav' = Add(Done(c), [c EXCEPT !.phase = "served", !.ids = exists \ Archived])
    /\ Server /\ UNCHANGED <<posts, inputs>>

ListReply(c) ==
    /\ c.kind = "list" /\ c.phase = "served"
    /\ \E target \in ListTarget(nav, c.ids) :
         LET n == [Done(c) EXCEPT !.listed = c.ids, !.skip = FALSE,
                     !.rooted = @ \/ FreshRoot(nav),
                     !.saved = IF FreshRoot(nav) \/ @ \in c.ids \cap Transient THEN None ELSE @,
                     !.row = IF nav.current \in c.ids THEN nav.current ELSE None]
         IN  CASE target \notin {None, nav.current} -> nav' = selectSession(n, target, FALSE)
               [] target = None /\ nav.pending = 0 /\ c.ids = {} /\ ~nav.auto ->
                     nav' = Add([n EXCEPT !.auto = TRUE], NewCall("auto"))
               [] OTHER -> nav' = n
    /\ Server /\ UNCHANGED <<posts, inputs>>

ListFails(c) ==
    /\ c.kind = "list"
    /\ nav' = Done(c)
    /\ Server /\ UNCHANGED <<posts, inputs>>

-----------------------------------------------------------------------------
User ==
    \/ NewChat \/ PickModel \/ FreshChat \/ PreMaterialize \/ Reload \/ StartPick
    \/ Press \/ Confirm
    \/ \E id \in Sessions : Select(id) \/ Delete(id) \/ PeekArchived(id)

Answer ==
    \E c \in nav.calls :
        \/ HistoryReply(c) \/ Paint(c) \/ HistoryFails(c) \/ PeekReply(c) \/ PickReply(c)
        \/ DefaultReply(c) \/ CatalogReply(c) \/ AutoReply(c)
        \/ ServeCreate(c) \/ MatReply(c) \/ MatFails(c) \/ DeleteReply(c)
        \/ ServeList(c) \/ ListReply(c) \/ ListFails(c)

Timer == \E c \in nav.calls : LoadingTimer(c)

Next == User \/ Timer \/ Answer

\* Requests are answered or fail: the browser gives up on a dead connection
Spec == Init /\ [][Next]_vars /\ WF_vars(Answer)
-----------------------------------------------------------------------------
(* Properties.                                                             *)

\* A history is painted into the pane only for the chat that is open when it
\* is painted, whatever was created, peeked at or deleted while it was
\* fetched (the checks after each await of selectSession).
PaintOnlyCurrent ==
    [][nav'.pane # nav.pane /\ nav'.pane \in Sessions => nav'.pane = nav'.current]_vars

\* A reload of the list, which streams and tools start on their own, neither
\* takes the user out of the chat that the address names nor out of a
\* deferred chat, however old its answer is: a chat created since may be
\* missing from it (the choice of loadSessions' target).
ListKeepsPlace ==
    [][(\E c \in nav.calls \ nav'.calls : c.kind = "list" /\ c.phase = "served")
           /\ (nav.pending # 0 \/ (nav.current # None /\ nav.current = nav.hash))
       => nav'.current = nav.current /\ nav'.pending = nav.pending]_vars

\* A deferred chat is created by one request at a time, though typing and
\* sending both ask for it: the second joins the first (the promise of
\* materializePendingSession).  Only a lost answer makes a second request.
OneCreation ==
    \A c, d \in nav.calls : c.kind = "mat" /\ d.kind = "mat" /\ c.chat = d.chat => c = d

\* A message written in a deferred chat goes to the chat created for that one:
\* not to one whose creation was under way when the user picked another
\* model, opened a chat or began anew, and not to an opened chat.  A message held
\* back as a command or a key is excepted: it looks for its chat only afterwards.
SentToItsChat ==
    \A p \in posts : p.from \in Chats => [chat |-> p.from, id |-> p.to] \in made

\* The send button is given back: whatever a message waits for, it is sent
\* or dropped in the end (_releaseSendFlag on every path), unless the user is asked
\* about it.
SendSettles == nav.sending # "no" ~> nav.sending \in {"no", "confirm"}

\* A message written in an opened chat goes to that chat.  sessions.js says
\* of selecting a chat that it cancels the deferred one, since "otherwise the
\* next send can materialize that pending chat instead of posting into the
\* session the user just opened"; a default model that arrives afterwards
\* (_ensureDefaultPendingChat) puts a deferred chat beside the opened one.
SentWhereWritten == \A p \in posts : p.from \in Sessions => p.to = p.from
=============================================================================
