--------------------------- MODULE DocumentEditor ---------------------------
(***************************************************************************)
(* The document panel of the browser client (src/static/js/document.js):   *)
(* one textarea shared by all tabs, a map of tab contents, one autosave    *)
(* timer, one diff review and one edit animation, all of them global to    *)
(* the module while the documents they belong to come and go.  Requests to *)
(* the server are answered in any order, and the handlers read the active  *)
(* document again after every await.                                       *)
(*                                                                         *)
(* A text is abstracted to the document it was written for and the set of  *)
(* edits it contains.  Titles, languages, rendering, the PDF pane and the  *)
(* e-mail form are left out.                                               *)
(***************************************************************************)
EXTENDS Naturals, FiniteSets

CONSTANTS
    Docs,          \* identifiers of documents the server knows or will know
    Temp,          \* the '_streaming_' tab of a document being written by the agent
    NoDoc,         \* activeDocId = null
    NoChip,        \* no dock chip is registered for the panel
    Sessions,      \* chat sessions
    FirstSession,  \* the session the page is opened on
    NoSession,     \* _lastSessionId = '' and the home of a document not yet created
    InitialHome,   \* InitialHome[d]: the session of d, NoSession when it does not exist yet
    MaxRequests,   \* bound: requests and events in flight
    MaxInputs      \* bound: inputs of the user and of the agent

ASSUME EditorAssumption ==
    /\ Temp \notin Docs /\ NoDoc \notin Docs \cup {Temp}
    /\ NoChip \notin Docs \cup {Temp, NoDoc}
    /\ NoSession \notin Sessions /\ FirstSession \in Sessions
    /\ InitialHome \in [Docs -> Sessions \cup {NoSession}]
    /\ MaxRequests \in Nat /\ MaxInputs \in Nat

VARIABLES
    ed,        \* the module's own state, a record (see EditorType)
    session,   \* the session the chat shows
    loads,     \* sessions whose loadSessionDocs timer (300 ms) is armed
    autosave,  \* _autoSaveDebounce is armed
    stored,    \* stored[d]: the server's current_content
    home,      \* home[d]: the session_id of the document on the server
    deleted,   \* documents whose is_active is FALSE on the server
    inputs,    \* number of inputs so far; an edit is the number of its input
    typed      \* the inputs by which the user typed

vars == <<ed, session, loads, autosave, stored, home, deleted, inputs, typed>>

Tabs == Docs \cup {Temp}
Text == [src : Tabs \cup {NoDoc}, edits : SUBSET (1 .. MaxInputs)]
Blank == [src |-> NoDoc, edits |-> {}]
Original(d) == [src |-> d, edits |-> {}]

\* diff: the review opened by enterDiffMode, with the decision on its chunk
NoDiff == [on |-> FALSE, old |-> Blank, new |-> Blank, kept |-> "open"]
DiffType == [on : BOOLEAN, old : Text, new : Text, kept : {"open", "accepted", "rejected"}]
NoAnim == [on |-> FALSE, text |-> Blank]
AnimType == [on : BOOLEAN, text : Text]

Kinds == {"save", "delete", "load", "open", "create", "auto", "restore", "versions", "update"}
Request == [kind : Kinds, doc : Tabs \cup {NoDoc}, session : Sessions \cup {NoSession},
            text : Text, notes : SUBSET {"restore", "open", "empty"}, served : BOOLEAN]

EditorType ==
    [tabs : SUBSET Tabs,                    \* keys of docs
     kept : [Tabs -> Text],                 \* docs.get(d).content
     active : Tabs \cup {NoDoc},            \* activeDocId
     pane : {"none", "open", "closing"},    \* isOpen, and the 200 ms slide-out
     shown : Text,                          \* the textarea's value
     diff : DiffType, anim : AnimType,
     ending : Nat,                          \* 300 ms timers of _resolveChunk not yet fired
     stream : Tabs \cup {NoDoc},            \* _streamDocId
     tempHome : Sessions \cup {NoSession},  \* sessionId of the streaming tab
     chip : Tabs \cup {NoDoc, NoChip},      \* _minimizedDocId of a registered chip
     pref : [Sessions -> {"closed", "open", "minimized"}],   \* localStorage
     last : Sessions \cup {NoSession},      \* _lastSessionId
     creating : BOOLEAN, autoCreating : BOOLEAN,
     sent : SUBSET Request]                 \* fetches in flight and events on their way

TypeOK ==
    /\ ed \in EditorType
    /\ session \in Sessions
    /\ loads \subseteq Sessions
    /\ autosave \in BOOLEAN
    /\ stored \in [Docs -> Text]
    /\ home \in [Docs -> Sessions \cup {NoSession}]
    /\ deleted \subseteq Docs
    /\ inputs \in 0 .. MaxInputs
    /\ typed \subseteq 1 .. inputs

Init ==
    /\ ed = [tabs |-> {}, kept |-> [d \in Tabs |-> Blank], active |-> NoDoc, pane |-> "none",
             shown |-> Blank, diff |-> NoDiff, anim |-> NoAnim, ending |-> 0, stream |-> NoDoc,
             tempHome |-> NoSession, chip |-> NoChip, pref |-> [s \in Sessions |-> "closed"],
             last |-> NoSession, creating |-> FALSE, autoCreating |-> FALSE, sent |-> {}]
    /\ session = FirstSession
    /\ loads = {} /\ autosave = FALSE
    /\ stored = [d \in Docs |-> IF InitialHome[d] = NoSession THEN Blank ELSE Original(d)]
    /\ home = InitialHome
    /\ deleted = {} /\ inputs = 0 /\ typed = {}

-----------------------------------------------------------------------------
(* Helpers of the code, as functions of the editor record.                 *)

HasText(e) == e.pane # "none"
HomeOf(e, d) == IF d = Temp THEN e.tempHome ELSE home[d]
SetPref(e, s, p) == IF s = NoSession THEN e ELSE [e EXCEPT !.pref[s] = p]

Fetch(e, kind, d, s, text, notes) ==
    [e EXCEPT !.sent = @ \cup {[kind |-> kind, doc |-> d, session |-> s, text |-> text,
                                notes |-> notes, served |-> FALSE]}]

saveCurrentToMap(e) ==
    IF e.active \in e.tabs /\ HasText(e) THEN [e EXCEPT !.kept[e.active] = e.shown] ELSE e

saveDocument(e) ==
    IF e.active = NoDoc \/ ~HasText(e) THEN e
    ELSE LET f == saveCurrentToMap(e)
             text == IF f.active \in f.tabs THEN f.kept[f.active] ELSE f.shown
         IN  Fetch(f, "save", f.active, NoSession, text, {})

\* The lines of both texts, the deleted and the added ones
Interleaved(old, new) ==
    [src |-> IF new.src = NoDoc THEN old.src ELSE new.src, edits |-> old.edits \cup new.edits]

\* _renderDiffOverlay puts the interleaved lines into the textarea
enterDiffMode(e, old, new) ==
    [e EXCEPT !.diff = [on |-> TRUE, old |-> old, new |-> new, kept |-> "open"],
              !.shown = IF HasText(e) THEN Interleaved(old, new) ELSE @]

exitDiffMode(e, text) ==
    IF ~e.diff.on THEN e
    ELSE saveDocument([e EXCEPT !.diff = NoDiff, !.shown = IF HasText(e) THEN text ELSE @])

\* exitDiffMode(true), the call every handler that changes documents starts with
discardDiff(e) == exitDiffMode(e, e.diff.old)

\* Mutant: the editor is filled with the new document before the old one is kept.
Mutant_switchToDoc_Unsaved(e, d) ==
    IF d \notin e.tabs THEN e
    ELSE LET f == discardDiff(e)
         IN  [f EXCEPT !.active = d, !.shown = IF HasText(f) THEN f.kept[d] ELSE @]

switchToDoc(e, d) ==
    IF d \notin e.tabs THEN e
    ELSE LET f == saveCurrentToMap(discardDiff(e))
             left == f.active
             g == IF left \in f.tabs \ {d} /\ f.kept[left] = Blank
                  THEN Fetch([f EXCEPT !.tabs = @ \ {left}], "delete", left, NoSession, Blank, {})
                  ELSE f
         IN  [g EXCEPT !.active = d, !.shown = IF HasText(g) THEN g.kept[d] ELSE @]

showEmptyState(e) == [e EXCEPT !.active = NoDoc, !.shown = Blank]

\* A new pane has a new, empty textarea; a running animation keeps the old one
openPanel(e) ==
    IF e.pane = "open" THEN e
    ELSE LET f == SetPref([e EXCEPT !.pane = "open", !.chip = NoChip, !.shown = Blank,
                                    !.anim = NoAnim], e.last, "open")
         IN  IF f.tabs = {} \/ f.active = NoDoc THEN showEmptyState(f) ELSE f

closePanel(e, down) ==
    IF e.pane # "open"
    THEN IF ~down /\ e.chip # NoChip
         THEN SetPref([e EXCEPT !.chip = NoChip], e.last, "closed") ELSE e
    ELSE LET f == saveCurrentToMap([e EXCEPT !.pane = "closing"])
         IN  IF down THEN SetPref([f EXCEPT !.chip = f.active], f.last, "minimized")
             ELSE SetPref([f EXCEPT !.chip = NoChip], f.last, "closed")

addDocToTabs(e, d, text) == [e EXCEPT !.tabs = @ \cup {d}, !.kept[d] = text]

\* Closing a tab saves whatever document is active, not the one that is closed
detachDocFromSession(e, d) ==
    LET f == IF e.kept[d] # Blank THEN saveDocument(e)
             ELSE Fetch(e, "delete", d, NoSession, Blank, {})
    IN  [f EXCEPT !.tabs = @ \ {d}]

SessionTabs(e) == {d \in e.tabs : HomeOf(e, d) = session}

-----------------------------------------------------------------------------
(* The user.                                                               *)

Room == Cardinality(ed.sent) + 1 < MaxRequests   \* a handler sends at most two
Commit(e) == /\ ed' = e
Quiet == UNCHANGED <<session, loads, stored, home, deleted, inputs, typed>>
Input == inputs < MaxInputs /\ inputs' = inputs + 1
Acted == Input /\ UNCHANGED <<session, loads, autosave, stored, home, deleted, typed>>

\* The 'input' listener of the textarea; typing without a document creates one
Type ==
    LET n == inputs + 1
        text == [src |-> IF ed.shown.src = NoDoc THEN ed.active ELSE ed.shown.src,
                 edits |-> ed.shown.edits \cup {n}]
        e == [ed EXCEPT !.shown = text]
        create == ed.active = NoDoc /\ ~ed.creating
    IN  /\ ed.pane = "open" /\ ~ed.diff.on /\ Room /\ Input
        /\ typed' = typed \cup {n}
        /\ \/ /\ create /\ ~ed.autoCreating
              /\ Commit(Fetch([e EXCEPT !.autoCreating = TRUE], "auto", NoDoc,
                              IF ed.last = NoSession THEN session ELSE ed.last, text, {}))
              /\ UNCHANGED autosave
           \/ create /\ ed.autoCreating /\ Commit(e) /\ UNCHANGED autosave
           \/ ~create /\ Commit(e) /\ autosave' = TRUE
        /\ UNCHANGED <<session, loads, stored, home, deleted>>

SwitchTab(d) ==
    /\ ed.pane = "open" /\ d \in SessionTabs(ed) /\ d # ed.active /\ Room
    /\ Commit(switchToDoc(ed, d))
    /\ Acted

CloseTab(d) ==
    LET f == detachDocFromSession(saveCurrentToMap(ed), d)
        next == SessionTabs(f)
    IN  /\ ed.pane = "open" /\ d \in SessionTabs(ed) /\ Room
        /\ \/ next = {} /\ Commit(closePanel([f EXCEPT !.active = NoDoc], FALSE))
           \/ next # {} /\ ed.active # d /\ Commit(f)
           \/ ed.active = d /\ \E n \in next : Commit(switchToDoc(f, n))
        /\ Acted

ClosePanel(down) ==
    /\ ed.pane = "open"
    /\ Commit(closePanel(ed, down))
    /\ Acted

\* transitionend, or the 200 ms fallback
FinishClose ==
    /\ ed.pane = "closing"
    /\ Commit([ed EXCEPT !.pane = "none", !.active = NoDoc, !.shown = Blank, !.anim = NoAnim])
    /\ UNCHANGED autosave /\ Quiet

\* restoreFn of the dock chip
RestoreChip ==
    /\ ed.chip # NoChip /\ Room
    /\ Commit(switchToDoc(openPanel(ed), ed.chip))
    /\ Acted

\* closeFn of the dock chip
TrashChip ==
    /\ ed.chip # NoChip /\ Room
    /\ Commit(IF ed.chip \in ed.tabs
              THEN detachDocFromSession([ed EXCEPT !.chip = NoChip], ed.chip)
              ELSE [ed EXCEPT !.chip = NoChip])
    /\ Acted

SaveNow ==
    /\ ed.pane = "open" /\ ed.active # NoDoc /\ Room
    /\ Commit(saveDocument(ed))
    /\ Acted

OpenDocument(d) ==
    /\ home[d] # NoSession /\ Room
    /\ Commit(IF d \in ed.tabs THEN switchToDoc(openPanel(ed), d)
              ELSE Fetch(ed, "open", d, NoSession, Blank, {}))
    /\ Acted

NewDocument ==
    LET s == IF ed.active \in ed.tabs /\ HomeOf(ed, ed.active) # NoSession
             THEN HomeOf(ed, ed.active) ELSE IF ed.last # NoSession THEN ed.last ELSE session
    IN  /\ ~ed.creating /\ Room
        /\ \E d \in Docs : home[d] = NoSession
        /\ Commit(Fetch([ed EXCEPT !.creating = TRUE], "create", NoDoc, s, Blank,
                        IF ed.active = NoDoc THEN {"empty"} ELSE {}))
        /\ Acted

DeleteActive ==
    /\ ed.pane = "open" /\ ed.active \in Docs /\ Room
    /\ Commit(Fetch(ed, "delete", ed.active, NoSession, Blank, {"open"}))
    /\ Acted

RestoreVersion ==
    /\ ed.pane = "open" /\ ed.active \in Docs /\ Room
    /\ Commit(Fetch(ed, "restore", ed.active, NoSession, Blank, {}))
    /\ Acted

ToggleDiff ==
    /\ ed.pane = "open" /\ Room
    /\ \/ ed.diff.on /\ Commit(discardDiff(ed))
       \/ /\ ~ed.diff.on /\ ed.active \in Docs
          /\ Commit(Fetch(ed, "versions", ed.active, NoSession, ed.shown, {}))
    /\ Acted

\* _resolveChunk of the only open chunk: applied and saved, the review ends later,
\* by a timer that does not know which review it was started for
ResolveChunk(kept) ==
    LET text == IF kept = "accepted" THEN ed.diff.new ELSE ed.diff.old
    IN  /\ ed.diff.on /\ ed.diff.kept = "open" /\ ed.pane = "open" /\ Room
        /\ Commit(saveDocument([ed EXCEPT !.diff.kept = kept, !.shown = text,
                                          !.ending = @ + 1]))
        /\ Acted

\* The timer: exitDiffMode(false) of the review that is open by now, if any; a
\* chunk nobody decided on is rejected
FinishDiff ==
    /\ ed.ending > 0 /\ Room
    /\ Commit(exitDiffMode([ed EXCEPT !.ending = @ - 1],
                           IF ed.diff.kept = "accepted" THEN ed.diff.new ELSE ed.diff.old))
    /\ UNCHANGED autosave /\ Quiet

\* The end of selectSession: the panel follows the session
SelectSession(s) ==
    /\ s # session
    /\ session' = s /\ Input
    /\ \/ /\ \E d \in Docs : home[d] = s
          /\ loads' = loads \cup {s} /\ UNCHANGED ed
       \/ /\ \A d \in Docs : home[d] # s
          /\ Commit(IF ed.pref[s] # "open" THEN closePanel(ed, FALSE) ELSE ed)
          /\ UNCHANGED loads
    /\ UNCHANGED <<autosave, stored, home, deleted, typed>>

loadSessionDocs(e, s, notes) ==
    LET f == [e EXCEPT !.last = s, !.active = NoDoc,
                       !.tabs = {d \in @ : HomeOf(e, d) \in {s, NoSession}}]
    IN  Fetch(f, "load", NoDoc, s, Blank,
              notes \cup (IF e.pref[s] = "open" THEN {"open"} ELSE {}))

\* Mutant: the timer of the session shown last is armed again.
Mutant_LoadTimer_Rearms(s) ==
    /\ s \in loads /\ Room
    /\ loads' = (loads \ {s}) \cup {ed.last}
    /\ Commit(loadSessionDocs(ed, s, {"restore"}))
    /\ UNCHANGED <<session, autosave, stored, home, deleted, inputs, typed>>

LoadTimer(s) ==
    /\ s \in loads /\ Room
    /\ loads' = loads \ {s}
    /\ Commit(loadSessionDocs(ed, s, {"restore"}))
    /\ UNCHANGED <<session, autosave, stored, home, deleted, inputs, typed>>

\* The document button of the composer (src/static/app.js)
ToggleButton ==
    /\ Room
    /\ Commit(IF ed.pane = "open" THEN closePanel(ed, FALSE)
              ELSE loadSessionDocs(ed, session, {}))
    /\ Acted

-----------------------------------------------------------------------------
(* Timers and frames.                                                      *)

AutosaveTimer ==
    /\ autosave /\ Room
    /\ autosave' = FALSE
    /\ Commit(saveDocument(ed))
    /\ Quiet

\* The last frame of _animateDocEdit writes the whole new text, whatever is shown
AnimationEnds ==
    /\ ed.anim.on
    /\ Commit([ed EXCEPT !.anim = NoAnim, !.shown = ed.anim.text])
    /\ UNCHANGED autosave /\ Quiet

-----------------------------------------------------------------------------
(* The agent's events, seen by a foreground stream.                        *)

\* Mutant: an open review survives the change of document (issue #2467).
Mutant_streamDocOpen_KeepsDiff(e, match) ==
    LET t == IF match = NoDoc THEN Temp ELSE match
        g == IF match = NoDoc
             THEN [addDocToTabs(e, Temp, Blank) EXCEPT !.tempHome = session] ELSE e
    IN  IF e.stream \in e.tabs THEN e
        ELSE [openPanel([g EXCEPT !.stream = t, !.active = t]) EXCEPT !.shown = Blank]

streamDocOpen(e, match) ==
    LET f == discardDiff(e)
        t == IF match = NoDoc THEN Temp ELSE match
        g == IF match = NoDoc
             THEN [addDocToTabs(f, Temp, Blank) EXCEPT !.tempHome = session] ELSE f
    IN  IF f.stream \in f.tabs THEN f
        ELSE [openPanel([g EXCEPT !.stream = t, !.active = t]) EXCEPT !.shown = Blank]

\* doc_stream_open; match is a tab of this session with the same title
StreamOpen ==
    /\ Room
    /\ \E match \in SessionTabs(ed) \cup {NoDoc} : Commit(streamDocOpen(ed, match))
    /\ Acted

StreamDelta ==
    LET text == Original(ed.stream)
    IN  /\ ed.stream # NoDoc
        /\ Commit([ed EXCEPT !.kept[ed.stream] = IF ed.stream \in ed.tabs THEN text ELSE @,
                             !.shown = IF ed.stream = ed.active /\ HasText(ed) THEN text ELSE @])
        /\ Acted

\* The agent's tool writes the document on the server and reports it
AgentWrites(d) ==
    LET n == inputs + 1
        text == [src |-> d, edits |-> stored[d].edits \cup {n}]
        event == [kind |-> "update", doc |-> d, session |-> session, text |-> text,
                  notes |-> {}, served |-> TRUE]
    IN  /\ home[d] \in {session, NoSession} /\ Room /\ Input
        /\ stored' = [stored EXCEPT ![d] = text]
        /\ home' = [home EXCEPT ![d] = session]
        /\ Commit([ed EXCEPT !.sent = @ \cup {event}])
        /\ UNCHANGED <<session, loads, autosave, deleted, typed>>

\* The tab an update of d goes to: its own, or, for an unknown d, that of a
\* document with the same title, the same source e-mail or nothing in it yet
UpdateTargets(e, d) == IF d \in e.tabs THEN {d} ELSE {d} \cup e.tabs

migrateStream(e, d, text) ==
    LET f == [discardDiff([e EXCEPT !.stream = NoDoc]) EXCEPT !.stream = NoDoc]
    IN  IF e.stream = Temp /\ Temp \in f.tabs
        THEN [f EXCEPT !.tabs = (@ \ {Temp}) \cup {d}, !.kept[d] = text,
                       !.active = IF @ = Temp THEN d ELSE @]
        ELSE f

\* The textarea is looked up before the panel is opened: a panel that was not
\* open stays empty
handleDocUpdate(e, r, d, review) ==
    LET wasOpen == e.pane = "open"
        old == IF d = e.active /\ HasText(e) THEN e.shown ELSE Blank
        isEdit == d \in e.tabs /\ old # Blank /\ old # r.text /\ ed.stream = NoDoc
        f == [openPanel(addDocToTabs(e, d, r.text)) EXCEPT !.active = d]
    IN  CASE isEdit /\ review -> enterDiffMode(f, old, r.text)
          [] isEdit /\ ~review ->
                IF wasOpen THEN [f EXCEPT !.anim = [on |-> TRUE, text |-> r.text]] ELSE f
          [] OTHER -> IF wasOpen THEN [f EXCEPT !.shown = r.text] ELSE f

UpdateArrives(r) ==
    LET e == [ed EXCEPT !.sent = @ \ {r}]
        f == migrateStream(e, r.doc, r.text)
    IN  /\ r.kind = "update" /\ Room
        /\ \/ r.session # session /\ Commit(e)
           \/ /\ r.session = session
              /\ \E d \in UpdateTargets(f, r.doc), review \in BOOLEAN :
                    Commit(handleDocUpdate(f, r, d, review))
        /\ UNCHANGED autosave /\ Quiet

-----------------------------------------------------------------------------
(* The server (src/routes/document/document_routes.py).                    *)

Answer(r, d, text) == {[r EXCEPT !.served = TRUE, !.doc = d, !.text = text]}

Served(r, d, text) ==
    Commit([ed EXCEPT !.sent = (@ \ {r}) \cup Answer(r, d, text)])

Serve(r) ==
    /\ ~r.served /\ r.kind # "load"
    /\ \/ /\ r.kind = "save" /\ r.doc \in Docs
          /\ stored' = [stored EXCEPT ![r.doc] = r.text]
          /\ Served(r, r.doc, r.text) /\ UNCHANGED <<home, deleted>>
       \/ /\ r.kind = "save" /\ r.doc = Temp   \* 404
          /\ Served(r, r.doc, r.text) /\ UNCHANGED <<stored, home, deleted>>
       \/ /\ r.kind = "delete"
          /\ deleted' = deleted \cup ({r.doc} \cap Docs)
          /\ Served(r, r.doc, r.text) /\ UNCHANGED <<stored, home>>
       \/ /\ r.kind = "open"
          /\ Served(r, r.doc, stored[r.doc]) /\ UNCHANGED <<stored, home, deleted>>
       \/ /\ r.kind = "versions"
          /\ Served(r, r.doc, r.text) /\ UNCHANGED <<stored, home, deleted>>
       \/ /\ r.kind = "restore"
          /\ stored' = [stored EXCEPT ![r.doc] = Original(r.doc)]
          /\ Served(r, r.doc, Original(r.doc)) /\ UNCHANGED <<home, deleted>>
       \/ /\ r.kind \in {"create", "auto"}
          /\ \E d \in Docs :
                /\ home[d] = NoSession
                /\ home' = [home EXCEPT ![d] = r.session]
                /\ stored' = [stored EXCEPT ![d] = r.text]
                /\ Served(r, d, r.text)
          /\ UNCHANGED deleted
    /\ UNCHANGED <<session, loads, autosave, inputs, typed>>

-----------------------------------------------------------------------------
(* Replies, in any order.                                                  *)

Got(r) == [ed EXCEPT !.sent = @ \ {r}]

SaveReply(r) ==
    LET e == Got(r)
    IN  /\ r.kind = "save" /\ r.served
        /\ Commit(CASE r.doc = Temp ->
                          [e EXCEPT !.tabs = @ \ {Temp},
                                    !.active = IF @ = Temp THEN NoDoc ELSE @]
                    [] r.doc \in ed.tabs \ {Temp} -> [e EXCEPT !.kept[r.doc] = r.text]
                    [] OTHER -> e)
        /\ UNCHANGED autosave /\ Quiet

\* The reply of deleteActiveDocument removes the tab that is active by then
DeleteReply(r) ==
    LET f == [Got(r) EXCEPT !.tabs = @ \ {ed.active}]
    IN  /\ r.kind = "delete" /\ r.served /\ Room
        /\ \/ r.notes = {} /\ Commit(Got(r))
           \/ /\ r.notes # {} /\ f.tabs = {}
              /\ Commit(closePanel([f EXCEPT !.active = NoDoc], FALSE))
           \/ r.notes # {} /\ \E d \in f.tabs : Commit(switchToDoc(f, d))
        /\ UNCHANGED autosave /\ Quiet

OpenReply(r) ==
    /\ r.kind = "open" /\ r.served /\ Room
    /\ Commit(switchToDoc(openPanel(addDocToTabs(Got(r), r.doc, r.text)), r.doc))
    /\ UNCHANGED autosave /\ Quiet

\* createDocument: text typed into the empty editor meanwhile is kept
CreateReply(r) ==
    LET e == openPanel(addDocToTabs([Got(r) EXCEPT !.creating = FALSE], r.doc, r.text))
        carried == "empty" \in r.notes /\ e.shown # Blank
        f == switchToDoc(e, r.doc)
    IN  /\ r.kind = "create" /\ r.served /\ Room
        /\ \/ ~carried /\ Commit(f) /\ UNCHANGED autosave
           \/ /\ carried /\ autosave' = TRUE
              /\ Commit([f EXCEPT !.shown = e.shown, !.kept[r.doc] = e.shown])
        /\ Quiet

AutoCreateReply(r) ==
    /\ r.kind = "auto" /\ r.served
    /\ Commit([addDocToTabs(Got(r), r.doc, r.text) EXCEPT !.active = r.doc,
                                                          !.autoCreating = FALSE])
    /\ autosave' = TRUE
    /\ Quiet

RestoreReply(r) ==
    LET e == Got(r)
    IN  /\ r.kind = "restore" /\ r.served
        /\ Commit([e EXCEPT !.shown = IF HasText(e) THEN r.text ELSE @,
                            !.kept = IF e.active \in e.tabs
                                     THEN [@ EXCEPT ![e.active] = r.text] ELSE @])
        /\ UNCHANGED autosave /\ Quiet

\* With fewer than two versions, or no change, the toggle only reports; the
\* version before the latest is taken to be the one the document started with
VersionsReply(r) ==
    /\ r.kind = "versions" /\ r.served /\ Room
    /\ \/ Commit(Got(r))
       \/ /\ r.text # Original(r.doc)
          /\ Commit(enterDiffMode(discardDiff(Got(r)), Original(r.doc), r.text))
    /\ UNCHANGED autosave /\ Quiet

Listed(s) == {d \in Docs : home[d] = s /\ d \notin deleted}

\* The reply of loadSessionDocs; the list is the server's at this moment
LoadReply(r) ==
    LET e == Got(r)
        restore == "restore" \in r.notes
        wanted == "open" \in r.notes
        f == [e EXCEPT !.tabs = @ \cup Listed(r.session),
                       !.kept = [t \in Tabs |-> IF t \in Listed(r.session) \ e.tabs
                                                THEN stored[t] ELSE @[t]]]
    IN  /\ r.kind = "load" /\ Room
        /\ \/ /\ Listed(r.session) = {}
              /\ Commit(IF ~restore \/ wanted THEN showEmptyState(openPanel(e)) ELSE e)
           \/ \E d \in Listed(r.session) :
                LET docked == SetPref([f EXCEPT !.active = d, !.chip = d], r.session, "minimized")
                IN  IF restore /\ ~wanted
                    THEN Commit(IF e.pane = "open"
                                THEN closePanel(switchToDoc(docked, d), TRUE) ELSE docked)
                    ELSE Commit(switchToDoc(openPanel(SetPref(f, r.session, "open")), d))
        /\ UNCHANGED autosave /\ Quiet

\* A request that fails: a save is reported and forgotten, a load opens an
\* empty panel, and the others only report
RequestFails(r) ==
    /\ ~r.served
    /\ Commit(CASE r.kind = "load" -> showEmptyState(openPanel(Got(r)))
                [] r.kind = "create" -> [Got(r) EXCEPT !.creating = FALSE]
                [] r.kind = "auto" -> [Got(r) EXCEPT !.autoCreating = FALSE]
                [] OTHER -> Got(r))
    /\ UNCHANGED autosave /\ Quiet

-----------------------------------------------------------------------------
User ==
    \/ Type \/ FinishClose \/ RestoreChip \/ TrashChip \/ SaveNow \/ NewDocument
    \/ DeleteActive \/ RestoreVersion \/ ToggleDiff \/ ToggleButton
    \/ \E d \in Docs : OpenDocument(d)
    \/ \E d \in Tabs : SwitchTab(d) \/ CloseTab(d)
    \/ \E down \in BOOLEAN : ClosePanel(down)
    \/ \E kept \in {"accepted", "rejected"} : ResolveChunk(kept)
    \/ \E s \in Sessions : SelectSession(s)

Timers == AutosaveTimer \/ AnimationEnds \/ FinishDiff \/ \E s \in Sessions : LoadTimer(s)

Agent == StreamOpen \/ StreamDelta \/ \E d \in Docs : AgentWrites(d)

Arrivals ==
    \E r \in ed.sent :
        \/ Serve(r) \/ UpdateArrives(r) \/ SaveReply(r) \/ DeleteReply(r) \/ OpenReply(r)
        \/ CreateReply(r) \/ AutoCreateReply(r) \/ RestoreReply(r) \/ VersionsReply(r)
        \/ LoadReply(r) \/ RequestFails(r)

Next == User \/ Timers \/ Agent \/ Arrivals

Spec == Init /\ [][Next]_vars

-----------------------------------------------------------------------------
OwnText(d, text) == text.src \in {d, NoDoc}

\* Every text is where a text of its document belongs
Clean ==
    /\ ed.active # NoDoc /\ HasText(ed) => OwnText(ed.active, ed.shown)
    /\ ed.active # NoDoc /\ ed.diff.on =>
          OwnText(ed.active, ed.diff.old) /\ OwnText(ed.active, ed.diff.new)
    /\ \A t \in ed.tabs : OwnText(t, ed.kept[t])
    /\ \A r \in ed.sent : OwnText(r.doc, r.text)
    /\ \A d \in Docs : OwnText(d, stored[d])

\* The steps that act on a document other than the one they were started for:
\* text typed, created or carried over while the screen still shows another
\* document's text, or created under the review of another; a frame, a reply or
\* a diff applied to the document that is active by now; the restored list of a
\* session shown over the old screen; an update that takes over a tab of another
\* document
Crossing ==
    \/ Type /\ ed.active = NoDoc /\ ed.shown.src # NoDoc
    \/ AnimationEnds /\ ed.active # ed.anim.text.src
    \/ \E r \in ed.sent :
         \/ RestoreReply(r) /\ r.doc # ed.active
         \/ VersionsReply(r) /\ r.doc # ed.active
         \/ /\ LoadReply(r) /\ "restore" \in r.notes /\ "open" \notin r.notes
            /\ HasText(ed) \/ ed.diff.on
         \/ AutoCreateReply(r) /\ (ed.shown.src # NoDoc \/ ed.diff.on)
         \/ CreateReply(r) /\ "empty" \in r.notes /\ ed.pane = "open" /\ ed.shown.src # NoDoc
         \/ UpdateArrives(r) /\ r.session = session /\ ed'.active # r.doc

(* The text of one document reaches the screen, the tab, the review, a       *)
(* request or the stored copy of another only by the stale steps above:      *)
(* tab switches, autosaves, closing and reopening the panel, streams,        *)
(* updates of an open tab, saves and loads in any order never mix documents. *)
(* That is what exitDiffMode(true) at the head of every handler and          *)
(* saveCurrentToMap before every change of activeDocId are for (issue #2467  *)
(* in the comments of streamDocOpen and handleDocUpdate).                    *)
CrossedOnlyBy == [][Clean => Clean' \/ Crossing]_vars

\* Where text is held: the screen, the tabs, requests the server has not seen, the server
Held ==
    (IF HasText(ed) THEN ed.shown.edits ELSE {})
    \cup (UNION {ed.kept[t].edits : t \in ed.tabs})
    \cup (UNION {r.text.edits : r \in {q \in ed.sent : ~q.served /\ q.kind \in {"save", "auto"}}})
    \cup (UNION {stored[d].edits : d \in Docs})

\* No review is open, the pane is not sliding out, and the screen shows at least
\* what the tab of the active document holds
Settled ==
    /\ ed.pane # "closing" /\ ~ed.diff.on
    /\ ed.active \in ed.tabs /\ HasText(ed) => ed.kept[ed.active].edits \subseteq ed.shown.edits

\* The answer finds its document in a tab already, which addDocToTabs replaces
Overwrites(r) == r.doc \in ed.tabs /\ ~(r.doc = ed.active /\ HasText(ed))

Navigation ==
    \/ NewDocument \/ AutosaveTimer \/ SaveNow
    \/ \E s \in Sessions : SelectSession(s)
    \/ \E down \in BOOLEAN : ClosePanel(down)
    \/ \E r \in ed.sent :
         /\ ~Overwrites(r)
         /\ \/ AutoCreateReply(r)
            \/ CreateReply(r) /\ "empty" \in r.notes /\ (ed.active \in ed.tabs => HasText(ed))
    \/ /\ ed.active \in ed.tabs <=> HasText(ed)
       /\ \/ RestoreChip
          \/ \E d \in Tabs : SwitchTab(d) \/ (d = ed.active /\ CloseTab(d))
          \/ \E d \in Docs : OpenDocument(d)
          \/ \E r \in ed.sent : ~Overwrites(r) /\ (CreateReply(r) \/ OpenReply(r))

(* Moving between documents, sessions and panel states in a settled editor   *)
(* never drops a word the user typed: it is still on the screen, in a tab,   *)
(* in a save on its way or on the server (switchToDoc, closePanel and        *)
(* detachDocFromSession save before they leave; createDocument carries over  *)
(* what was typed while its request was under way).  Three cases are left    *)
(* out because the code does drop words in them: an answer that replaces a   *)
(* tab opened meanwhile, a text without a tab, and the document that the     *)
(* list of a restored session makes active without a panel, which            *)
(* saveCurrentToMap overwrites with the empty textarea of the panel that is  *)
(* opened next (document.js:4471, 6886, 7363).                               *)
NavigationKeepsEdits == [][Settled /\ Navigation => typed \cap Held \subseteq Held']_vars

(* The text an open review would restore is the active document's, as the    *)
(* comments of streamDocOpen and handleDocUpdate claim (exitDiffMode(true)   *)
(* "restores and saves THAT doc").  The diff toggle, which awaits the        *)
(* versions, and the list of a restored session break it.                    *)
ReviewOfActive ==
    ed.diff.on /\ ed.active # NoDoc => OwnText(ed.active, ed.diff.old)
=============================================================================
