------------------------- MODULE DocumentEditorProofs -------------------------
(***************************************************************************)
(* The document panel for any documents, sessions, requests and inputs.    *)
(***************************************************************************)
EXTENDS DocumentEditor, TLAPS

USE EditorAssumption

-----------------------------------------------------------------------------
(* Requests and the editor record.                                         *)

\* Which document a request names: only a creation learns its document from the
\* answer, and an event of the agent needs none.
Shaped(r) ==
    /\ r.kind \in {"save", "delete"} => r.doc \in Tabs
    /\ r.kind \in {"open", "versions", "restore", "update"} => r.doc \in Docs
    /\ r.kind \in {"create", "auto"} => IF r.served THEN r.doc \in Docs ELSE r.doc = NoDoc
    /\ r.kind = "load" => r.doc = NoDoc
    /\ r.kind = "update" => r.served

Editor == {e \in EditorType : \A r \in e.sent : Shaped(r)}

\* The part of Clean that is about the panel.
CleanEditor(e) ==
    /\ e.active # NoDoc /\ HasText(e) => OwnText(e.active, e.shown)
    /\ e.active # NoDoc /\ e.diff.on =>
          OwnText(e.active, e.diff.old) /\ OwnText(e.active, e.diff.new)
    /\ \A t \in e.tabs : OwnText(t, e.kept[t])
    /\ \A r \in e.sent : OwnText(r.doc, r.text)

\* From e the code makes f: an editor again, and a clean one of a clean one.
Makes(e, f) == f \in Editor /\ (CleanEditor(e) => CleanEditor(f))

LEMMA BlankText == Blank \in Text /\ \A d \in Tabs : Original(d) \in Text
BY DEF Blank, Original, Text, Tabs

LEMMA BlankIsOwn == ASSUME NEW d PROVE OwnText(d, Blank) /\ OwnText(d, Original(d))
BY DEF Blank, Original, OwnText

LEMMA FetchMakes ==
    ASSUME NEW e \in Editor, NEW kind \in Kinds, NEW d \in Tabs \cup {NoDoc},
           NEW s \in Sessions \cup {NoSession}, NEW text \in Text,
           NEW notes \in SUBSET {"restore", "open", "empty"},
           Shaped([kind |-> kind, doc |-> d, session |-> s, text |-> text,
                   notes |-> notes, served |-> FALSE]),
           CleanEditor(e) => OwnText(d, text)
    PROVE  Makes(e, Fetch(e, kind, d, s, text, notes))
<1> DEFINE r == [kind |-> kind, doc |-> d, session |-> s, text |-> text,
                 notes |-> notes, served |-> FALSE]
           f == Fetch(e, kind, d, s, text, notes)
<1>1. r \in Request /\ r.doc = d /\ r.text = text
  BY DEF Request
<1> HIDE DEF r
<1>2. f = [e EXCEPT !.sent = @ \cup {r}]
  BY DEF Fetch, r
<1>3. f \in EditorType
  BY <1>1, <1>2 DEF Editor, EditorType
<1>4. f.sent = e.sent \cup {r}
  BY <1>2 DEF Editor, EditorType
<1>5. f \in Editor
  BY <1>3, <1>4 DEF Editor, r
<1>6. /\ f.active = e.active /\ f.pane = e.pane /\ f.shown = e.shown /\ f.diff = e.diff
      /\ f.tabs = e.tabs /\ f.kept = e.kept
  BY <1>2 DEF Editor, EditorType
<1> HIDE DEF f
<1>7. CleanEditor(e) => CleanEditor(f)
  BY <1>1, <1>4, <1>6 DEF CleanEditor, HasText
<1>8. QED
  BY <1>5, <1>7 DEF Makes, f

LEMMA SaveCurrentMakes ==
    ASSUME NEW e \in Editor PROVE Makes(e, saveCurrentToMap(e))
<1>1. CASE e.active \in e.tabs /\ HasText(e)
  <2> DEFINE f == [e EXCEPT !.kept[e.active] = e.shown]
  <2>1. saveCurrentToMap(e) = f
    BY <1>1 DEF saveCurrentToMap
  <2>2. f \in EditorType
    BY <1>1 DEF Editor, EditorType
  <2>3. /\ f.active = e.active /\ f.pane = e.pane /\ f.shown = e.shown /\ f.diff = e.diff
        /\ f.tabs = e.tabs /\ f.sent = e.sent /\ e.active \in Tabs /\ e.tabs \subseteq Tabs
        /\ f.kept = [e.kept EXCEPT ![e.active] = e.shown] /\ e.kept \in [Tabs -> Text]
    BY <1>1 DEF Editor, EditorType
  <2> HIDE DEF f
  <2>4. f \in Editor
    BY <2>2, <2>3 DEF Editor
  <2>5. e.active # NoDoc
    BY <2>3 DEF Tabs
  <2>6. CleanEditor(e) => CleanEditor(f)
    BY <1>1, <2>3, <2>5 DEF CleanEditor, HasText
  <2>7. QED
    BY <2>1, <2>4, <2>6 DEF Makes
<1>2. CASE ~(e.active \in e.tabs /\ HasText(e))
  BY <1>2 DEF saveCurrentToMap, Makes
<1>3. QED
  BY <1>1, <1>2

LEMMA MakesTransitive ==
    ASSUME NEW e, NEW f, NEW g, Makes(e, f), Makes(f, g)
    PROVE  Makes(e, g)
BY DEF Makes

\* saveCurrentToMap() and saveDocument() touch the map and the requests alone.
LEMMA SaveCurrentFacts ==
    ASSUME NEW e \in Editor
    PROVE  LET f == saveCurrentToMap(e)
           IN  /\ f.active = e.active /\ f.pane = e.pane /\ f.shown = e.shown /\ f.diff = e.diff
               /\ f.tabs = e.tabs /\ f.sent = e.sent /\ f.stream = e.stream /\ f.last = e.last
               /\ f.kept = IF e.active \in e.tabs /\ HasText(e)
                           THEN [e.kept EXCEPT ![e.active] = e.shown] ELSE e.kept
BY DEF Editor, EditorType, saveCurrentToMap

LEMMA SaveMakes ==
    ASSUME NEW e \in Editor
    PROVE  LET f == saveDocument(e)
           IN  /\ Makes(e, f)
               /\ f.active = e.active /\ f.pane = e.pane /\ f.shown = e.shown /\ f.diff = e.diff
               /\ f.tabs = e.tabs /\ f.stream = e.stream /\ f.last = e.last
<1>1. CASE e.active = NoDoc \/ ~HasText(e)
  BY <1>1 DEF saveDocument, Makes
<1>2. CASE e.active # NoDoc /\ HasText(e)
  <2> DEFINE f == saveCurrentToMap(e)
             text == IF f.active \in f.tabs THEN f.kept[f.active] ELSE f.shown
             g == Fetch(f, "save", f.active, NoSession, text, {})
  <2>1. saveDocument(e) = g
    BY <1>2 DEF saveDocument
  <2>2. Makes(e, f)
    BY SaveCurrentMakes
  <2>3. f.active = e.active /\ f.pane = e.pane /\ f.shown = e.shown /\ f.diff = e.diff
        /\ f.tabs = e.tabs /\ f.stream = e.stream /\ f.last = e.last
    BY SaveCurrentFacts
  <2> HIDE DEF f
  <2>4. f \in Editor /\ f.active \in Tabs
    BY <1>2, <2>2, <2>3 DEF Makes, Editor, EditorType
  <2>5. text \in Text
    BY <2>4 DEF Editor, EditorType
  <2>6. CleanEditor(f) => OwnText(f.active, text)
    BY <1>2, <2>3 DEF CleanEditor, HasText
  <2> HIDE DEF text
  <2>7. Makes(f, g)
    <3> DEFINE r == [kind |-> "save", doc |-> f.active, session |-> NoSession, text |-> text,
                     notes |-> {}, served |-> FALSE]
    <3>1. Shaped(r)
      BY <2>4 DEF Shaped
    <3>2. "save" \in Kinds
      BY DEF Kinds
    <3>3. QED
      BY <2>4, <2>5, <2>6, <3>1, <3>2, FetchMakes
  <2>8. g.active = f.active /\ g.pane = f.pane /\ g.shown = f.shown /\ g.diff = f.diff
        /\ g.tabs = f.tabs /\ g.stream = f.stream /\ g.last = f.last
    BY <2>4 DEF Fetch, Editor, EditorType
  <2> HIDE DEF g
  <2>9. QED
    BY <2>1, <2>2, <2>3, <2>7, <2>8, MakesTransitive
<1>3. QED
  BY <1>1, <1>2

\* A review is left with a text of the active document.
LEMMA ExitMakes ==
    ASSUME NEW e \in Editor, NEW text \in Text,
           CleanEditor(e) /\ e.active # NoDoc => OwnText(e.active, text)
    PROVE  LET f == exitDiffMode(e, text)
           IN  /\ Makes(e, f) /\ ~f.diff.on
               /\ f.active = e.active /\ f.pane = e.pane /\ f.tabs = e.tabs
               /\ f.stream = e.stream /\ f.last = e.last
<1>1. CASE ~e.diff.on
  BY <1>1 DEF exitDiffMode, Makes
<1>2. CASE e.diff.on
  <2> DEFINE f == [e EXCEPT !.diff = NoDiff, !.shown = IF HasText(e) THEN text ELSE @]
  <2>1. exitDiffMode(e, text) = saveDocument(f)
    BY <1>2 DEF exitDiffMode
  <2>2. f \in EditorType
    <3>1. NoDiff \in DiffType
      BY BlankText DEF NoDiff, DiffType
    <3>2. QED
      BY <3>1 DEF Editor, EditorType
  <2>3. /\ f.active = e.active /\ f.pane = e.pane /\ f.tabs = e.tabs /\ f.stream = e.stream
        /\ f.diff = NoDiff /\ f.sent = e.sent /\ f.kept = e.kept /\ f.last = e.last
        /\ f.shown = IF HasText(e) THEN text ELSE e.shown
    BY DEF Editor, EditorType
  <2> HIDE DEF f
  <2>4. f \in Editor
    BY <2>2, <2>3 DEF Editor
  <2>5. CleanEditor(e) => CleanEditor(f)
    BY <2>3 DEF CleanEditor, HasText, NoDiff
  <2>6. Makes(e, f)
    BY <2>4, <2>5 DEF Makes
  <2>7. ~f.diff.on
    BY <2>3 DEF NoDiff
  <2>8. QED
    BY <2>1, <2>3, <2>4, <2>6, <2>7, SaveMakes, MakesTransitive
<1>3. QED
  BY <1>1, <1>2

LEMMA DiscardMakes ==
    ASSUME NEW e \in Editor
    PROVE  LET f == discardDiff(e)
           IN  /\ Makes(e, f) /\ ~f.diff.on
               /\ f.active = e.active /\ f.pane = e.pane /\ f.tabs = e.tabs
               /\ f.stream = e.stream /\ f.last = e.last
<1> DEFINE old == e.diff.old
<1>1. old \in Text
  BY DEF Editor, EditorType, DiffType
<1>2. CASE e.diff.on
  <2>1. CleanEditor(e) /\ e.active # NoDoc => OwnText(e.active, old)
    BY <1>2 DEF CleanEditor
  <2> HIDE DEF old
  <2>2. discardDiff(e) = exitDiffMode(e, old)
    BY DEF discardDiff, old
  <2>3. QED
    BY <1>1, <2>1, <2>2, ExitMakes
<1>3. CASE ~e.diff.on
  BY <1>3 DEF discardDiff, exitDiffMode, Makes
<1>4. QED
  BY <1>2, <1>3

\* A tab is shown once no review is open.
LEMMA ShowTabMakes ==
    ASSUME NEW e \in Editor, NEW d \in e.tabs, ~e.diff.on
    PROVE  Makes(e, [e EXCEPT !.active = d, !.shown = IF HasText(e) THEN e.kept[d] ELSE @])
<1> DEFINE f == [e EXCEPT !.active = d, !.shown = IF HasText(e) THEN e.kept[d] ELSE @]
<1>1. d \in Tabs /\ e.kept[d] \in Text
  BY DEF Editor, EditorType
<1>2. f \in EditorType
  BY <1>1 DEF Editor, EditorType
<1>3. /\ f.active = d /\ f.pane = e.pane /\ f.tabs = e.tabs /\ f.diff = e.diff
      /\ f.sent = e.sent /\ f.kept = e.kept
      /\ f.shown = IF HasText(e) THEN e.kept[d] ELSE e.shown
  BY DEF Editor, EditorType
<1> HIDE DEF f
<1>4. f \in Editor /\ (CleanEditor(e) => CleanEditor(f))
  BY <1>2, <1>3 DEF Editor, CleanEditor, HasText
<1>5. QED
  BY <1>4 DEF Makes, f

\* A tab that is left empty is dropped and its document deleted.
LEMMA DropTabMakes ==
    ASSUME NEW e \in Editor, NEW t \in Tabs
    PROVE  LET f == Fetch([e EXCEPT !.tabs = @ \ {t}], "delete", t, NoSession, Blank, {})
           IN  /\ Makes(e, f)
               /\ f.tabs = e.tabs \ {t} /\ f.kept = e.kept /\ f.diff = e.diff /\ f.pane = e.pane
               /\ f.active = e.active /\ f.stream = e.stream /\ f.last = e.last /\ f.shown = e.shown
<1> DEFINE g == [e EXCEPT !.tabs = @ \ {t}]
           f == Fetch(g, "delete", t, NoSession, Blank, {})
<1>1. g \in EditorType
  BY DEF Editor, EditorType
<1>2. /\ g.tabs = e.tabs \ {t} /\ g.kept = e.kept /\ g.diff = e.diff /\ g.pane = e.pane
      /\ g.active = e.active /\ g.stream = e.stream /\ g.last = e.last /\ g.shown = e.shown
      /\ g.sent = e.sent
  BY DEF Editor, EditorType
<1> HIDE DEF g
<1>3. Makes(e, g)
  BY <1>1, <1>2 DEF Makes, Editor, CleanEditor, HasText
<1>4. Makes(g, f)
  <2> DEFINE r == [kind |-> "delete", doc |-> t, session |-> NoSession, text |-> Blank,
                   notes |-> {}, served |-> FALSE]
  <2>1. Shaped(r)
    BY DEF Shaped
  <2>2. "delete" \in Kinds
    BY DEF Kinds
  <2>3. QED
    BY <1>3, <2>1, <2>2, FetchMakes, BlankText, BlankIsOwn DEF Makes
<1>5. /\ f.tabs = g.tabs /\ f.kept = g.kept /\ f.diff = g.diff /\ f.pane = g.pane
      /\ f.active = g.active /\ f.stream = g.stream /\ f.last = g.last /\ f.shown = g.shown
  BY <1>1 DEF Fetch, EditorType
<1> HIDE DEF f
<1>6. QED
  BY <1>2, <1>3, <1>4, <1>5, MakesTransitive DEF f, g

LEMMA SwitchMakes ==
    ASSUME NEW e \in Editor, NEW d
    PROVE  Makes(e, switchToDoc(e, d))
<1>1. CASE d \notin e.tabs
  BY <1>1 DEF switchToDoc, Makes
<1>2. CASE d \in e.tabs
  <2> DEFINE c == discardDiff(e)
             f == saveCurrentToMap(c)
             left == f.active
             g == IF left \in f.tabs \ {d} /\ f.kept[left] = Blank
                  THEN Fetch([f EXCEPT !.tabs = @ \ {left}], "delete", left, NoSession, Blank, {})
                  ELSE f
             h == [g EXCEPT !.active = d, !.shown = IF HasText(g) THEN g.kept[d] ELSE @]
  <2>1. switchToDoc(e, d) = h
    BY <1>2 DEF switchToDoc
  <2>2. Makes(e, c) /\ ~c.diff.on /\ c.tabs = e.tabs
    BY DiscardMakes
  <2> HIDE DEF c
  <2>3. Makes(c, f) /\ ~f.diff.on /\ f.tabs = e.tabs
    BY <2>2, SaveCurrentMakes, SaveCurrentFacts DEF Makes
  <2> HIDE DEF f
  <2>4. f \in Editor /\ f.tabs \subseteq Tabs
    BY <2>3 DEF Makes, Editor, EditorType
  <2>5. Makes(f, g) /\ ~g.diff.on /\ d \in g.tabs
    <3>1. CASE left \in f.tabs \ {d} /\ f.kept[left] = Blank
      <4>1. g = Fetch([f EXCEPT !.tabs = @ \ {left}], "delete", left, NoSession, Blank, {})
        BY <3>1
      <4>2. left \in Tabs
        BY <2>4, <3>1
      <4> HIDE DEF left, g
      <4>3. QED
        BY <1>2, <2>3, <2>4, <3>1, <4>1, <4>2, DropTabMakes
    <3>2. CASE ~(left \in f.tabs \ {d} /\ f.kept[left] = Blank)
      <4>1. g = f
        BY <3>2
      <4>2. QED
        BY <1>2, <2>3, <2>4, <4>1 DEF Makes
    <3>3. QED
      BY <3>1, <3>2
  <2> HIDE DEF g
  <2>6. Makes(g, h)
    BY <2>5, ShowTabMakes DEF Makes
  <2> HIDE DEF h
  <2>7. QED
    BY <2>1, <2>2, <2>3, <2>5, <2>6, MakesTransitive
<1>3. QED
  BY <1>1, <1>2

\* Fields that tell what is open, and where the panel says so: none holds a text.
LEMMA PrefMakes ==
    ASSUME NEW e \in Editor, NEW s \in Sessions \cup {NoSession},
           NEW p \in {"closed", "open", "minimized"}
    PROVE  LET f == SetPref(e, s, p)
           IN  /\ Makes(e, f)
               /\ f.active = e.active /\ f.pane = e.pane /\ f.shown = e.shown /\ f.diff = e.diff
               /\ f.tabs = e.tabs /\ f.sent = e.sent /\ f.stream = e.stream /\ f.last = e.last
               /\ f.kept = e.kept /\ f.tempHome = e.tempHome
<1>1. CASE s = NoSession
  BY <1>1 DEF SetPref, Makes
<1>2. CASE s # NoSession
  <2> DEFINE f == [e EXCEPT !.pref[s] = p]
  <2>1. SetPref(e, s, p) = f /\ s \in Sessions
    BY <1>2 DEF SetPref
  <2>2. f \in EditorType
    BY <2>1 DEF Editor, EditorType
  <2>3. /\ f.active = e.active /\ f.pane = e.pane /\ f.shown = e.shown /\ f.diff = e.diff
        /\ f.tabs = e.tabs /\ f.sent = e.sent /\ f.stream = e.stream /\ f.last = e.last
        /\ f.kept = e.kept /\ f.tempHome = e.tempHome
    BY DEF Editor, EditorType
  <2> HIDE DEF f
  <2>4. Makes(e, f)
    BY <2>2, <2>3 DEF Makes, Editor, CleanEditor, HasText
  <2>5. QED
    BY <2>1, <2>3, <2>4
<1>3. QED
  BY <1>1, <1>2

LEMMA EmptyMakes ==
    ASSUME NEW e \in Editor
    PROVE  LET f == showEmptyState(e)
           IN  /\ Makes(e, f)
               /\ f.active = NoDoc /\ f.pane = e.pane /\ f.shown = Blank /\ f.diff = e.diff
               /\ f.tabs = e.tabs /\ f.sent = e.sent /\ f.stream = e.stream /\ f.kept = e.kept
<1> DEFINE f == showEmptyState(e)
<1>1. f \in EditorType
  BY BlankText DEF Editor, EditorType, showEmptyState
<1>2. /\ f.active = NoDoc /\ f.pane = e.pane /\ f.shown = Blank /\ f.diff = e.diff
      /\ f.tabs = e.tabs /\ f.sent = e.sent /\ f.stream = e.stream /\ f.kept = e.kept
  BY DEF Editor, EditorType, showEmptyState
<1> HIDE DEF f
<1>3. Makes(e, f)
  BY <1>1, <1>2 DEF Makes, Editor, CleanEditor
<1>4. QED
  BY <1>2, <1>3 DEF f

\* openPanel() builds a new, empty textarea unless the panel is open; it keeps the
\* active document if there are tabs.
LEMMA OpenPanelMakes ==
    ASSUME NEW e \in Editor
    PROVE  LET f == openPanel(e)
           IN  /\ Makes(e, f)
               /\ f.active = IF e.pane = "open" \/ e.tabs # {} THEN e.active ELSE NoDoc
               /\ f.shown = IF e.pane = "open" THEN e.shown ELSE Blank
               /\ f.pane = "open" /\ f.diff = e.diff /\ f.tabs = e.tabs /\ f.sent = e.sent
               /\ f.stream = e.stream /\ f.kept = e.kept
<1>1. CASE e.pane = "open"
  BY <1>1 DEF openPanel, Makes
<1>2. CASE e.pane # "open"
  <2> DEFINE a == [e EXCEPT !.pane = "open", !.chip = NoChip, !.shown = Blank, !.anim = NoAnim]
             f == SetPref(a, e.last, "open")
  <2>1. a \in EditorType
    <3>1. NoAnim \in AnimType
      BY BlankText DEF NoAnim, AnimType
    <3>2. QED
      BY <3>1, BlankText DEF Editor, EditorType
  <2>2. /\ a.active = e.active /\ a.pane = "open" /\ a.shown = Blank /\ a.diff = e.diff
        /\ a.tabs = e.tabs /\ a.sent = e.sent /\ a.stream = e.stream /\ a.kept = e.kept
    BY DEF Editor, EditorType
  <2>3. e.last \in Sessions \cup {NoSession}
    BY DEF Editor, EditorType
  <2> HIDE DEF a
  <2>4. Makes(e, a)
    BY <2>1, <2>2, BlankIsOwn DEF Makes, Editor, CleanEditor
  <2>5. /\ Makes(a, f)
        /\ f.active = a.active /\ f.pane = a.pane /\ f.shown = a.shown /\ f.diff = a.diff
        /\ f.tabs = a.tabs /\ f.sent = a.sent /\ f.stream = a.stream /\ f.kept = a.kept
    BY <2>3, <2>4, PrefMakes DEF Makes
  <2>6. openPanel(e) = IF f.tabs = {} \/ f.active = NoDoc THEN showEmptyState(f) ELSE f
    BY <1>2 DEF openPanel, a
  <2> HIDE DEF f
  <2>7. CASE f.tabs = {} \/ f.active = NoDoc
    <3>1. openPanel(e) = showEmptyState(f) /\ f \in Editor
      BY <2>5, <2>6, <2>7 DEF Makes
    <3>2. QED
      BY <1>2, <2>2, <2>4, <2>5, <2>7, <3>1, EmptyMakes, MakesTransitive
  <2>8. CASE ~(f.tabs = {} \/ f.active = NoDoc)
    BY <1>2, <2>2, <2>4, <2>5, <2>6, <2>8, MakesTransitive
  <2>9. QED
    BY <2>7, <2>8
<1>3. QED
  BY <1>1, <1>2

\* closePanel() keeps the text of the active tab and starts the slide-out.
LEMMA ClosePanelMakes ==
    ASSUME NEW e \in Editor, NEW down \in BOOLEAN
    PROVE  LET f == closePanel(e, down)
           IN  /\ Makes(e, f)
               /\ f.active = e.active /\ f.shown = e.shown /\ f.diff = e.diff
               /\ f.tabs = e.tabs /\ f.sent = e.sent
               /\ f.pane = IF e.pane = "open" THEN "closing" ELSE e.pane
               /\ f.kept = IF e.pane = "open" /\ e.active \in e.tabs
                           THEN [e.kept EXCEPT ![e.active] = e.shown] ELSE e.kept
<1>1. e.last \in Sessions \cup {NoSession}
  BY DEF Editor, EditorType
<1>2. CASE e.pane # "open"
  <2>1. CASE ~down /\ e.chip # NoChip
    <3> DEFINE a == [e EXCEPT !.chip = NoChip]
    <3>1. a \in EditorType
      BY DEF Editor, EditorType
    <3>2. /\ a.active = e.active /\ a.pane = e.pane /\ a.shown = e.shown /\ a.diff = e.diff
          /\ a.tabs = e.tabs /\ a.sent = e.sent /\ a.kept = e.kept
      BY DEF Editor, EditorType
    <3> HIDE DEF a
    <3>3. Makes(e, a)
      BY <3>1, <3>2 DEF Makes, Editor, CleanEditor, HasText
    <3>4. closePanel(e, down) = SetPref(a, e.last, "closed")
      BY <1>2, <2>1 DEF closePanel, a
    <3>5. a \in Editor
      BY <3>3 DEF Makes
    <3>6. QED
      BY <1>1, <1>2, <3>2, <3>3, <3>4, <3>5, PrefMakes, MakesTransitive
  <2>2. CASE ~(~down /\ e.chip # NoChip)
    BY <1>2, <2>2 DEF closePanel, Makes
  <2>3. QED
    BY <2>1, <2>2
<1>3. CASE e.pane = "open"
  <2> DEFINE a == [e EXCEPT !.pane = "closing"]
             f == saveCurrentToMap(a)
             chip == IF down THEN f.active ELSE NoChip
             b == [f EXCEPT !.chip = chip]
             p == IF down THEN "minimized" ELSE "closed"
  <2>1. a \in EditorType
    BY DEF Editor, EditorType
  <2>2. /\ a.active = e.active /\ a.pane = "closing" /\ a.shown = e.shown /\ a.diff = e.diff
        /\ a.tabs = e.tabs /\ a.sent = e.sent /\ a.kept = e.kept /\ a.last = e.last
    BY DEF Editor, EditorType
  <2>3. f = saveCurrentToMap([e EXCEPT !.pane = "closing"])
    OBVIOUS
  <2> HIDE DEF a
  <2>4. Makes(e, a)
    BY <1>3, <2>1, <2>2 DEF Makes, Editor, CleanEditor, HasText
  <2>5. /\ Makes(a, f)
        /\ f.active = a.active /\ f.pane = a.pane /\ f.shown = a.shown /\ f.diff = a.diff
        /\ f.tabs = a.tabs /\ f.sent = a.sent /\ f.last = a.last
        /\ f.kept = IF a.active \in a.tabs THEN [a.kept EXCEPT ![a.active] = a.shown] ELSE a.kept
    BY <2>2, <2>4, SaveCurrentMakes, SaveCurrentFacts DEF Makes, HasText
  <2> HIDE DEF f
  <2>6. f \in Editor /\ chip \in Tabs \cup {NoDoc, NoChip}
    BY <2>5 DEF Makes, Editor, EditorType
  <2>7. closePanel(e, down) = SetPref(b, f.last, p)
    BY <1>3, <2>3 DEF closePanel
  <2> HIDE DEF chip
  <2>8. b \in EditorType
    BY <2>6 DEF Editor, EditorType
  <2>9. /\ b.active = f.active /\ b.pane = f.pane /\ b.shown = f.shown /\ b.diff = f.diff
        /\ b.tabs = f.tabs /\ b.sent = f.sent /\ b.kept = f.kept
    BY <2>6 DEF Editor, EditorType
  <2> HIDE DEF b
  <2>10. Makes(f, b)
    BY <2>6, <2>8, <2>9 DEF Makes, Editor, CleanEditor, HasText
  <2>11. b \in Editor /\ f.last \in Sessions \cup {NoSession} /\ p \in {"closed", "open", "minimized"}
    BY <1>1, <2>2, <2>5, <2>10 DEF Makes
  <2> HIDE DEF p
  <2> DEFINE g == SetPref(b, f.last, p)
  <2>12. /\ Makes(b, g)
         /\ g.active = b.active /\ g.pane = b.pane /\ g.shown = b.shown /\ g.diff = b.diff
         /\ g.tabs = b.tabs /\ g.sent = b.sent /\ g.kept = b.kept
    BY <2>11, PrefMakes
  <2>13. closePanel(e, down) = g
    BY <2>7
  <2> HIDE DEF g
  <2>14. Makes(e, g)
    BY <2>4, <2>5, <2>10, <2>12, MakesTransitive
  <2>15. QED
    BY <1>3, <2>2, <2>5, <2>9, <2>12, <2>13, <2>14
<1>4. QED
  BY <1>2, <1>3

\* A document gets a tab with a text of its own.
LEMMA AddTabMakes ==
    ASSUME NEW e \in Editor, NEW d \in Tabs, NEW text \in Text
    PROVE  LET f == addDocToTabs(e, d, text)
           IN  /\ f \in Editor
               /\ CleanEditor(e) /\ OwnText(d, text) => CleanEditor(f)
               /\ f.active = e.active /\ f.pane = e.pane /\ f.shown = e.shown /\ f.diff = e.diff
               /\ f.tabs = e.tabs \cup {d} /\ f.sent = e.sent /\ f.stream = e.stream
               /\ \A t \in Tabs : f.kept[t] = IF t = d THEN text ELSE e.kept[t]
<1> DEFINE f == addDocToTabs(e, d, text)
<1>1. f \in EditorType
  BY DEF Editor, EditorType, addDocToTabs
<1>2. /\ f.active = e.active /\ f.pane = e.pane /\ f.shown = e.shown /\ f.diff = e.diff
      /\ f.tabs = e.tabs \cup {d} /\ f.sent = e.sent /\ f.stream = e.stream
      /\ e.tabs \subseteq Tabs
      /\ \A t \in Tabs : f.kept[t] = IF t = d THEN text ELSE e.kept[t]
  BY DEF Editor, EditorType, addDocToTabs
<1> HIDE DEF f
<1>3. f \in Editor
  BY <1>1, <1>2 DEF Editor
<1>4. CleanEditor(e) /\ OwnText(d, text) => CleanEditor(f)
  BY <1>2 DEF CleanEditor, HasText
<1>5. QED
  BY <1>2, <1>3, <1>4 DEF f

\* A tab is closed: what is active is saved, or the empty document deleted.
LEMMA DetachMakes ==
    ASSUME NEW e \in Editor, NEW d \in Tabs
    PROVE  LET f == detachDocFromSession(e, d)
           IN  Makes(e, f) /\ f.active = e.active /\ f.tabs = e.tabs \ {d}
<1>1. CASE e.kept[d] # Blank
  <2> DEFINE s == saveDocument(e)
             f == [s EXCEPT !.tabs = @ \ {d}]
  <2>1. Makes(e, s) /\ s.active = e.active /\ s.tabs = e.tabs
    BY SaveMakes
  <2>2. detachDocFromSession(e, d) = f
    BY <1>1 DEF detachDocFromSession
  <2> HIDE DEF s
  <2>3. s \in Editor
    BY <2>1 DEF Makes
  <2>4. f \in EditorType
    BY <2>3 DEF Editor, EditorType
  <2>5. /\ f.active = s.active /\ f.pane = s.pane /\ f.shown = s.shown /\ f.diff = s.diff
        /\ f.tabs = s.tabs \ {d} /\ f.sent = s.sent /\ f.kept = s.kept
    BY <2>3 DEF Editor, EditorType
  <2> HIDE DEF f
  <2>6. Makes(s, f)
    BY <2>3, <2>4, <2>5 DEF Makes, Editor, CleanEditor, HasText
  <2>7. QED
    BY <2>1, <2>2, <2>5, <2>6, MakesTransitive
<1>2. CASE e.kept[d] = Blank
  <2> DEFINE g == [e EXCEPT !.tabs = @ \ {d}]
             f == Fetch(g, "delete", d, NoSession, Blank, {})
             h == Fetch(e, "delete", d, NoSession, Blank, {})
  <2>1. detachDocFromSession(e, d) = [h EXCEPT !.tabs = @ \ {d}]
    BY <1>2 DEF detachDocFromSession
  <2>2. [h EXCEPT !.tabs = @ \ {d}] = f
    BY DEF Fetch, Editor, EditorType
  <2>3. Makes(e, f) /\ f.active = e.active /\ f.tabs = e.tabs \ {d}
    BY DropTabMakes
  <2> HIDE DEF f, h
  <2>4. QED
    BY <2>1, <2>2, <2>3
<1>3. QED
  BY <1>1, <1>2

\* A review is opened on two texts of the active document.
LEMMA EnterMakes ==
    ASSUME NEW e \in Editor, NEW old \in Text, NEW new \in Text
    PROVE  LET f == enterDiffMode(e, old, new)
           IN  /\ f \in Editor
               /\ CleanEditor(e) /\ (e.active # NoDoc => OwnText(e.active, old) /\ OwnText(e.active, new))
                     => CleanEditor(f)
<1> DEFINE f == enterDiffMode(e, old, new)
           x == [on |-> TRUE, old |-> old, new |-> new, kept |-> "open"]
           both == Interleaved(old, new)
           text == IF HasText(e) THEN both ELSE e.shown
<1>1. x \in DiffType /\ x.old = old /\ x.new = new
  BY DEF DiffType
<1>2. f = [e EXCEPT !.diff = x, !.shown = text]
  BY DEF enterDiffMode, Editor, EditorType
<1>20. /\ both \in Text
       /\ \A d : OwnText(d, old) /\ OwnText(d, new) => OwnText(d, both)
  BY DEF Interleaved, Text, OwnText
<1> HIDE DEF x, both
<1>21. text \in Text /\ (HasText(e) => text = both)
  BY <1>20 DEF Editor, EditorType
<1> HIDE DEF text
<1>3. f \in EditorType
  BY <1>1, <1>2, <1>21 DEF Editor, EditorType
<1>4. /\ f.active = e.active /\ f.pane = e.pane /\ f.shown = text /\ f.diff = x
      /\ f.tabs = e.tabs /\ f.sent = e.sent /\ f.kept = e.kept
  BY <1>2 DEF Editor, EditorType
<1> HIDE DEF f
<1>5. f \in Editor
  BY <1>3, <1>4 DEF Editor
<1>6. CleanEditor(e) /\ (e.active # NoDoc => OwnText(e.active, old) /\ OwnText(e.active, new))
        => CleanEditor(f)
  BY <1>1, <1>4, <1>20, <1>21 DEF CleanEditor, HasText
<1>7. QED
  BY <1>5, <1>6 DEF f

\* The list of a session takes the place of the tabs of others.
LEMMA LoadMakes ==
    ASSUME NEW e \in Editor, NEW s \in Sessions, NEW notes \in SUBSET {"restore"}
    PROVE  Makes(e, loadSessionDocs(e, s, notes))
<1> DEFINE f == [e EXCEPT !.last = s, !.active = NoDoc,
                          !.tabs = {d \in @ : HomeOf(e, d) \in {s, NoSession}}]
           more == notes \cup (IF e.pref[s] = "open" THEN {"open"} ELSE {})
<1>1. f \in EditorType
  BY DEF Editor, EditorType
<1>2. /\ f.active = NoDoc /\ f.pane = e.pane /\ f.shown = e.shown /\ f.diff = e.diff
      /\ f.tabs \subseteq e.tabs /\ f.sent = e.sent /\ f.kept = e.kept
  BY DEF Editor, EditorType
<1>3. loadSessionDocs(e, s, notes) = Fetch(f, "load", NoDoc, s, Blank, more)
  BY DEF loadSessionDocs
<1> HIDE DEF f
<1>4. Makes(e, f)
  BY <1>1, <1>2 DEF Makes, Editor, CleanEditor
<1>5. more \in SUBSET {"restore", "open", "empty"}
  OBVIOUS
<1> HIDE DEF more
<1>6. Makes(f, Fetch(f, "load", NoDoc, s, Blank, more))
  <2> DEFINE r == [kind |-> "load", doc |-> NoDoc, session |-> s, text |-> Blank,
                   notes |-> more, served |-> FALSE]
  <2>1. Shaped(r)
    BY DEF Shaped
  <2>2. "load" \in Kinds
    BY DEF Kinds
  <2>3. QED
    BY <1>4, <1>5, <2>1, <2>2, FetchMakes, BlankText, BlankIsOwn DEF Makes
<1>7. QED
  BY <1>3, <1>4, <1>6, MakesTransitive

-----------------------------------------------------------------------------
(* The agent's events.                                                     *)

\* The tabs and the requests are clean, whatever is on the screen.
CleanRest(e) ==
    /\ \A t \in e.tabs : OwnText(t, e.kept[t])
    /\ \A r \in e.sent : OwnText(r.doc, r.text)

\* A document is made active with a text of its own on the screen, no review is open.
LEMMA ActivateMakes ==
    ASSUME NEW e \in Editor, NEW d \in Tabs, NEW text \in Text
    PROVE  LET f == [e EXCEPT !.active = d, !.shown = text]
           IN  /\ f \in Editor /\ f.active = d
               /\ CleanRest(e) /\ ~e.diff.on /\ OwnText(d, text) => CleanEditor(f)
<1> DEFINE f == [e EXCEPT !.active = d, !.shown = text]
<1>1. f \in EditorType
  BY DEF Editor, EditorType
<1>2. /\ f.active = d /\ f.pane = e.pane /\ f.shown = text /\ f.diff = e.diff
      /\ f.tabs = e.tabs /\ f.sent = e.sent /\ f.kept = e.kept
  BY DEF Editor, EditorType
<1> HIDE DEF f
<1>3. QED
  BY <1>1, <1>2 DEF Editor, CleanEditor, CleanRest, f

\* streamDocOpen() leaves the review before the document it belongs to.
LEMMA StreamOpenMakes ==
    ASSUME NEW e \in Editor, NEW match \in Tabs \cup {NoDoc}, session \in Sessions,
           match # NoDoc => match \in e.tabs
    PROVE  Makes(e, streamDocOpen(e, match))
<1> DEFINE f == discardDiff(e)
           t == IF match = NoDoc THEN Temp ELSE match
           b == addDocToTabs(f, Temp, Blank)
           g == IF match = NoDoc THEN [b EXCEPT !.tempHome = session] ELSE f
           a == [g EXCEPT !.stream = t, !.active = t]
           o == openPanel(a)
           h == [o EXCEPT !.shown = Blank]
<1>1. streamDocOpen(e, match) = IF f.stream \in f.tabs THEN f ELSE h
  BY DEF streamDocOpen
<1>2. Makes(e, f) /\ ~f.diff.on /\ f.tabs = e.tabs
  BY DiscardMakes
<1> HIDE DEF f
<1>3. f \in Editor /\ t \in Tabs
  BY <1>2 DEF Makes, Tabs
<1>6. g \in Editor /\ ~g.diff.on /\ (CleanEditor(f) => CleanRest(g)) /\ t \in g.tabs
  <2>1. CASE match = NoDoc
    <3>1. /\ b \in Editor /\ (CleanEditor(f) => CleanEditor(b)) /\ b.diff = f.diff
          /\ Temp \in b.tabs
      <4>1. Temp \in Tabs /\ Blank \in Text /\ OwnText(Temp, Blank)
        BY BlankText, BlankIsOwn DEF Tabs
      <4>2. QED
        BY <1>3, <4>1, AddTabMakes
    <3>2. g = [b EXCEPT !.tempHome = session] /\ t = Temp
      BY <2>1
    <3> HIDE DEF b
    <3>3. g \in EditorType
      BY <3>1, <3>2 DEF Editor, EditorType
    <3>4. /\ g.diff = b.diff /\ g.tabs = b.tabs /\ g.sent = b.sent /\ g.kept = b.kept
      BY <3>1, <3>2 DEF Editor, EditorType
    <3> HIDE DEF g, t
    <3>5. QED
      BY <1>2, <3>1, <3>2, <3>3, <3>4 DEF Editor, CleanEditor, CleanRest
  <2>2. CASE match # NoDoc
    <3>1. g = f /\ t \in f.tabs
      BY <1>2, <2>2
    <3> HIDE DEF g, t
    <3>2. QED
      BY <1>2, <1>3, <3>1 DEF CleanEditor, CleanRest
  <2>3. QED
    BY <2>1, <2>2
<1> HIDE DEF g, t
<1>7. a \in EditorType
  BY <1>3, <1>6 DEF Editor, EditorType
<1>8. a.tabs = g.tabs /\ a.sent = g.sent /\ a.kept = g.kept /\ a.diff = g.diff /\ a.active = t
  BY <1>6 DEF Editor, EditorType
<1> HIDE DEF a
<1>9. a \in Editor
  BY <1>6, <1>7, <1>8 DEF Editor
<1>10. /\ o \in Editor /\ o.tabs = a.tabs /\ o.sent = a.sent /\ o.kept = a.kept /\ o.diff = a.diff
       /\ o.active = a.active
  BY <1>6, <1>8, <1>9, OpenPanelMakes DEF Makes
<1> HIDE DEF o
<1>11. h \in EditorType
  BY <1>10, BlankText DEF Editor, EditorType
<1>12. /\ h.tabs = o.tabs /\ h.sent = o.sent /\ h.kept = o.kept /\ h.diff = o.diff
       /\ h.active = o.active /\ h.shown = Blank
  BY <1>10 DEF Editor, EditorType
<1> HIDE DEF h
<1>13. h \in Editor
  BY <1>10, <1>11, <1>12 DEF Editor
<1>14. CleanRest(g) => CleanEditor(h)
  BY <1>6, <1>8, <1>10, <1>12, BlankIsOwn DEF CleanRest, CleanEditor
<1>15. QED
  BY <1>1, <1>2, <1>6, <1>13, <1>14 DEF Makes

\* streamDocFinalize(): the review is left and the streaming tab becomes the document.
LEMMA MigrateFacts ==
    ASSUME NEW e \in Editor, NEW d \in Docs, NEW text \in Text
    PROVE  LET f == migrateStream(e, d, text)
           IN  /\ f \in Editor /\ ~f.diff.on /\ (d \in e.tabs => d \in f.tabs)
               /\ CleanEditor(e) /\ OwnText(d, text) => CleanRest(f)
               /\ CleanEditor(e) /\ e.stream = NoDoc => CleanEditor(f)
<1> DEFINE a == [e EXCEPT !.stream = NoDoc]
           b == discardDiff(a)
           f == [b EXCEPT !.stream = NoDoc]
           g == [f EXCEPT !.tabs = (@ \ {Temp}) \cup {d}, !.kept[d] = text,
                          !.active = IF @ = Temp THEN d ELSE @]
<1>1. migrateStream(e, d, text) = IF e.stream = Temp /\ Temp \in f.tabs THEN g ELSE f
  BY DEF migrateStream
<1>2. a \in EditorType
  BY DEF Editor, EditorType
<1>3. /\ a.active = e.active /\ a.pane = e.pane /\ a.shown = e.shown /\ a.diff = e.diff
      /\ a.tabs = e.tabs /\ a.sent = e.sent /\ a.kept = e.kept
  BY DEF Editor, EditorType
<1> HIDE DEF a
<1>4. Makes(e, a)
  BY <1>2, <1>3 DEF Makes, Editor, CleanEditor, HasText
<1>5. Makes(a, b) /\ ~b.diff.on /\ b.tabs = a.tabs
  BY <1>4, DiscardMakes DEF Makes
<1> HIDE DEF b
<1>6. b \in Editor
  BY <1>5 DEF Makes
<1>7. f \in EditorType
  BY <1>6 DEF Editor, EditorType
<1>8. /\ f.active = b.active /\ f.pane = b.pane /\ f.shown = b.shown /\ f.diff = b.diff
      /\ f.tabs = b.tabs /\ f.sent = b.sent /\ f.kept = b.kept
  BY <1>6 DEF Editor, EditorType
<1> HIDE DEF f
<1>9. Makes(b, f)
  BY <1>6, <1>7, <1>8 DEF Makes, Editor, CleanEditor, HasText
<1>10. Makes(e, f) /\ ~f.diff.on /\ f.tabs = e.tabs
  BY <1>3, <1>4, <1>5, <1>8, <1>9, MakesTransitive
<1>11. CASE ~(e.stream = Temp /\ Temp \in f.tabs)
  BY <1>1, <1>10, <1>11 DEF Makes, CleanEditor, CleanRest
<1>12. CASE e.stream = Temp /\ Temp \in f.tabs
  <2>1. f \in Editor /\ d \in Tabs /\ Temp # NoDoc
    BY <1>10 DEF Makes, Tabs
  <2>2. g \in EditorType
    BY <2>1 DEF Editor, EditorType
  <2>3. /\ g.diff = f.diff /\ g.sent = f.sent /\ g.tabs = (f.tabs \ {Temp}) \cup {d}
        /\ g.kept = [f.kept EXCEPT ![d] = text] /\ f.kept \in [Tabs -> Text] /\ f.tabs \subseteq Tabs
    BY <2>1 DEF Editor, EditorType
  <2> HIDE DEF g
  <2>4. CleanEditor(e) /\ OwnText(d, text) => CleanRest(g)
    BY <1>10, <2>1, <2>3 DEF Makes, CleanEditor, CleanRest
  <2>5. QED
    BY <1>1, <1>10, <1>12, <2>1, <2>2, <2>3, <2>4 DEF Editor
<1>13. QED
  BY <1>11, <1>12

\* handleDocUpdate() shows the text of the tab it goes to: as it is, after an animation,
\* or as a review of what the screen held of the same document.
LEMMA UpdateMakes ==
    ASSUME NEW e \in Editor, NEW r \in Request, NEW d \in Tabs, NEW review \in BOOLEAN,
           ~e.diff.on
    PROVE  LET h == handleDocUpdate(e, r, d, review)
           IN  /\ h \in Editor /\ h.active = d
               /\ CleanRest(e) /\ OwnText(d, r.text) /\ (ed.stream = NoDoc => CleanEditor(e))
                     => CleanEditor(h)
<1> DEFINE old == IF d = e.active /\ HasText(e) THEN e.shown ELSE Blank
           isEdit == d \in e.tabs /\ old # Blank /\ old # r.text /\ ed.stream = NoDoc
           a == addDocToTabs(e, d, r.text)
           o == openPanel(a)
           f == [o EXCEPT !.active = d]
           x == [on |-> TRUE, text |-> r.text]
           h == handleDocUpdate(e, r, d, review)
<1>1. r.text \in Text /\ old \in Text /\ d # NoDoc
  BY BlankText DEF Request, Editor, EditorType, Tabs
<1>2. /\ a \in Editor /\ a.pane = e.pane /\ a.shown = e.shown /\ a.diff = e.diff /\ d \in a.tabs
      /\ a.active = e.active /\ a.sent = e.sent
      /\ a.tabs = e.tabs \cup {d} /\ \A t \in Tabs : a.kept[t] = IF t = d THEN r.text ELSE e.kept[t]
  BY <1>1, AddTabMakes
<1>3. CleanRest(e) /\ OwnText(d, r.text) => CleanRest(a)
  <2>1. e.tabs \subseteq Tabs
    BY DEF Editor, EditorType
  <2>2. QED
    BY <1>2, <2>1 DEF CleanRest
<1> HIDE DEF a
<1>4. /\ o \in Editor /\ o.shown = (IF e.pane = "open" THEN e.shown ELSE Blank) /\ o.pane = "open"
      /\ o.diff = e.diff /\ o.tabs = a.tabs /\ o.sent = a.sent /\ o.kept = a.kept
  BY <1>2, OpenPanelMakes DEF Makes
<1> HIDE DEF o
<1>5. f \in EditorType
  BY <1>4 DEF Editor, EditorType
<1>6. /\ f.active = d /\ f.pane = "open" /\ f.shown = o.shown /\ f.diff = o.diff
      /\ f.tabs = o.tabs /\ f.sent = o.sent /\ f.kept = o.kept
  BY <1>4 DEF Editor, EditorType
<1>7. /\ [f EXCEPT !.shown = r.text] = [o EXCEPT !.active = d, !.shown = r.text]
  BY <1>4 DEF Editor, EditorType
<1>8. h = IF isEdit /\ review THEN enterDiffMode(f, old, r.text)
          ELSE IF isEdit THEN IF e.pane = "open" THEN [f EXCEPT !.anim = x] ELSE f
          ELSE IF e.pane = "open" THEN [f EXCEPT !.shown = r.text] ELSE f
  BY DEF handleDocUpdate, a, o
<1> HIDE DEF f, h, old
<1>9. f \in Editor
  BY <1>4, <1>5, <1>6 DEF Editor
<1>10. CleanRest(e) /\ OwnText(d, r.text) /\ OwnText(d, f.shown) => CleanEditor(f)
  BY <1>3, <1>4, <1>6 DEF CleanRest, CleanEditor
<1>11. CASE ~isEdit /\ e.pane = "open"
  <2>1. h = [o EXCEPT !.active = d, !.shown = r.text]
    BY <1>7, <1>8, <1>11
  <2>2. CleanRest(e) /\ OwnText(d, r.text) => CleanRest(o)
    BY <1>3, <1>4 DEF CleanRest
  <2> DEFINE c == [o EXCEPT !.active = d, !.shown = r.text]
  <2>3. /\ c \in Editor /\ c.active = d
        /\ CleanRest(o) /\ ~o.diff.on /\ OwnText(d, r.text) => CleanEditor(c)
    <3>1. o \in Editor /\ d \in Tabs /\ r.text \in Text
      BY <1>1, <1>4
    <3> HIDE DEF old, isEdit, x
    <3>2. QED
      BY <3>1, ActivateMakes
  <2> HIDE DEF c
  <2>4. h = c
    BY <2>1 DEF c
  <2>5. QED
    BY <1>4, <2>2, <2>3, <2>4 DEF h
<1>12. CASE ~isEdit /\ e.pane # "open"
  <2>1. h = f /\ OwnText(d, f.shown)
    BY <1>4, <1>6, <1>8, <1>12, BlankIsOwn
  <2>2. QED
    BY <1>6, <1>9, <1>10, <2>1 DEF h
<1>13. ASSUME isEdit, CleanEditor(e) PROVE OwnText(d, f.shown) /\ OwnText(d, old)
  <2>1. d = e.active /\ HasText(e) /\ old = e.shown
    BY <1>13 DEF old
  <2>2. OwnText(d, e.shown)
    BY <1>1, <1>13, <2>1 DEF CleanEditor
  <2>3. QED
    BY <1>4, <1>6, <2>1, <2>2, BlankIsOwn
<1>14. CASE isEdit /\ review
  <2>1. h = enterDiffMode(f, old, r.text)
    BY <1>8, <1>14
  <2>2. h.active = f.active
    BY <1>9, <2>1 DEF enterDiffMode, Editor, EditorType
  <2>3. /\ h \in Editor
        /\ CleanEditor(f) /\ (f.active # NoDoc => OwnText(f.active, old) /\ OwnText(f.active, r.text))
              => CleanEditor(h)
    BY <1>1, <1>9, <2>1, EnterMakes
  <2>4. QED
    BY <1>6, <1>10, <1>13, <1>14, <2>2, <2>3 DEF h
<1>15. CASE isEdit /\ ~review
  <2>1. CASE e.pane = "open"
    <3>1. h = [f EXCEPT !.anim = x]
      BY <1>8, <1>15, <2>1
    <3>2. x \in AnimType
      BY <1>1 DEF AnimType
    <3> HIDE DEF x
    <3>3. h \in EditorType
      BY <1>9, <3>1, <3>2 DEF Editor, EditorType
    <3>4. /\ h.active = f.active /\ h.pane = f.pane /\ h.shown = f.shown /\ h.diff = f.diff
          /\ h.tabs = f.tabs /\ h.sent = f.sent /\ h.kept = f.kept
      BY <1>9, <3>1 DEF Editor, EditorType
    <3>5. h \in Editor /\ (CleanEditor(f) => CleanEditor(h))
      BY <1>9, <3>3, <3>4 DEF Editor, CleanEditor, HasText
    <3>6. QED
      BY <1>6, <1>10, <1>13, <1>15, <3>4, <3>5 DEF h
  <2>2. CASE e.pane # "open"
    <3>1. h = f
      BY <1>8, <1>15, <2>2
    <3>2. QED
      BY <1>6, <1>9, <1>10, <1>13, <1>15, <3>1 DEF h
  <2>3. QED
    BY <2>1, <2>2
<1>16. QED
  BY <1>11, <1>12, <1>14, <1>15 DEF h

-----------------------------------------------------------------------------
(* The invariant, and what a step has to show.                             *)

\* What TypeOK says of everything but the panel.
RestTyped ==
    /\ session \in Sessions
    /\ loads \subseteq Sessions
    /\ autosave \in BOOLEAN
    /\ stored \in [Docs -> Text]
    /\ home \in [Docs -> Sessions \cup {NoSession}]
    /\ deleted \subseteq Docs
    /\ inputs \in 0 .. MaxInputs
    /\ typed \subseteq 1 .. inputs

DocInv == ed \in Editor /\ RestTyped

\* The step leaves the types right, and every text with its document unless it crosses.
Keeps == DocInv' /\ (Clean => Clean' \/ Crossing)

LEMMA CleanParts ==
    /\ Clean <=> CleanEditor(ed) /\ \A d \in Docs : OwnText(d, stored[d])
    /\ Clean' <=> CleanEditor(ed') /\ \A d \in Docs : OwnText(d, stored'[d])
BY DEF Clean, CleanEditor, HasText, OwnText

LEMMA StepKeeps ==
    ASSUME RestTyped', stored' = stored, ed' \in Editor,
           CleanEditor(ed) => CleanEditor(ed') \/ Crossing
    PROVE  Keeps
<1>1. DocInv'
  BY DEF DocInv
<1>2. Clean => Clean' \/ Crossing
  BY CleanParts
<1>3. QED
  BY <1>1, <1>2 DEF Keeps

\* Steps of the user and of the agent that change the panel alone.
LEMMA ActedKeeps ==
    ASSUME DocInv, Acted, ed' \in Editor, CleanEditor(ed) => CleanEditor(ed') \/ Crossing
    PROVE  Keeps
<1>1. RestTyped' /\ stored' = stored
  BY DEF DocInv, RestTyped, Acted, Input
<1>2. QED
  BY <1>1, StepKeeps

\* Timers and replies that change the panel alone.
LEMMA QuietKeeps ==
    ASSUME DocInv, Quiet, autosave' \in BOOLEAN, ed' \in Editor,
           CleanEditor(ed) => CleanEditor(ed') \/ Crossing
    PROVE  Keeps
<1>1. RestTyped' /\ stored' = stored
  BY DEF DocInv, RestTyped, Quiet
<1>2. QED
  BY <1>1, StepKeeps

LEMMA InitDocInv == Init => DocInv
<1> SUFFICES ASSUME Init PROVE DocInv
  OBVIOUS
<1>1. NoDiff \in DiffType /\ NoAnim \in AnimType /\ Blank \in Text
  BY BlankText DEF NoDiff, DiffType, NoAnim, AnimType
<1>2. ed \in EditorType /\ ed.sent = {}
  BY <1>1 DEF Init, EditorType
<1>3. ed \in Editor
  BY <1>2 DEF Editor
<1>4. stored \in [Docs -> Text]
  BY BlankText DEF Init, Tabs
<1>5. autosave \in BOOLEAN /\ home \in [Docs -> Sessions \cup {NoSession}]
  BY DEF Init
<1>6. inputs \in 0 .. MaxInputs /\ typed \subseteq 1 .. inputs
  BY DEF Init
<1>7. session \in Sessions /\ loads \subseteq Sessions /\ deleted \subseteq Docs
  BY DEF Init
<1>8. QED
  BY <1>3, <1>4, <1>5, <1>6, <1>7 DEF DocInv, RestTyped

-----------------------------------------------------------------------------
(* The user's steps.                                                       *)

LEMMA SwitchTabKeeps ==
    ASSUME DocInv, NEW d, SwitchTab(d) PROVE Keeps
<1>1. Makes(ed, ed')
  BY SwitchMakes DEF SwitchTab, Commit, DocInv
<1>2. QED
  BY <1>1, ActedKeeps DEF SwitchTab, Makes

LEMMA ClosePanelKeeps ==
    ASSUME DocInv, NEW down \in BOOLEAN, ClosePanel(down) PROVE Keeps
<1>1. Makes(ed, ed')
  BY ClosePanelMakes DEF ClosePanel, Commit, DocInv
<1>2. QED
  BY <1>1, ActedKeeps DEF ClosePanel, Makes

LEMMA SaveNowKeeps ==
    ASSUME DocInv, SaveNow PROVE Keeps
<1>1. Makes(ed, ed')
  BY SaveMakes DEF SaveNow, Commit, DocInv
<1>2. QED
  BY <1>1, ActedKeeps DEF SaveNow, Makes

LEMMA RestoreChipKeeps ==
    ASSUME DocInv, RestoreChip PROVE Keeps
<1> DEFINE o == openPanel(ed)
<1>1. Makes(ed, o)
  BY OpenPanelMakes DEF DocInv
<1>2. ed' = switchToDoc(o, ed.chip)
  BY DEF RestoreChip, Commit
<1> HIDE DEF o
<1>3. Makes(ed, ed')
  BY <1>1, <1>2, SwitchMakes, MakesTransitive DEF Makes
<1>4. QED
  BY <1>3, ActedKeeps DEF RestoreChip, Makes

\* Fields of the panel that hold no text and name no document on the screen.
LEMMA ChipMakes ==
    ASSUME NEW e \in Editor
    PROVE  Makes(e, [e EXCEPT !.chip = NoChip])
<1> DEFINE a == [e EXCEPT !.chip = NoChip]
<1>1. a \in EditorType
  BY DEF Editor, EditorType
<1>2. /\ a.active = e.active /\ a.pane = e.pane /\ a.shown = e.shown /\ a.diff = e.diff
      /\ a.tabs = e.tabs /\ a.sent = e.sent /\ a.kept = e.kept
  BY DEF Editor, EditorType
<1> HIDE DEF a
<1>3. Makes(e, a)
  BY <1>1, <1>2 DEF Makes, Editor, CleanEditor, HasText
<1>4. QED
  BY <1>3 DEF a

LEMMA TrashChipKeeps ==
    ASSUME DocInv, TrashChip PROVE Keeps
<1> DEFINE a == [ed EXCEPT !.chip = NoChip]
<1>1. Makes(ed, a) /\ a \in Editor
  BY ChipMakes DEF DocInv, Makes
<1>2. ed' = IF ed.chip \in ed.tabs THEN detachDocFromSession(a, ed.chip) ELSE a
  BY DEF TrashChip, Commit
<1>3. ed.tabs \subseteq Tabs
  BY DEF DocInv, Editor, EditorType
<1> HIDE DEF a
<1>4. Makes(ed, ed')
  BY <1>1, <1>2, <1>3, DetachMakes, MakesTransitive
<1>5. QED
  BY <1>4, ActedKeeps DEF TrashChip, Makes

\* No document is active any more.
LEMMA NoneActiveMakes ==
    ASSUME NEW e \in Editor
    PROVE  LET f == [e EXCEPT !.active = NoDoc]
           IN  Makes(e, f)
<1> DEFINE a == [e EXCEPT !.active = NoDoc]
<1>1. a \in EditorType
  BY DEF Editor, EditorType
<1>2. /\ a.active = NoDoc /\ a.pane = e.pane /\ a.shown = e.shown /\ a.diff = e.diff
      /\ a.tabs = e.tabs /\ a.sent = e.sent /\ a.kept = e.kept
  BY DEF Editor, EditorType
<1> HIDE DEF a
<1>3. Makes(e, a)
  BY <1>1, <1>2 DEF Makes, Editor, CleanEditor, HasText
<1>4. QED
  BY <1>3 DEF a

LEMMA CloseTabKeeps ==
    ASSUME DocInv, NEW d \in Tabs, CloseTab(d) PROVE Keeps
<1> DEFINE c == saveCurrentToMap(ed)
           f == detachDocFromSession(c, d)
           n == [f EXCEPT !.active = NoDoc]
<1>1. Makes(ed, c)
  BY SaveCurrentMakes DEF DocInv
<1>2. \/ ed' = closePanel(n, FALSE)
      \/ ed' = f
      \/ \E m : ed' = switchToDoc(f, m)
  BY DEF CloseTab, Commit
<1> HIDE DEF c
<1>3. c \in Editor
  BY <1>1 DEF Makes
<1>4. Makes(c, f)
  BY <1>3, DetachMakes
<1> HIDE DEF f
<1>5. f \in Editor /\ Makes(ed, f)
  BY <1>1, <1>4, MakesTransitive DEF Makes
<1>6. Makes(f, n)
  BY <1>5, NoneActiveMakes
<1> HIDE DEF n
<1>7. n \in Editor
  BY <1>6 DEF Makes
<1>8. Makes(n, closePanel(n, FALSE))
  <2> DEFINE down == FALSE
  <2>1. down \in BOOLEAN
    OBVIOUS
  <2>2. closePanel(n, FALSE) = closePanel(n, down)
    OBVIOUS
  <2> HIDE DEF down
  <2>3. QED
    BY <1>7, <2>1, <2>2, ClosePanelMakes
<1>9. Makes(ed, ed')
  <2>1. CASE ed' = closePanel(n, FALSE)
    BY <1>5, <1>6, <1>8, <2>1, MakesTransitive
  <2>2. CASE ed' = f
    BY <1>5, <2>2
  <2>3. CASE \E m : ed' = switchToDoc(f, m)
    BY <1>5, <2>3, SwitchMakes, MakesTransitive
  <2>4. QED
    BY <1>2, <2>1, <2>2, <2>3
<1>10. QED
  BY <1>9, ActedKeeps DEF CloseTab, Makes

\* The text under the cursor gets the edit and belongs to the active document, or to none.
LEMMA TypeKeeps ==
    ASSUME DocInv, Type PROVE Keeps
<1> DEFINE n == inputs + 1
           text == [src |-> IF ed.shown.src = NoDoc THEN ed.active ELSE ed.shown.src,
                    edits |-> ed.shown.edits \cup {n}]
           e == [ed EXCEPT !.shown = text]
           a == [e EXCEPT !.autoCreating = TRUE]
           s == IF ed.last = NoSession THEN session ELSE ed.last
           create == ed.active = NoDoc /\ ~ed.creating
<1>1. /\ ed.pane = "open" /\ ~ed.diff.on /\ stored' = stored
      /\ \/ create /\ ed' = Fetch(a, "auto", NoDoc, s, text, {}) /\ autosave' = autosave
         \/ ed' = e /\ autosave' = autosave
         \/ ed' = e /\ autosave' = TRUE
  BY DEF Type, Commit
<1>2. RestTyped'
  <2>1. inputs' = inputs + 1 /\ inputs < MaxInputs /\ typed' = typed \cup {n}
        /\ UNCHANGED <<session, loads, stored, home, deleted>>
    BY DEF Type, Input
  <2>2. autosave' \in BOOLEAN
    BY <1>1 DEF DocInv, RestTyped
  <2>3. inputs' \in 0 .. MaxInputs /\ typed' \subseteq 1 .. inputs'
    BY <2>1 DEF DocInv, RestTyped
  <2>4. QED
    BY <2>1, <2>2, <2>3 DEF DocInv, RestTyped
<1>3. text \in Text
  <2>1. n \in 1 .. MaxInputs
    BY DEF Type, Input, DocInv, RestTyped
  <2>2. ed.shown \in Text /\ ed.active \in Tabs \cup {NoDoc}
    BY DEF DocInv, Editor, EditorType
  <2> HIDE DEF n
  <2>3. QED
    BY <2>1, <2>2 DEF Text
<1>4. ed \in Editor /\ s \in Sessions \cup {NoSession}
  BY DEF DocInv, Editor, EditorType, RestTyped
<1>5. text.src = IF ed.shown.src = NoDoc THEN ed.active ELSE ed.shown.src
  OBVIOUS
<1> HIDE DEF text, n, s
<1>6. e \in EditorType
  BY <1>3, <1>4 DEF Editor, EditorType
<1>7. /\ e.active = ed.active /\ e.pane = ed.pane /\ e.shown = text /\ e.diff = ed.diff
      /\ e.tabs = ed.tabs /\ e.sent = ed.sent /\ e.kept = ed.kept
  BY <1>4 DEF Editor, EditorType
<1> HIDE DEF e
<1>8. Makes(ed, e)
  <2>1. CleanEditor(ed) => CleanEditor(e)
    BY <1>1, <1>5, <1>7 DEF CleanEditor, HasText, OwnText
  <2>2. QED
    BY <1>4, <1>6, <1>7, <2>1 DEF Makes, Editor
<1>9. a \in EditorType
  BY <1>6 DEF EditorType
<1>10. /\ a.active = e.active /\ a.pane = e.pane /\ a.shown = e.shown /\ a.diff = e.diff
       /\ a.tabs = e.tabs /\ a.sent = e.sent /\ a.kept = e.kept
  BY <1>6 DEF EditorType
<1> HIDE DEF a
<1>11. Makes(e, a)
  BY <1>8, <1>9, <1>10 DEF Makes, Editor, CleanEditor, HasText
<1>12. CASE ed' = e
  BY <1>1, <1>2, <1>8, <1>12, StepKeeps DEF Makes
<1>13. CASE create /\ ed' = Fetch(a, "auto", NoDoc, s, text, {})
  <2>1. CASE ed.shown.src # NoDoc
    <3>1. Crossing
      BY <1>13, <2>1 DEF Crossing
    <3>2. ed' \in Editor
      <4> DEFINE r == [kind |-> "auto", doc |-> NoDoc, session |-> s, text |-> text,
                       notes |-> {}, served |-> FALSE]
      <4>1. r \in Request /\ Shaped(r)
        BY <1>3, <1>4 DEF Request, Kinds, Shaped
      <4>2. ed' = [a EXCEPT !.sent = @ \cup {r}]
        BY <1>13 DEF Fetch
      <4> HIDE DEF r
      <4>3. ed' \in EditorType /\ ed'.sent = a.sent \cup {r}
        BY <1>9, <4>1, <4>2 DEF EditorType
      <4>4. QED
        BY <1>4, <1>7, <1>10, <4>1, <4>3 DEF Editor
    <3>3. QED
      BY <1>1, <1>2, <3>1, <3>2, StepKeeps
  <2>2. CASE ed.shown.src = NoDoc
    <3>1. OwnText(NoDoc, text)
      BY <1>5, <1>13, <2>2 DEF OwnText
    <3> DEFINE r == [kind |-> "auto", doc |-> NoDoc, session |-> s, text |-> text,
                     notes |-> {}, served |-> FALSE]
    <3>2. Shaped(r)
      BY DEF Shaped
    <3>3. "auto" \in Kinds /\ a \in Editor
      BY <1>11 DEF Kinds, Makes
    <3>4. Makes(a, Fetch(a, "auto", NoDoc, s, text, {}))
      BY <1>3, <1>4, <3>1, <3>2, <3>3, FetchMakes
    <3>5. Makes(ed, ed')
      BY <1>8, <1>11, <1>13, <3>4, MakesTransitive
    <3>6. QED
      BY <1>1, <1>2, <3>5, StepKeeps DEF Makes
  <2>3. QED
    BY <2>1, <2>2
<1>14. QED
  BY <1>1, <1>12, <1>13

LEMMA FinishCloseKeeps ==
    ASSUME DocInv, FinishClose PROVE Keeps
<1> DEFINE a == [ed EXCEPT !.pane = "none", !.active = NoDoc, !.shown = Blank, !.anim = NoAnim]
<1>1. NoAnim \in AnimType /\ Blank \in Text
  BY BlankText DEF NoAnim, AnimType
<1>2. a \in EditorType
  BY <1>1 DEF DocInv, Editor, EditorType
<1>3. /\ a.active = NoDoc /\ a.diff = ed.diff
      /\ a.tabs = ed.tabs /\ a.sent = ed.sent /\ a.kept = ed.kept
  BY DEF DocInv, Editor, EditorType
<1>4. ed' = a
  BY DEF FinishClose, Commit
<1> HIDE DEF a
<1>5. a \in Editor /\ (CleanEditor(ed) => CleanEditor(a))
  BY <1>2, <1>3 DEF DocInv, Editor, CleanEditor
<1>6. autosave' \in BOOLEAN
  BY DEF FinishClose, DocInv, RestTyped
<1>7. QED
  BY <1>4, <1>5, <1>6, QuietKeeps DEF FinishClose

\* A request without a text of its own.
LEMMA AskMakes ==
    ASSUME NEW e \in Editor, NEW kind \in Kinds, NEW d \in Tabs \cup {NoDoc},
           NEW s \in Sessions \cup {NoSession}, NEW notes \in SUBSET {"restore", "open", "empty"},
           IF kind \in {"create", "auto", "load"} THEN d = NoDoc ELSE d \in Docs, kind # "update"
    PROVE  Makes(e, Fetch(e, kind, d, s, Blank, notes))
<1> DEFINE r == [kind |-> kind, doc |-> d, session |-> s, text |-> Blank,
                 notes |-> notes, served |-> FALSE]
<1>1. Shaped(r)
  BY DEF Shaped, Kinds, Tabs
<1>2. QED
  BY <1>1, FetchMakes, BlankText, BlankIsOwn

LEMMA OpenDocumentKeeps ==
    ASSUME DocInv, NEW d \in Docs, OpenDocument(d) PROVE Keeps
<1> DEFINE o == openPanel(ed)
<1>1. Makes(ed, o)
  BY OpenPanelMakes DEF DocInv
<1>2. ed' = IF d \in ed.tabs THEN switchToDoc(o, d) ELSE Fetch(ed, "open", d, NoSession, Blank, {})
  BY DEF OpenDocument, Commit
<1> HIDE DEF o
<1>3. Makes(ed, switchToDoc(o, d))
  BY <1>1, SwitchMakes, MakesTransitive DEF Makes
<1>4. Makes(ed, Fetch(ed, "open", d, NoSession, Blank, {}))
  <2>1. "open" \in Kinds /\ d \in Tabs
    BY DEF Kinds, Tabs
  <2>2. QED
    BY <2>1, AskMakes DEF DocInv
<1>5. Makes(ed, ed')
  BY <1>2, <1>3, <1>4
<1>6. QED
  BY <1>5, ActedKeeps DEF OpenDocument, Makes

LEMMA NewDocumentKeeps ==
    ASSUME DocInv, NewDocument PROVE Keeps
<1> DEFINE a == [ed EXCEPT !.creating = TRUE]
           s == IF ed.active \in ed.tabs /\ HomeOf(ed, ed.active) # NoSession
                THEN HomeOf(ed, ed.active) ELSE IF ed.last # NoSession THEN ed.last ELSE session
           notes == IF ed.active = NoDoc THEN {"empty"} ELSE {}
<1>1. ed' = Fetch(a, "create", NoDoc, s, Blank, notes)
  BY DEF NewDocument, Commit
<1>2. a \in EditorType
  BY DEF DocInv, Editor, EditorType
<1>3. /\ a.active = ed.active /\ a.pane = ed.pane /\ a.shown = ed.shown /\ a.diff = ed.diff
      /\ a.tabs = ed.tabs /\ a.sent = ed.sent /\ a.kept = ed.kept
  BY DEF DocInv, Editor, EditorType
<1>4. s \in Sessions \cup {NoSession}
  BY DEF DocInv, RestTyped, Editor, EditorType, HomeOf, Tabs
<1>5. notes \in SUBSET {"restore", "open", "empty"}
  OBVIOUS
<1> HIDE DEF a, s, notes
<1>6. Makes(ed, a)
  BY <1>2, <1>3 DEF Makes, DocInv, Editor, CleanEditor, HasText
<1>7. a \in Editor /\ "create" \in Kinds
  BY <1>6 DEF Makes, Kinds
<1>8. Makes(a, ed')
  BY <1>1, <1>4, <1>5, <1>7, AskMakes
<1>9. QED
  BY <1>6, <1>8, ActedKeeps, MakesTransitive DEF NewDocument, Makes

LEMMA DeleteActiveKeeps ==
    ASSUME DocInv, DeleteActive PROVE Keeps
<1> DEFINE notes == {"open"}
<1>1. ed' = Fetch(ed, "delete", ed.active, NoSession, Blank, notes) /\ ed.active \in Docs
  BY DEF DeleteActive, Commit
<1>2. "delete" \in Kinds /\ ed.active \in Tabs /\ notes \in SUBSET {"restore", "open", "empty"}
  BY <1>1 DEF Kinds, Tabs
<1> HIDE DEF notes
<1>3. Makes(ed, ed')
  BY <1>1, <1>2, AskMakes DEF DocInv
<1>4. QED
  BY <1>3, ActedKeeps DEF DeleteActive, Makes

LEMMA RestoreVersionKeeps ==
    ASSUME DocInv, RestoreVersion PROVE Keeps
<1>1. ed' = Fetch(ed, "restore", ed.active, NoSession, Blank, {}) /\ ed.active \in Docs
  BY DEF RestoreVersion, Commit
<1>2. "restore" \in Kinds /\ ed.active \in Tabs
  BY <1>1 DEF Kinds, Tabs
<1>3. Makes(ed, ed')
  BY <1>1, <1>2, AskMakes DEF DocInv
<1>4. QED
  BY <1>3, ActedKeeps DEF RestoreVersion, Makes

\* The toggle asks for the versions with the text that the screen shows of the document.
LEMMA ToggleDiffKeeps ==
    ASSUME DocInv, ToggleDiff PROVE Keeps
<1>1. CASE ed.diff.on /\ ed' = discardDiff(ed)
  <2>1. Makes(ed, ed')
    BY <1>1, DiscardMakes DEF DocInv
  <2>2. QED
    BY <2>1, ActedKeeps DEF ToggleDiff, Makes
<1>2. CASE ed.active \in Docs /\ ed' = Fetch(ed, "versions", ed.active, NoSession, ed.shown, {})
  <2> DEFINE r == [kind |-> "versions", doc |-> ed.active, session |-> NoSession,
                   text |-> ed.shown, notes |-> {}, served |-> FALSE]
  <2>1. Shaped(r)
    BY <1>2 DEF Shaped
  <2>2. "versions" \in Kinds /\ ed.active \in Tabs /\ ed.active # NoDoc
    BY <1>2 DEF Kinds, Tabs
  <2>3. ed.shown \in Text /\ ed \in Editor
    BY DEF DocInv, Editor, EditorType
  <2>4. CleanEditor(ed) => OwnText(ed.active, ed.shown)
    <3>1. ed.pane = "open"
      BY DEF ToggleDiff
    <3>2. QED
      BY <2>2, <3>1 DEF CleanEditor, HasText
  <2>5. Makes(ed, ed')
    BY <1>2, <2>1, <2>2, <2>3, <2>4, FetchMakes
  <2>6. QED
    BY <2>5, ActedKeeps DEF ToggleDiff, Makes
<1>3. QED
  BY <1>1, <1>2 DEF ToggleDiff, Commit

LEMMA ResolveChunkKeeps ==
    ASSUME DocInv, NEW kept \in {"accepted", "rejected"}, ResolveChunk(kept) PROVE Keeps
<1> DEFINE text == IF kept = "accepted" THEN ed.diff.new ELSE ed.diff.old
           x == [ed.diff EXCEPT !.kept = kept]
           a == [ed EXCEPT !.diff.kept = kept, !.shown = text, !.ending = @ + 1]
<1>1. ed' = saveDocument(a) /\ ed.diff.on
  BY DEF ResolveChunk, Commit
<1>2. x \in DiffType /\ text \in Text
  BY DEF DocInv, Editor, EditorType, DiffType
<1>3. x.on = ed.diff.on /\ x.old = ed.diff.old /\ x.new = ed.diff.new
  BY DEF DocInv, Editor, EditorType, DiffType
<1>4. a = [ed EXCEPT !.diff = x, !.shown = text, !.ending = @ + 1]
  BY DEF DocInv, Editor, EditorType
<1>5. text = ed.diff.new \/ text = ed.diff.old
  OBVIOUS
<1> HIDE DEF x, text, a
<1>12. ed.ending \in Nat
  BY DEF DocInv, Editor, EditorType
<1>13. ed.ending + 1 \in Nat
  BY <1>12
<1>6. a \in EditorType
  BY <1>2, <1>4, <1>13 DEF DocInv, Editor, EditorType
<1>7. /\ a.active = ed.active /\ a.pane = ed.pane /\ a.shown = text /\ a.diff = x
      /\ a.tabs = ed.tabs /\ a.sent = ed.sent /\ a.kept = ed.kept
  BY <1>4 DEF DocInv, Editor, EditorType
<1>8. a \in Editor
  BY <1>6, <1>7 DEF DocInv, Editor
<1>9. CleanEditor(ed) => CleanEditor(a)
  BY <1>1, <1>3, <1>5, <1>7 DEF CleanEditor, HasText
<1>10. Makes(ed, ed')
  BY <1>1, <1>8, <1>9, SaveMakes, MakesTransitive DEF Makes
<1>11. QED
  BY <1>10, ActedKeeps DEF ResolveChunk, Makes

LEMMA FinishDiffKeeps ==
    ASSUME DocInv, FinishDiff PROVE Keeps
<1> DEFINE text == IF ed.diff.kept = "accepted" THEN ed.diff.new ELSE ed.diff.old
           a == [ed EXCEPT !.ending = @ - 1]
<1>1. ed' = exitDiffMode(a, text) /\ ed.ending > 0 /\ autosave' \in BOOLEAN
  BY DEF FinishDiff, Commit, DocInv, RestTyped
<1>2. text \in Text /\ ed \in Editor
  BY DEF DocInv, Editor, EditorType, DiffType
<1>3. CleanEditor(ed) /\ ed.diff.on /\ ed.active # NoDoc => OwnText(ed.active, text)
  BY DEF CleanEditor
<1> HIDE DEF text, a
<1>4. a \in EditorType
  BY <1>1, <1>2 DEF a, Editor, EditorType
<1>5. /\ a.active = ed.active /\ a.pane = ed.pane /\ a.shown = ed.shown /\ a.diff = ed.diff
      /\ a.tabs = ed.tabs /\ a.sent = ed.sent /\ a.kept = ed.kept
  BY <1>2 DEF a, Editor, EditorType
<1>6. Makes(ed, a)
  BY <1>2, <1>4, <1>5 DEF Makes, Editor, CleanEditor, HasText
<1>7. CASE ~ed.diff.on
  <2>1. ed' = a
    BY <1>1, <1>5, <1>7 DEF exitDiffMode
  <2>2. QED
    BY <1>1, <1>6, <2>1, QuietKeeps DEF FinishDiff, Makes
<1>8. CASE ed.diff.on
  <2>1. CleanEditor(a) => CleanEditor(ed)
    BY <1>5 DEF CleanEditor, HasText
  <2>2. CleanEditor(a) /\ a.active # NoDoc => OwnText(a.active, text)
    BY <1>3, <1>5, <1>8, <2>1
  <2>3. Makes(a, ed')
    BY <1>1, <1>2, <1>6, <2>2, ExitMakes DEF Makes
  <2>4. QED
    BY <1>1, <1>6, <2>3, MakesTransitive, QuietKeeps DEF FinishDiff, Makes
<1>9. QED
  BY <1>7, <1>8

\* closePanel(false): the literal is named for the prover.
LEMMA CloseAwayMakes ==
    ASSUME NEW e \in Editor PROVE Makes(e, closePanel(e, FALSE))
<1> DEFINE down == FALSE
<1>1. down \in BOOLEAN /\ closePanel(e, FALSE) = closePanel(e, down)
  OBVIOUS
<1> HIDE DEF down
<1>2. QED
  BY <1>1, ClosePanelMakes

LEMMA SelectSessionKeeps ==
    ASSUME DocInv, NEW s \in Sessions, SelectSession(s) PROVE Keeps
<1>1. Makes(ed, ed')
  <2>1. Makes(ed, ed) /\ Makes(ed, closePanel(ed, FALSE))
    BY CloseAwayMakes DEF DocInv, Makes
  <2>2. QED
    BY <2>1 DEF SelectSession, Commit
<1>2. RestTyped' /\ stored' = stored
  <2>1. session' \in Sessions /\ loads' \subseteq Sessions
    BY DEF SelectSession, DocInv, RestTyped
  <2>2. inputs' \in 0 .. MaxInputs /\ typed' \subseteq 1 .. inputs'
    BY DEF SelectSession, Input, DocInv, RestTyped
  <2>3. UNCHANGED <<autosave, stored, home, deleted>>
    BY DEF SelectSession
  <2>4. QED
    BY <2>1, <2>2, <2>3 DEF DocInv, RestTyped
<1>3. QED
  BY <1>1, <1>2, StepKeeps DEF Makes

LEMMA LoadTimerKeeps ==
    ASSUME DocInv, NEW s \in Sessions, LoadTimer(s) PROVE Keeps
<1> DEFINE notes == {"restore"}
<1>1. ed' = loadSessionDocs(ed, s, notes)
  BY DEF LoadTimer, Commit
<1>2. notes \in SUBSET {"restore"}
  OBVIOUS
<1> HIDE DEF notes
<1>3. Makes(ed, ed')
  BY <1>1, <1>2, LoadMakes DEF DocInv
<1>4. RestTyped' /\ stored' = stored
  BY DEF LoadTimer, DocInv, RestTyped
<1>5. QED
  BY <1>3, <1>4, StepKeeps DEF Makes

LEMMA ToggleButtonKeeps ==
    ASSUME DocInv, ToggleButton PROVE Keeps
<1> DEFINE notes == {}
<1>1. ed' = IF ed.pane = "open" THEN closePanel(ed, FALSE) ELSE loadSessionDocs(ed, session, notes)
  BY DEF ToggleButton, Commit
<1>2. notes \in SUBSET {"restore"} /\ session \in Sessions
  BY DEF DocInv, RestTyped
<1> HIDE DEF notes
<1>3. Makes(ed, ed')
  BY <1>1, <1>2, LoadMakes, CloseAwayMakes DEF DocInv
<1>4. QED
  BY <1>3, ActedKeeps DEF ToggleButton, Makes

-----------------------------------------------------------------------------
(* Timers and frames.                                                      *)

LEMMA AutosaveTimerKeeps ==
    ASSUME DocInv, AutosaveTimer PROVE Keeps
<1>1. Makes(ed, ed') /\ autosave' \in BOOLEAN
  BY SaveMakes DEF AutosaveTimer, Commit, DocInv
<1>2. QED
  BY <1>1, QuietKeeps DEF AutosaveTimer, Makes

LEMMA AnimationEndsKeeps ==
    ASSUME DocInv, AnimationEnds PROVE Keeps
<1> DEFINE a == [ed EXCEPT !.anim = NoAnim, !.shown = ed.anim.text]
<1>1. NoAnim \in AnimType /\ ed.anim.text \in Text
  BY BlankText DEF NoAnim, AnimType, DocInv, Editor, EditorType
<1>2. a \in EditorType
  BY <1>1 DEF DocInv, Editor, EditorType
<1>3. /\ a.active = ed.active /\ a.pane = ed.pane /\ a.shown = ed.anim.text /\ a.diff = ed.diff
      /\ a.tabs = ed.tabs /\ a.sent = ed.sent /\ a.kept = ed.kept
  BY DEF DocInv, Editor, EditorType
<1>4. ed' = a /\ autosave' \in BOOLEAN
  BY DEF AnimationEnds, Commit, DocInv, RestTyped
<1> HIDE DEF a
<1>5. a \in Editor
  BY <1>2, <1>3 DEF DocInv, Editor
<1>6. CleanEditor(ed) => CleanEditor(a) \/ Crossing
  <2>1. CASE ed.active # ed.anim.text.src
    BY <2>1 DEF Crossing
  <2>2. CASE ed.active = ed.anim.text.src
    BY <1>3, <2>2 DEF CleanEditor, HasText, OwnText
  <2>3. QED
    BY <2>1, <2>2
<1>7. QED
  BY <1>4, <1>5, <1>6, QuietKeeps DEF AnimationEnds

-----------------------------------------------------------------------------
(* The agent's steps.                                                      *)

LEMMA StreamOpenKeeps ==
    ASSUME DocInv, StreamOpen PROVE Keeps
<1>1. PICK match \in SessionTabs(ed) \cup {NoDoc} : ed' = streamDocOpen(ed, match)
  BY DEF StreamOpen, Commit
<1>2. match \in Tabs \cup {NoDoc} /\ (match # NoDoc => match \in ed.tabs) /\ session \in Sessions
  BY DEF SessionTabs, DocInv, Editor, EditorType, RestTyped
<1>3. Makes(ed, ed')
  BY <1>1, <1>2, StreamOpenMakes DEF DocInv
<1>4. QED
  BY <1>3, ActedKeeps DEF StreamOpen, Makes

LEMMA StreamDeltaKeeps ==
    ASSUME DocInv, StreamDelta PROVE Keeps
<1> DEFINE d == ed.stream
           text == Original(d)
           kept == [ed.kept EXCEPT ![d] = IF d \in ed.tabs THEN text ELSE @]
           a == [ed EXCEPT !.kept = kept,
                           !.shown = IF d = ed.active /\ HasText(ed) THEN text ELSE @]
<1>1. d \in Tabs /\ text \in Text /\ OwnText(d, text)
  BY BlankText, BlankIsOwn DEF StreamDelta, DocInv, Editor, EditorType
<1>2. ed' = a
  BY DEF StreamDelta, Commit, DocInv, Editor, EditorType
<1>3. kept \in [Tabs -> Text]
      /\ \A t \in Tabs : kept[t] = IF t = d /\ d \in ed.tabs THEN text ELSE ed.kept[t]
  <2> HIDE DEF d, text
  <2>1. QED
    BY <1>1 DEF DocInv, Editor, EditorType
<1> HIDE DEF text, kept, d
<1>4. a \in EditorType
  BY <1>1, <1>3 DEF DocInv, Editor, EditorType
<1>5. /\ a.active = ed.active /\ a.pane = ed.pane /\ a.diff = ed.diff
      /\ a.shown = (IF d = ed.active /\ HasText(ed) THEN text ELSE ed.shown)
      /\ a.tabs = ed.tabs /\ a.sent = ed.sent /\ a.kept = kept /\ ed.tabs \subseteq Tabs
  BY <1>3 DEF DocInv, Editor, EditorType
<1> HIDE DEF a
<1>6. a \in Editor
  BY <1>4, <1>5 DEF DocInv, Editor
<1>7. CleanEditor(ed) => CleanEditor(a)
  BY <1>1, <1>3, <1>5 DEF CleanEditor, HasText
<1>8. QED
  BY <1>2, <1>6, <1>7, ActedKeeps DEF StreamDelta

LEMMA AgentWritesKeeps ==
    ASSUME DocInv, NEW d \in Docs, AgentWrites(d) PROVE Keeps
<1> DEFINE n == inputs + 1
           text == [src |-> d, edits |-> stored[d].edits \cup {n}]
           event == [kind |-> "update", doc |-> d, session |-> session, text |-> text,
                     notes |-> {}, served |-> TRUE]
           a == [ed EXCEPT !.sent = @ \cup {event}]
<1>1. /\ stored' = [stored EXCEPT ![d] = text] /\ home' = [home EXCEPT ![d] = session]
      /\ ed' = a /\ n \in 1 .. MaxInputs
  BY DEF AgentWrites, Input, Commit, DocInv, RestTyped
<1>2. RestTyped'
  <2>1. stored[d] \in Text /\ d \in Tabs
    BY DEF DocInv, RestTyped, Tabs
  <2> HIDE DEF n
  <2>2. text \in Text
    BY <1>1, <2>1 DEF Text
  <2>3. stored' \in [Docs -> Text]
    BY <1>1, <2>2 DEF DocInv, RestTyped
  <2>4. home' \in [Docs -> Sessions \cup {NoSession}]
    BY <1>1 DEF DocInv, RestTyped
  <2>5. UNCHANGED <<session, loads, autosave, deleted, typed>> /\ inputs' = inputs + 1
        /\ inputs < MaxInputs
    BY DEF AgentWrites, Input
  <2>6. inputs' \in 0 .. MaxInputs /\ typed' \subseteq 1 .. inputs'
    BY <2>5 DEF DocInv, RestTyped
  <2>7. QED
    BY <2>3, <2>4, <2>5, <2>6 DEF DocInv, RestTyped
<1>3. text \in Text /\ OwnText(d, text) /\ text.src = d
  <2>1. stored[d] \in Text /\ d \in Tabs
    BY DEF DocInv, RestTyped, Tabs
  <2> HIDE DEF n
  <2>2. QED
    BY <1>1, <2>1 DEF Text, OwnText
<1> HIDE DEF n, text
<1>4. event \in Request /\ Shaped(event) /\ event.doc = d /\ event.text = text
  BY <1>3 DEF Request, Kinds, Shaped, DocInv, RestTyped, Tabs
<1> HIDE DEF event
<1>5. a \in EditorType
  BY <1>4 DEF DocInv, Editor, EditorType
<1>6. /\ a.active = ed.active /\ a.pane = ed.pane /\ a.shown = ed.shown /\ a.diff = ed.diff
      /\ a.tabs = ed.tabs /\ a.sent = ed.sent \cup {event} /\ a.kept = ed.kept
  BY DEF DocInv, Editor, EditorType
<1> HIDE DEF a
<1>7. a \in Editor
  BY <1>4, <1>5, <1>6 DEF DocInv, Editor
<1>8. CleanEditor(ed) => CleanEditor(a)
  BY <1>3, <1>4, <1>6 DEF CleanEditor, HasText
<1>9. Clean => Clean'
  <2>1. ASSUME NEW c \in Docs, OwnText(c, stored[c]) PROVE OwnText(c, stored'[c])
    BY <1>1, <1>3, <2>1 DEF DocInv, RestTyped
  <2>2. QED
    BY <1>1, <1>8, <2>1, CleanParts
<1>10. QED
  BY <1>1, <1>2, <1>7, <1>9 DEF Keeps, DocInv

-----------------------------------------------------------------------------
(* Requests, answers and events.                                           *)

LEMMA GotMakes ==
    ASSUME DocInv, NEW r \in ed.sent
    PROVE  LET f == Got(r)
           IN  /\ Makes(ed, f)
               /\ f.active = ed.active /\ f.pane = ed.pane /\ f.shown = ed.shown
               /\ f.diff = ed.diff /\ f.tabs = ed.tabs /\ f.kept = ed.kept
               /\ f.stream = ed.stream /\ f.sent = ed.sent \ {r}
               /\ r \in Request /\ Shaped(r) /\ (CleanEditor(ed) => OwnText(r.doc, r.text))
<1> DEFINE f == Got(r)
<1>1. f \in EditorType
  BY DEF DocInv, Editor, EditorType, Got
<1>2. /\ f.active = ed.active /\ f.pane = ed.pane /\ f.shown = ed.shown
      /\ f.diff = ed.diff /\ f.tabs = ed.tabs /\ f.kept = ed.kept
      /\ f.stream = ed.stream /\ f.sent = ed.sent \ {r}
  BY DEF DocInv, Editor, EditorType, Got
<1>3. r \in Request /\ Shaped(r)
  BY DEF DocInv, Editor, EditorType
<1> HIDE DEF f
<1>4. Makes(ed, f) /\ (CleanEditor(ed) => OwnText(r.doc, r.text))
  BY <1>1, <1>2 DEF Makes, DocInv, Editor, CleanEditor, HasText
<1>5. QED
  BY <1>2, <1>3, <1>4 DEF f

\* The update of another session's document is ignored; the others show it, in the tab
\* of the document unless another one takes it.
LEMMA UpdateArrivesKeeps ==
    ASSUME DocInv, NEW r \in ed.sent, UpdateArrives(r) PROVE Keeps
<1> DEFINE e == Got(r)
           f == migrateStream(e, r.doc, r.text)
<1>1. /\ autosave' \in BOOLEAN /\ Quiet /\ r.kind = "update"
      /\ \/ ed' = e
         \/ /\ r.session = session
            /\ \E d \in UpdateTargets(f, r.doc), review \in BOOLEAN :
                  ed' = handleDocUpdate(f, r, d, review)
  BY DEF UpdateArrives, Commit, Got, DocInv, RestTyped
<1>2. /\ Makes(ed, e) /\ e.stream = ed.stream /\ r \in Request /\ Shaped(r)
      /\ (CleanEditor(ed) => OwnText(r.doc, r.text))
  BY GotMakes
<1> HIDE DEF e
<1>3. CASE ed' = e
  BY <1>1, <1>2, <1>3, QuietKeeps DEF Makes
<1>4. ASSUME r.session = session, NEW d \in UpdateTargets(f, r.doc), NEW review \in BOOLEAN,
             ed' = handleDocUpdate(f, r, d, review)
      PROVE  Keeps
  <2>1. e \in Editor /\ r.doc \in Docs /\ r.text \in Text
    BY <1>1, <1>2 DEF Makes, Shaped, Request
  <2>2. /\ f \in Editor /\ ~f.diff.on
        /\ CleanEditor(e) /\ OwnText(r.doc, r.text) => CleanRest(f)
        /\ CleanEditor(e) /\ e.stream = NoDoc => CleanEditor(f)
    BY <2>1, MigrateFacts
  <2> HIDE DEF f
  <2>3. d \in Tabs
    BY <2>1, <2>2, <1>4 DEF UpdateTargets, SessionTabs, Editor, EditorType, Tabs
  <2>4. /\ ed' \in Editor /\ ed'.active = d
        /\ CleanRest(f) /\ OwnText(d, r.text) /\ (ed.stream = NoDoc => CleanEditor(f))
              => CleanEditor(ed')
    BY <1>2, <1>4, <2>2, <2>3, UpdateMakes
  <2>5. CASE d = r.doc
    BY <1>1, <1>2, <2>2, <2>4, <2>5, QuietKeeps DEF Makes
  <2>6. CASE d # r.doc
    <3>1. Crossing
      BY <1>4, <2>4, <2>6 DEF Crossing
    <3>2. QED
      BY <1>1, <2>4, <3>1, QuietKeeps
  <2>7. QED
    BY <2>5, <2>6
<1>5. QED
  BY <1>1, <1>3, <1>4

\* The answer takes the place of the request.
LEMMA ServedMakes ==
    ASSUME DocInv, NEW r \in ed.sent, NEW d \in Tabs \cup {NoDoc}, NEW text \in Text,
           Served(r, d, text), r.kind \in {"create", "auto"} => d \in Docs,
           d = r.doc \/ r.kind \in {"create", "auto"}
    PROVE  ed' \in Editor /\ (CleanEditor(ed) /\ OwnText(d, text) => CleanEditor(ed'))
<1> DEFINE q == [r EXCEPT !.served = TRUE, !.doc = d, !.text = text]
<1>1. r \in Request /\ Shaped(r)
  BY GotMakes
<1>2. q \in Request
  BY <1>1 DEF Request
<1>3. /\ q.kind = r.kind /\ q.doc = d /\ q.text = text /\ q.served = TRUE
  BY <1>1 DEF Request
<1>4. ed' = [ed EXCEPT !.sent = (@ \ {r}) \cup {q}]
  BY DEF Served, Answer, Commit
<1> HIDE DEF q
<1>5. Shaped(q)
  BY <1>1, <1>3 DEF Shaped
<1>6. ed' \in EditorType
  BY <1>2, <1>4 DEF DocInv, Editor, EditorType
<1>7. /\ ed'.active = ed.active /\ ed'.pane = ed.pane /\ ed'.shown = ed.shown
      /\ ed'.diff = ed.diff /\ ed'.tabs = ed.tabs /\ ed'.sent = (ed.sent \ {r}) \cup {q}
      /\ ed'.kept = ed.kept
  BY <1>4 DEF DocInv, Editor, EditorType
<1>8. ed' \in Editor
  BY <1>5, <1>6, <1>7 DEF DocInv, Editor
<1>9. CleanEditor(ed) /\ OwnText(d, text) => CleanEditor(ed')
  BY <1>3, <1>7 DEF CleanEditor, HasText
<1>10. QED
  BY <1>8, <1>9

\* What the server stores and answers is a text of the document of the request.
LEMMA ServeKeeps ==
    ASSUME DocInv, NEW r \in ed.sent, Serve(r) PROVE Keeps
<1>1. /\ r \in Request /\ Shaped(r) /\ (CleanEditor(ed) => OwnText(r.doc, r.text))
      /\ ~r.served /\ r.text \in Text /\ r.doc \in Tabs \cup {NoDoc}
      /\ r.session \in Sessions \cup {NoSession}
  BY GotMakes DEF Serve, Request
<1>2. UNCHANGED <<session, loads, autosave, inputs, typed>>
  BY DEF Serve
<1>3. \A d \in Docs : d \in Tabs /\ stored[d] \in Text /\ Original(d) \in Text
                       /\ OwnText(d, Original(d))
  BY BlankText, BlankIsOwn DEF DocInv, RestTyped, Tabs
<1>4. ASSUME stored' \in [Docs -> Text], home' \in [Docs -> Sessions \cup {NoSession}],
             deleted' \subseteq Docs, ed' \in Editor,
             Clean => CleanEditor(ed') /\ \A d \in Docs : OwnText(d, stored'[d])
      PROVE  Keeps
  <2>1. RestTyped'
    BY <1>2, <1>4 DEF DocInv, RestTyped
  <2>2. QED
    BY <1>4, <2>1, CleanParts DEF Keeps, DocInv
<1>5. ASSUME r.doc \in Tabs, Served(r, r.doc, r.text), r.kind \in {"save", "delete", "versions"},
             stored' = stored, home' = home, deleted' \subseteq Docs
      PROVE  Keeps
  <2>1. ed' \in Editor /\ (CleanEditor(ed) /\ OwnText(r.doc, r.text) => CleanEditor(ed'))
    BY <1>1, <1>5, ServedMakes
  <2>2. QED
    BY <1>1, <1>4, <1>5, <2>1, CleanParts DEF DocInv, RestTyped
<1>6. CASE /\ r.kind = "save" /\ r.doc \in Docs
           /\ stored' = [stored EXCEPT ![r.doc] = r.text]
           /\ Served(r, r.doc, r.text) /\ UNCHANGED <<home, deleted>>
  <2>1. ed' \in Editor /\ (CleanEditor(ed) /\ OwnText(r.doc, r.text) => CleanEditor(ed'))
    BY <1>1, <1>6, ServedMakes
  <2>2. stored' \in [Docs -> Text]
        /\ \A d \in Docs : stored'[d] = IF d = r.doc THEN r.text ELSE stored[d]
    BY <1>1, <1>6 DEF DocInv, RestTyped
  <2>3. QED
    BY <1>1, <1>4, <1>6, <2>1, <2>2, CleanParts DEF DocInv, RestTyped
<1>7. CASE /\ r.kind = "save" /\ r.doc = Temp
           /\ Served(r, r.doc, r.text) /\ UNCHANGED <<stored, home, deleted>>
  BY <1>5, <1>7 DEF Tabs, DocInv, RestTyped
<1>8. CASE /\ r.kind = "delete"
           /\ deleted' = deleted \cup ({r.doc} \cap Docs)
           /\ Served(r, r.doc, r.text) /\ UNCHANGED <<stored, home>>
  BY <1>1, <1>5, <1>8 DEF Shaped, DocInv, RestTyped
<1>9. CASE /\ r.kind = "open"
           /\ Served(r, r.doc, stored[r.doc]) /\ UNCHANGED <<stored, home, deleted>>
  <2> DEFINE text == stored[r.doc]
  <2>1. r.doc \in Docs /\ text \in Text
    BY <1>1, <1>3, <1>9 DEF Shaped
  <2>2. Served(r, r.doc, text)
    BY <1>9
  <2> HIDE DEF text
  <2>3. ed' \in Editor /\ (CleanEditor(ed) /\ OwnText(r.doc, text) => CleanEditor(ed'))
    BY <1>1, <1>9, <2>1, <2>2, ServedMakes
  <2>4. Clean => OwnText(r.doc, text)
    BY <2>1, CleanParts DEF text
  <2>5. QED
    BY <1>4, <1>9, <2>3, <2>4, CleanParts DEF DocInv, RestTyped
<1>10. CASE /\ r.kind = "versions"
            /\ Served(r, r.doc, r.text) /\ UNCHANGED <<stored, home, deleted>>
  BY <1>1, <1>3, <1>5, <1>10 DEF Shaped, DocInv, RestTyped
<1>11. CASE /\ r.kind = "restore"
            /\ stored' = [stored EXCEPT ![r.doc] = Original(r.doc)]
            /\ Served(r, r.doc, Original(r.doc)) /\ UNCHANGED <<home, deleted>>
  <2> DEFINE text == Original(r.doc)
  <2>1. r.doc \in Docs /\ text \in Text /\ OwnText(r.doc, text)
    BY <1>1, <1>3, <1>11 DEF Shaped
  <2>2. Served(r, r.doc, text) /\ stored' = [stored EXCEPT ![r.doc] = text]
    BY <1>11
  <2> HIDE DEF text
  <2>3. ed' \in Editor /\ (CleanEditor(ed) /\ OwnText(r.doc, text) => CleanEditor(ed'))
    BY <1>1, <1>11, <2>1, <2>2, ServedMakes
  <2>4. stored' \in [Docs -> Text]
        /\ \A d \in Docs : stored'[d] = IF d = r.doc THEN text ELSE stored[d]
    BY <2>1, <2>2 DEF DocInv, RestTyped
  <2>5. QED
    BY <1>4, <1>11, <2>1, <2>3, <2>4, CleanParts DEF DocInv, RestTyped
<1>12. ASSUME r.kind \in {"create", "auto"}, NEW d \in Docs,
              home' = [home EXCEPT ![d] = r.session],
              stored' = [stored EXCEPT ![d] = r.text],
              Served(r, d, r.text), UNCHANGED deleted
       PROVE  Keeps
  <2>1. r.doc = NoDoc /\ d \in Tabs
    BY <1>1, <1>12 DEF Shaped, Tabs
  <2>2. ed' \in Editor /\ (CleanEditor(ed) /\ OwnText(d, r.text) => CleanEditor(ed'))
    BY <1>1, <1>12, <2>1, ServedMakes
  <2>3. CleanEditor(ed) => OwnText(d, r.text)
    BY <1>1, <2>1 DEF OwnText
  <2>4. stored' \in [Docs -> Text]
        /\ \A c \in Docs : stored'[c] = IF c = d THEN r.text ELSE stored[c]
    BY <1>1, <1>12 DEF DocInv, RestTyped
  <2>5. home' \in [Docs -> Sessions \cup {NoSession}]
    BY <1>1, <1>12 DEF DocInv, RestTyped
  <2>6. QED
    BY <1>4, <1>12, <2>2, <2>3, <2>4, <2>5, CleanParts DEF DocInv, RestTyped
<1>13. QED
  BY <1>6, <1>7, <1>8, <1>9, <1>10, <1>11, <1>12 DEF Serve

\* A saved text goes to the tab of its document; the streaming tab was refused.
LEMMA SaveReplyKeeps ==
    ASSUME DocInv, NEW r \in ed.sent, SaveReply(r) PROVE Keeps
<1> DEFINE e == Got(r)
           a == [e EXCEPT !.tabs = @ \ {Temp}, !.active = IF @ = Temp THEN NoDoc ELSE @]
           b == [e EXCEPT !.kept[r.doc] = r.text]
<1>1. /\ autosave' \in BOOLEAN /\ Quiet
      /\ ed' = IF r.doc = Temp THEN a ELSE IF r.doc \in ed.tabs THEN b ELSE e
  BY DEF SaveReply, Commit, DocInv, RestTyped
<1>2. /\ Makes(ed, e) /\ r \in Request /\ e.tabs = ed.tabs
      /\ (CleanEditor(ed) => OwnText(r.doc, r.text))
  BY GotMakes
<1> HIDE DEF e
<1>3. e \in EditorType /\ e \in Editor /\ e.tabs \subseteq Tabs /\ e.active \in Tabs \cup {NoDoc}
      /\ r.text \in Text
  BY <1>2 DEF Makes, Editor, EditorType, Request
<1>4. Makes(e, a)
  <2>1. a \in EditorType
    BY <1>3 DEF EditorType
  <2>2. /\ a.active = (IF e.active = Temp THEN NoDoc ELSE e.active) /\ a.pane = e.pane
        /\ a.shown = e.shown /\ a.diff = e.diff /\ a.tabs = e.tabs \ {Temp}
        /\ a.sent = e.sent /\ a.kept = e.kept
    BY <1>3 DEF EditorType
  <2> HIDE DEF a
  <2>3. QED
    BY <1>3, <2>1, <2>2 DEF Makes, Editor, CleanEditor, HasText
<1>5. CASE r.doc # Temp /\ r.doc \in e.tabs
  <2>1. b \in EditorType
    BY <1>3, <1>5 DEF EditorType
  <2>2. /\ b.active = e.active /\ b.pane = e.pane /\ b.shown = e.shown /\ b.diff = e.diff
        /\ b.tabs = e.tabs /\ b.sent = e.sent
        /\ \A t \in Tabs : b.kept[t] = IF t = r.doc THEN r.text ELSE e.kept[t]
    BY <1>3, <1>5 DEF EditorType
  <2> HIDE DEF b
  <2>3. b \in Editor /\ (CleanEditor(e) /\ OwnText(r.doc, r.text) => CleanEditor(b))
    BY <1>3, <2>1, <2>2 DEF Editor, CleanEditor, HasText
  <2>4. QED
    BY <1>1, <1>2, <1>5, <2>3, QuietKeeps DEF Makes
<1>6. CASE r.doc = Temp
  BY <1>1, <1>2, <1>4, <1>6, QuietKeeps, MakesTransitive DEF Makes
<1>7. CASE r.doc # Temp /\ r.doc \notin e.tabs
  BY <1>1, <1>2, <1>7, QuietKeeps DEF Makes
<1>8. QED
  BY <1>5, <1>6, <1>7

LEMMA DeleteReplyKeeps ==
    ASSUME DocInv, NEW r \in ed.sent, DeleteReply(r) PROVE Keeps
<1> DEFINE e == Got(r)
           f == [e EXCEPT !.tabs = @ \ {ed.active}]
           n == [f EXCEPT !.active = NoDoc]
<1>1. /\ autosave' \in BOOLEAN /\ Quiet
      /\ \/ ed' = e
         \/ ed' = closePanel(n, FALSE)
         \/ \E d : ed' = switchToDoc(f, d)
  BY DEF DeleteReply, Commit, DocInv, RestTyped
<1>2. Makes(ed, e)
  BY GotMakes
<1> HIDE DEF e
<1>3. e \in EditorType /\ e \in Editor
  BY <1>2 DEF Makes, Editor
<1>4. Makes(e, f)
  <2>1. f \in EditorType
    BY <1>3 DEF EditorType
  <2>2. /\ f.active = e.active /\ f.pane = e.pane /\ f.shown = e.shown /\ f.diff = e.diff
        /\ f.tabs = e.tabs \ {ed.active} /\ f.sent = e.sent /\ f.kept = e.kept
    BY <1>3 DEF EditorType
  <2> HIDE DEF f
  <2>3. QED
    BY <1>3, <2>1, <2>2 DEF Makes, Editor, CleanEditor, HasText
<1> HIDE DEF f
<1>5. f \in Editor /\ Makes(ed, f)
  BY <1>2, <1>4, MakesTransitive DEF Makes
<1>6. Makes(f, n) /\ n \in Editor
  BY <1>5, NoneActiveMakes DEF Makes
<1> HIDE DEF n
<1>7. Makes(ed, closePanel(n, FALSE))
  BY <1>5, <1>6, CloseAwayMakes, MakesTransitive
<1>8. \A d : Makes(ed, switchToDoc(f, d))
  BY <1>5, SwitchMakes, MakesTransitive
<1>9. Makes(ed, ed')
  BY <1>1, <1>2, <1>7, <1>8
<1>10. QED
  BY <1>1, <1>9, QuietKeeps DEF Makes

\* The tab of an answer, shown in a panel that is opened for it.
LEMMA ShowAnswerMakes ==
    ASSUME NEW e \in Editor, NEW d \in Tabs, NEW text \in Text
    PROVE  LET f == switchToDoc(openPanel(addDocToTabs(e, d, text)), d)
           IN  f \in Editor /\ (CleanEditor(e) /\ OwnText(d, text) => CleanEditor(f))
<1> DEFINE a == addDocToTabs(e, d, text)
           o == openPanel(a)
           f == switchToDoc(o, d)
<1>1. a \in Editor /\ (CleanEditor(e) /\ OwnText(d, text) => CleanEditor(a))
  BY AddTabMakes
<1> HIDE DEF a
<1>2. Makes(a, o)
  BY <1>1, OpenPanelMakes
<1> HIDE DEF o
<1>3. Makes(o, f)
  BY <1>2, SwitchMakes DEF Makes
<1> HIDE DEF f
<1>4. f \in Editor /\ (CleanEditor(e) /\ OwnText(d, text) => CleanEditor(f))
  BY <1>1, <1>2, <1>3 DEF Makes
<1>5. QED
  BY <1>4 DEF f, o, a

LEMMA OpenReplyKeeps ==
    ASSUME DocInv, NEW r \in ed.sent, OpenReply(r) PROVE Keeps
<1> DEFINE e == Got(r)
<1>1. /\ autosave' \in BOOLEAN /\ Quiet /\ r.kind = "open"
      /\ ed' = switchToDoc(openPanel(addDocToTabs(e, r.doc, r.text)), r.doc)
  BY DEF OpenReply, Commit, DocInv, RestTyped
<1>2. /\ Makes(ed, e) /\ r \in Request /\ Shaped(r)
      /\ (CleanEditor(ed) => OwnText(r.doc, r.text))
  BY GotMakes
<1> HIDE DEF e
<1>3. e \in Editor /\ r.doc \in Tabs /\ r.text \in Text
  BY <1>1, <1>2 DEF Makes, Shaped, Request, Tabs
<1>4. ed' \in Editor /\ (CleanEditor(e) /\ OwnText(r.doc, r.text) => CleanEditor(ed'))
  BY <1>1, <1>3, ShowAnswerMakes
<1>5. QED
  BY <1>1, <1>2, <1>4, QuietKeeps DEF Makes

\* What was typed into the empty editor is carried to the new document; a text that the
\* open panel shows of another document is carried as well.
LEMMA CreateReplyKeeps ==
    ASSUME DocInv, NEW r \in ed.sent, CreateReply(r) PROVE Keeps
<1> DEFINE g == Got(r)
           c == [g EXCEPT !.creating = FALSE]
           a == addDocToTabs(c, r.doc, r.text)
           e == openPanel(a)
           f == switchToDoc(e, r.doc)
           h == [f EXCEPT !.shown = e.shown, !.kept[r.doc] = e.shown]
           carried == "empty" \in r.notes /\ e.shown # Blank
<1>1. /\ Quiet /\ r.kind = "create" /\ r.served
      /\ \/ ed' = f /\ autosave' = autosave
         \/ carried /\ ed' = h /\ autosave' = TRUE
  BY DEF CreateReply, Commit
<1>2. autosave' \in BOOLEAN
  BY <1>1 DEF DocInv, RestTyped
<1>3. /\ Makes(ed, g) /\ g.shown = ed.shown /\ g.pane = ed.pane /\ r \in Request /\ Shaped(r)
      /\ (CleanEditor(ed) => OwnText(r.doc, r.text))
  BY GotMakes
<1> HIDE DEF g
<1>4. g \in EditorType /\ g \in Editor /\ r.doc \in Tabs /\ r.text \in Text
  BY <1>1, <1>3 DEF Makes, Editor, Shaped, Request, Tabs
<1>5. Makes(g, c) /\ c.shown = g.shown /\ c.pane = g.pane /\ c \in Editor
  <2>1. c \in EditorType
    BY <1>4 DEF EditorType
  <2>2. /\ c.active = g.active /\ c.pane = g.pane /\ c.shown = g.shown /\ c.diff = g.diff
        /\ c.tabs = g.tabs /\ c.sent = g.sent /\ c.kept = g.kept
    BY <1>4 DEF EditorType
  <2> HIDE DEF c
  <2>3. QED
    BY <1>4, <2>1, <2>2 DEF Makes, Editor, CleanEditor, HasText
<1> HIDE DEF c
<1>6. /\ a \in Editor /\ (CleanEditor(c) /\ OwnText(r.doc, r.text) => CleanEditor(a))
      /\ a.pane = c.pane /\ a.shown = c.shown
  BY <1>4, <1>5, AddTabMakes
<1> HIDE DEF a
<1>7. Makes(a, e) /\ e.shown = IF a.pane = "open" THEN a.shown ELSE Blank
  BY <1>6, OpenPanelMakes
<1> HIDE DEF e
<1>8. Makes(e, f)
  BY <1>7, SwitchMakes DEF Makes
<1> HIDE DEF f
<1>9. f \in Editor /\ (CleanEditor(ed) => CleanEditor(f))
  BY <1>3, <1>5, <1>6, <1>7, <1>8 DEF Makes
<1>10. CASE ed' = f
  BY <1>1, <1>2, <1>9, <1>10, QuietKeeps
<1>11. CASE carried /\ ed' = h
  <2>1. e.shown \in Text /\ f \in EditorType
    BY <1>7, <1>9 DEF Makes, Editor, EditorType
  <2>2. h \in EditorType
    BY <1>4, <2>1 DEF EditorType
  <2>3. /\ h.active = f.active /\ h.pane = f.pane /\ h.shown = e.shown /\ h.diff = f.diff
        /\ h.tabs = f.tabs /\ h.sent = f.sent
        /\ \A t \in Tabs : h.kept[t] = IF t = r.doc THEN e.shown ELSE f.kept[t]
    BY <1>4, <2>1 DEF EditorType
  <2> HIDE DEF h
  <2>4. h \in Editor
    BY <1>9, <2>2, <2>3 DEF Editor
  <2>5. ed.pane = "open" /\ e.shown = ed.shown
    BY <1>3, <1>5, <1>6, <1>7, <1>11
  <2>6. CASE ed.shown.src # NoDoc
    <3>1. Crossing
      BY <1>11, <2>5, <2>6 DEF Crossing
    <3>2. QED
      BY <1>1, <1>2, <1>11, <2>4, <3>1, QuietKeeps
  <2>7. CASE ed.shown.src = NoDoc
    <3>1. \A d : OwnText(d, e.shown)
      BY <2>5, <2>7 DEF OwnText
    <3>2. f.tabs \subseteq Tabs
      BY <2>1 DEF EditorType
    <3>3. CleanEditor(f) => CleanEditor(h)
      BY <2>3, <3>1, <3>2 DEF CleanEditor, HasText
    <3>4. QED
      BY <1>1, <1>2, <1>9, <1>11, <2>4, <3>3, QuietKeeps
  <2>8. QED
    BY <2>6, <2>7
<1>12. QED
  BY <1>1, <1>10, <1>11

\* The new document becomes the active one whatever the screen shows by then.
LEMMA AutoCreateReplyKeeps ==
    ASSUME DocInv, NEW r \in ed.sent, AutoCreateReply(r) PROVE Keeps
<1> DEFINE g == Got(r)
           a == addDocToTabs(g, r.doc, r.text)
           h == [a EXCEPT !.active = r.doc, !.autoCreating = FALSE]
<1>1. /\ Quiet /\ r.kind = "auto" /\ r.served /\ ed' = h /\ autosave' \in BOOLEAN
  BY DEF AutoCreateReply, Commit
<1>2. /\ Makes(ed, g) /\ g.shown = ed.shown /\ g.diff = ed.diff /\ r \in Request /\ Shaped(r)
      /\ (CleanEditor(ed) => OwnText(r.doc, r.text))
  BY GotMakes
<1> HIDE DEF g
<1>3. g \in Editor /\ r.doc \in Tabs /\ r.text \in Text
  BY <1>1, <1>2 DEF Makes, Shaped, Request, Tabs
<1>4. /\ a \in Editor /\ (CleanEditor(g) /\ OwnText(r.doc, r.text) => CleanEditor(a))
      /\ a.diff = g.diff /\ a.shown = g.shown
  BY <1>3, AddTabMakes
<1> HIDE DEF a
<1>5. h \in EditorType
  BY <1>3, <1>4 DEF Editor, EditorType
<1>6. /\ h.active = r.doc /\ h.pane = a.pane /\ h.shown = a.shown /\ h.diff = a.diff
      /\ h.tabs = a.tabs /\ h.sent = a.sent /\ h.kept = a.kept
  BY <1>3, <1>4 DEF Editor, EditorType
<1> HIDE DEF h
<1>7. h \in Editor
  BY <1>4, <1>5, <1>6 DEF Editor
<1>8. CASE ed.shown.src # NoDoc \/ ed.diff.on
  <2>1. Crossing
    BY <1>8 DEF Crossing
  <2>2. QED
    BY <1>1, <1>7, <2>1, QuietKeeps
<1>9. CASE ed.shown.src = NoDoc /\ ~ed.diff.on
  <2>1. CleanEditor(a) => CleanEditor(h)
    BY <1>2, <1>4, <1>6, <1>9 DEF CleanEditor, HasText, OwnText
  <2>2. QED
    BY <1>1, <1>2, <1>4, <1>7, <2>1, QuietKeeps DEF Makes
<1>10. QED
  BY <1>8, <1>9

\* The restored text is put on the screen and in the tab of the document active by then.
LEMMA RestoreReplyKeeps ==
    ASSUME DocInv, NEW r \in ed.sent, RestoreReply(r) PROVE Keeps
<1> DEFINE e == Got(r)
           kept == IF e.active \in e.tabs THEN [e.kept EXCEPT ![e.active] = r.text] ELSE e.kept
           a == [e EXCEPT !.shown = IF HasText(e) THEN r.text ELSE @, !.kept = kept]
<1>1. /\ Makes(ed, e) /\ e.active = ed.active /\ r \in Request
      /\ (CleanEditor(ed) => OwnText(r.doc, r.text))
  BY GotMakes
<1> HIDE DEF e
<1>2. e \in EditorType /\ e \in Editor /\ r.text \in Text
  BY <1>1 DEF Makes, Editor, Request
<1>3. /\ Quiet /\ autosave' \in BOOLEAN /\ ed' = a
  BY <1>2 DEF RestoreReply, Commit, DocInv, RestTyped, e, EditorType
<1>4. kept \in [Tabs -> Text] /\ e.tabs \subseteq Tabs
      /\ \A t \in Tabs : kept[t] = IF t = e.active /\ t \in e.tabs THEN r.text ELSE e.kept[t]
  BY <1>2 DEF EditorType
<1> HIDE DEF kept
<1>5. a \in EditorType
  BY <1>2, <1>4 DEF EditorType
<1>6. /\ a.active = e.active /\ a.pane = e.pane /\ a.diff = e.diff /\ a.kept = kept
      /\ a.shown = (IF HasText(e) THEN r.text ELSE e.shown) /\ a.tabs = e.tabs /\ a.sent = e.sent
  BY <1>2 DEF EditorType
<1> HIDE DEF a
<1>7. a \in Editor
  BY <1>2, <1>5, <1>6 DEF Editor
<1>8. CASE r.doc # ed.active
  <2>1. Crossing
    BY <1>8 DEF Crossing
  <2>2. QED
    BY <1>3, <1>7, <2>1, QuietKeeps
<1>9. CASE r.doc = ed.active
  <2>1. CleanEditor(e) /\ OwnText(e.active, r.text) => CleanEditor(a)
    BY <1>4, <1>6 DEF CleanEditor, HasText
  <2>2. QED
    BY <1>1, <1>3, <1>7, <1>9, <2>1, QuietKeeps DEF Makes
<1>10. QED
  BY <1>8, <1>9

\* The review of the versions is opened on the document active by then.
LEMMA VersionsReplyKeeps ==
    ASSUME DocInv, NEW r \in ed.sent, VersionsReply(r) PROVE Keeps
<1> DEFINE e == Got(r)
           f == discardDiff(e)
           old == Original(r.doc)
<1>1. /\ Quiet /\ autosave' \in BOOLEAN /\ r.kind = "versions"
      /\ ed' = e \/ ed' = enterDiffMode(f, old, r.text)
  BY DEF VersionsReply, Commit, DocInv, RestTyped
<1>2. /\ Makes(ed, e) /\ e.active = ed.active /\ r \in Request /\ Shaped(r)
      /\ (CleanEditor(ed) => OwnText(r.doc, r.text))
  BY GotMakes
<1> HIDE DEF e
<1>3. Makes(e, f) /\ f.active = e.active
  BY <1>2, DiscardMakes DEF Makes
<1> HIDE DEF f
<1>4. f \in Editor /\ r.text \in Text /\ old \in Text /\ OwnText(r.doc, old)
  BY <1>1, <1>2, <1>3, BlankText, BlankIsOwn DEF Makes, Request, Shaped, Tabs
<1> HIDE DEF old
<1>5. CASE ed' = e
  BY <1>1, <1>2, <1>5, QuietKeeps DEF Makes
<1>6. CASE ed' = enterDiffMode(f, old, r.text)
  <2>1. /\ ed' \in Editor
        /\ CleanEditor(f) /\ (f.active # NoDoc => OwnText(f.active, old) /\ OwnText(f.active, r.text))
              => CleanEditor(ed')
    BY <1>4, <1>6, EnterMakes
  <2>2. CASE r.doc # ed.active
    <3>1. Crossing
      BY <2>2 DEF Crossing
    <3>2. QED
      BY <1>1, <2>1, <3>1, QuietKeeps
  <2>3. CASE r.doc = ed.active
    BY <1>1, <1>2, <1>3, <1>4, <2>1, <2>3, QuietKeeps DEF Makes
  <2>4. QED
    BY <2>2, <2>3
<1>7. QED
  BY <1>1, <1>5, <1>6

\* The list of the server gives tabs to documents that have none, with the stored texts;
\* the document made active without a panel is shown over what the panel shows.
LEMMA LoadReplyKeeps ==
    ASSUME DocInv, NEW r \in ed.sent, LoadReply(r) PROVE Keeps
<1> DEFINE e == Got(r)
           restore == "restore" \in r.notes
           wanted == "open" \in r.notes
           kept == [t \in Tabs |-> IF t \in Listed(r.session) \ e.tabs THEN stored[t] ELSE e.kept[t]]
           f == [e EXCEPT !.tabs = @ \cup Listed(r.session), !.kept = kept]
           s == r.session
           small == "minimized"
           wide == "open"
<1>1. /\ Makes(ed, e) /\ r \in Request /\ Shaped(r) /\ e.pane = ed.pane /\ e.diff = ed.diff
  BY GotMakes
<1> HIDE DEF e
<1>2. e \in EditorType /\ e \in Editor /\ s \in Sessions \cup {NoSession}
      /\ small \in {"closed", "open", "minimized"} /\ wide \in {"closed", "open", "minimized"}
  BY <1>1, SMTT(60) DEF Makes, Editor, Request
<1>3. /\ Quiet /\ autosave' \in BOOLEAN
      /\ \/ ed' = (IF ~restore \/ wanted THEN showEmptyState(openPanel(e)) ELSE e)
         \/ \E d \in Listed(s) :
              LET docked == SetPref([f EXCEPT !.active = d, !.chip = d], s, small)
              IN  IF restore /\ ~wanted
                  THEN ed' = IF e.pane = "open"
                             THEN closePanel(switchToDoc(docked, d), TRUE) ELSE docked
                  ELSE ed' = switchToDoc(openPanel(SetPref(f, s, wide)), d)
  <2>1. f = [e EXCEPT !.tabs = @ \cup Listed(r.session),
                      !.kept = [t \in Tabs |-> IF t \in Listed(r.session) \ e.tabs
                                               THEN stored[t] ELSE @[t]]]
    BY <1>2 DEF EditorType
  <2> HIDE DEF f
  <2>2. QED
    BY <2>1 DEF LoadReply, Commit, DocInv, RestTyped, e
<1>4. kept \in [Tabs -> Text] /\ Listed(s) \subseteq Docs /\ Docs \subseteq Tabs
      /\ \A t \in Tabs : kept[t] = IF t \in Listed(s) \ e.tabs THEN stored[t] ELSE e.kept[t]
  BY <1>2 DEF EditorType, DocInv, RestTyped, Tabs, Listed
<1>5. f \in EditorType /\ f.active = e.active /\ f.pane = e.pane /\ f.shown = e.shown
      /\ f.diff = e.diff /\ f.sent = e.sent /\ f.tabs = e.tabs \cup Listed(s) /\ f.kept = kept
  <2> HIDE DEF kept
  <2>1. QED
    BY <1>2, <1>4 DEF EditorType
<1> HIDE DEF kept, f, s, small, wide
<1>6. f \in Editor
  BY <1>2, <1>5 DEF Editor
<1>7. Clean => CleanEditor(f)
  <2>1. Clean => CleanEditor(e) /\ \A d \in Docs : OwnText(d, stored[d])
    BY <1>1, CleanParts DEF Makes
  <2>2. e.tabs \subseteq Tabs
    BY <1>2 DEF EditorType
  <2>3. QED
    BY <1>4, <1>5, <2>1, <2>2 DEF CleanEditor, HasText
<1>8. ASSUME ed' \in Editor, Clean => CleanEditor(ed') \/ Crossing PROVE Keeps
  <2>1. RestTyped' /\ stored' = stored
    BY <1>3 DEF DocInv, RestTyped, Quiet
  <2>2. QED
    BY <1>8, <2>1, CleanParts DEF Keeps, DocInv
<1>9. CASE ed' = (IF ~restore \/ wanted THEN showEmptyState(openPanel(e)) ELSE e)
  <2> DEFINE o == openPanel(e)
  <2>1. Makes(e, o)
    BY <1>2, OpenPanelMakes
  <2> HIDE DEF o
  <2>2. Makes(e, showEmptyState(o))
    BY <2>1, EmptyMakes, MakesTransitive DEF Makes
  <2>3. Makes(ed, ed')
    BY <1>1, <1>9, <2>2, MakesTransitive DEF o
  <2>4. QED
    BY <1>8, <2>3, CleanParts DEF Makes
<1>10. ASSUME NEW d \in Listed(s), ~(restore /\ ~wanted),
              ed' = switchToDoc(openPanel(SetPref(f, s, wide)), d)
       PROVE  Keeps
  <2> DEFINE p == SetPref(f, s, wide)
             o == openPanel(p)
  <2>1. Makes(f, p)
    BY <1>2, <1>6, PrefMakes
  <2> HIDE DEF p
  <2>2. Makes(f, o)
    BY <2>1, OpenPanelMakes, MakesTransitive DEF Makes
  <2> HIDE DEF o
  <2>3. Makes(f, ed')
    BY <1>10, <2>2, SwitchMakes, MakesTransitive DEF Makes, o, p
  <2>4. QED
    BY <1>7, <1>8, <2>3 DEF Makes
<1>11. ASSUME NEW d \in Listed(s), restore /\ ~wanted,
              LET docked == SetPref([f EXCEPT !.active = d, !.chip = d], s, small)
              IN  ed' = IF e.pane = "open" THEN closePanel(switchToDoc(docked, d), TRUE) ELSE docked
       PROVE  Keeps
  <2> DEFINE a == [f EXCEPT !.active = d, !.chip = d]
             docked == SetPref(a, s, small)
             w == switchToDoc(docked, d)
             down == TRUE
  <2>1. ed' = IF e.pane = "open" THEN closePanel(w, down) ELSE docked
    BY <1>11
  <2>2. d \in Tabs
    BY <1>4
  <2>3. a \in EditorType
    BY <1>5, <2>2 DEF EditorType
  <2>4. /\ a.active = d /\ a.pane = f.pane /\ a.shown = f.shown /\ a.diff = f.diff
        /\ a.tabs = f.tabs /\ a.sent = f.sent /\ a.kept = f.kept
    BY <1>5, <2>2 DEF EditorType
  <2> HIDE DEF a
  <2>5. a \in Editor
    BY <1>6, <2>3, <2>4 DEF Editor
  <2>6. Makes(a, docked)
    BY <1>2, <2>5, PrefMakes
  <2> HIDE DEF docked
  <2>7. docked \in Editor
    BY <2>6 DEF Makes
  <2>8. w \in Editor /\ down \in BOOLEAN
    BY <2>7, SwitchMakes DEF Makes
  <2> HIDE DEF w, down
  <2>9. ed' \in Editor
    BY <2>1, <2>7, <2>8, ClosePanelMakes DEF Makes
  <2>10. CASE HasText(ed) \/ ed.diff.on
    <3>1. Crossing
      BY <1>11, <2>10 DEF Crossing
    <3>2. QED
      BY <1>8, <2>9, <3>1
  <2>11. CASE ~HasText(ed) /\ ~ed.diff.on
    <3>1. ~HasText(f) /\ ~f.diff.on /\ ed' = docked
      BY <1>1, <1>5, <2>1, <2>11 DEF HasText
    <3>2. CleanEditor(f) => CleanEditor(a)
      BY <2>4, <3>1 DEF CleanEditor, HasText
    <3>3. QED
      BY <1>7, <1>8, <2>6, <2>9, <3>1, <3>2 DEF Makes
  <2>12. QED
    BY <2>10, <2>11
<1>12. QED
  BY <1>3, <1>9, <1>10, <1>11

LEMMA RequestFailsKeeps ==
    ASSUME DocInv, NEW r \in ed.sent, RequestFails(r) PROVE Keeps
<1> DEFINE e == Got(r)
           a == [e EXCEPT !.creating = FALSE]
           b == [e EXCEPT !.autoCreating = FALSE]
           o == openPanel(e)
<1>1. /\ Quiet /\ autosave' \in BOOLEAN
      /\ ed' = showEmptyState(o) \/ ed' = a \/ ed' = b \/ ed' = e
  BY DEF RequestFails, Commit, DocInv, RestTyped
<1>2. Makes(ed, e)
  BY GotMakes
<1> HIDE DEF e
<1>3. e \in EditorType /\ e \in Editor
  BY <1>2 DEF Makes, Editor
<1>4. a \in EditorType /\ b \in EditorType
  BY <1>3 DEF EditorType
<1>5. /\ a.active = e.active /\ a.pane = e.pane /\ a.shown = e.shown /\ a.diff = e.diff
      /\ a.tabs = e.tabs /\ a.sent = e.sent /\ a.kept = e.kept
  BY <1>3 DEF EditorType
<1>6. /\ b.active = e.active /\ b.pane = e.pane /\ b.shown = e.shown /\ b.diff = e.diff
      /\ b.tabs = e.tabs /\ b.sent = e.sent /\ b.kept = e.kept
  BY <1>3 DEF EditorType
<1> HIDE DEF a, b
<1>7. Makes(e, a) /\ Makes(e, b)
  BY <1>3, <1>4, <1>5, <1>6 DEF Makes, Editor, CleanEditor, HasText
<1>8. Makes(e, o)
  BY <1>3, OpenPanelMakes
<1> HIDE DEF o
<1>9. Makes(e, showEmptyState(o))
  BY <1>8, EmptyMakes, MakesTransitive DEF Makes
<1>10. Makes(ed, ed')
  BY <1>1, <1>2, <1>7, <1>9, MakesTransitive
<1>11. QED
  BY <1>1, <1>10, QuietKeeps DEF Makes

-----------------------------------------------------------------------------
(* The theorems.                                                           *)

\* Every step keeps the invariant, and leaves texts where they belong unless it crosses.
LEMMA NextKeeps == DocInv /\ Next => Keeps
<1> SUFFICES ASSUME DocInv, Next PROVE Keeps
  OBVIOUS
<1>1. CASE User
  BY <1>1, TypeKeeps, FinishCloseKeeps, RestoreChipKeeps, TrashChipKeeps, SaveNowKeeps,
     NewDocumentKeeps, DeleteActiveKeeps, RestoreVersionKeeps, ToggleDiffKeeps,
     ToggleButtonKeeps, OpenDocumentKeeps, SwitchTabKeeps, CloseTabKeeps, ClosePanelKeeps,
     ResolveChunkKeeps, SelectSessionKeeps DEF User
<1>2. CASE Timers
  BY <1>2, AutosaveTimerKeeps, AnimationEndsKeeps, FinishDiffKeeps, LoadTimerKeeps DEF Timers
<1>3. CASE Agent
  BY <1>3, StreamOpenKeeps, StreamDeltaKeeps, AgentWritesKeeps DEF Agent
<1>4. CASE Arrivals
  BY <1>4, ServeKeeps, UpdateArrivesKeeps, SaveReplyKeeps, DeleteReplyKeeps, OpenReplyKeeps,
     CreateReplyKeeps, AutoCreateReplyKeeps, RestoreReplyKeeps, VersionsReplyKeeps,
     LoadReplyKeeps, RequestFailsKeeps DEF Arrivals
<1>5. QED
  BY <1>1, <1>2, <1>3, <1>4 DEF Next

LEMMA StutterKeeps == DocInv /\ UNCHANGED vars => DocInv'
BY DEF vars, DocInv, RestTyped

\* Every request of the panel names the document it is for, except a creation under way.
THEOREM EditorInvariant == Spec => []DocInv
<1>1. DocInv /\ [Next]_vars => DocInv'
  BY NextKeeps, StutterKeeps DEF Keeps
<1>2. QED
  BY <1>1, InitDocInv, PTL DEF Spec

\* The panel, its map of tabs, its requests and the stored documents keep their shapes
\* over every handler, timer and reply of document.js.
THEOREM EditorTypes == Spec => []TypeOK
<1>1. DocInv => TypeOK
  BY DEF DocInv, RestTyped, TypeOK, Editor
<1>2. QED
  BY <1>1, EditorInvariant, PTL

\* The text of a document reaches the place of another only by the stale steps that
\* Crossing names, whatever the documents, the sessions and the requests in flight.
THEOREM CrossedOnly == Spec => CrossedOnlyBy
<1>1. DocInv /\ [Next]_vars => [Clean => Clean' \/ Crossing]_vars
  BY NextKeeps DEF Keeps
<1>2. QED
  BY <1>1, EditorInvariant, PTL DEF Spec, CrossedOnlyBy

-----------------------------------------------------------------------------
(* What the user typed.                                                    *)

\* A request the server has not seen that carries a text to it.
Waiting(r) == ~r.served /\ r.kind \in {"save", "auto"}

\* The input x is on the screen, in a tab or on its way to the server.
InHand(e, x) ==
    \/ HasText(e) /\ x \in e.shown.edits
    \/ \E t \in e.tabs : x \in e.kept[t].edits
    \/ \E r \in e.sent : Waiting(r) /\ x \in r.text.edits

Holds(e, f) == \A x : InHand(e, x) => InHand(f, x)

LEMMA HeldIs ==
    /\ \A x : x \in Held <=> InHand(ed, x) \/ \E d \in Docs : x \in stored[d].edits
    /\ \A x : x \in Held' <=> InHand(ed', x) \/ \E d \in Docs : x \in stored'[d].edits
<1>1. ASSUME NEW x
     PROVE  x \in Held <=> InHand(ed, x) \/ \E d \in Docs : x \in stored[d].edits
  <2> DEFINE waiting == {q \in ed.sent : ~q.served /\ q.kind \in {"save", "auto"}}
             onScreen == IF HasText(ed) THEN ed.shown.edits ELSE {}
             inTabs == UNION {ed.kept[t].edits : t \in ed.tabs}
             onTheWay == UNION {r.text.edits : r \in waiting}
             onServer == UNION {stored[d].edits : d \in Docs}
  <2>1. x \in onScreen <=> HasText(ed) /\ x \in ed.shown.edits
    OBVIOUS
  <2>2. x \in inTabs <=> \E t \in ed.tabs : x \in ed.kept[t].edits
    OBVIOUS
  <2>3. x \in onTheWay <=> \E r \in ed.sent : Waiting(r) /\ x \in r.text.edits
    <3>1. x \in onTheWay <=> \E r \in waiting : x \in r.text.edits
      OBVIOUS
    <3>2. QED
      BY <3>1 DEF Waiting
  <2>4. x \in onServer <=> \E d \in Docs : x \in stored[d].edits
    OBVIOUS
  <2>5. Held = onScreen \cup inTabs \cup onTheWay \cup onServer
    BY DEF Held
  <2> HIDE DEF onScreen, inTabs, onTheWay, onServer
  <2>6. x \in Held <=> x \in onScreen \/ x \in inTabs \/ x \in onTheWay \/ x \in onServer
    BY <2>5
  <2>7. QED
    BY <2>1, <2>2, <2>3, <2>4, <2>6 DEF InHand
<1>2. ASSUME NEW x
     PROVE  x \in Held' <=> InHand(ed', x) \/ \E d \in Docs : x \in stored'[d].edits
  <2> DEFINE waiting == {q \in ed'.sent : ~q.served /\ q.kind \in {"save", "auto"}}
             onScreen == IF HasText(ed') THEN ed'.shown.edits ELSE {}
             inTabs == UNION {ed'.kept[t].edits : t \in ed'.tabs}
             onTheWay == UNION {r.text.edits : r \in waiting}
             onServer == UNION {stored'[d].edits : d \in Docs}
  <2>1. x \in onScreen <=> HasText(ed') /\ x \in ed'.shown.edits
    OBVIOUS
  <2>2. x \in inTabs <=> \E t \in ed'.tabs : x \in ed'.kept[t].edits
    OBVIOUS
  <2>3. x \in onTheWay <=> \E r \in ed'.sent : Waiting(r) /\ x \in r.text.edits
    <3>1. x \in onTheWay <=> \E r \in waiting : x \in r.text.edits
      OBVIOUS
    <3>2. QED
      BY <3>1 DEF Waiting
  <2>4. x \in onServer <=> \E d \in Docs : x \in stored'[d].edits
    OBVIOUS
  <2>5. Held' = onScreen \cup inTabs \cup onTheWay \cup onServer
    BY DEF Held
  <2> HIDE DEF onScreen, inTabs, onTheWay, onServer
  <2>6. x \in Held' <=> x \in onScreen \/ x \in inTabs \/ x \in onTheWay \/ x \in onServer
    BY <2>5
  <2>7. QED
    BY <2>1, <2>2, <2>3, <2>4, <2>6 DEF InHand
<1>3. QED
  BY <1>1, <1>2

\* Nothing a step keeps in hand is lost with the server's texts unchanged.
LEMMA HoldsKeeps ==
    ASSUME Holds(ed, ed'), stored' = stored
    PROVE  typed \cap Held \subseteq Held'
BY HeldIs DEF Holds

\* Settled, of a record of the editor.
SettledEditor(e) ==
    /\ e.pane # "closing" /\ ~e.diff.on
    /\ e.active \in e.tabs /\ HasText(e) => e.kept[e.active].edits \subseteq e.shown.edits

LEMMA SettledIs == Settled <=> SettledEditor(ed)
BY DEF Settled, SettledEditor, HasText

LEMMA FetchFacts ==
    ASSUME NEW e \in Editor, NEW kind, NEW d, NEW s, NEW text, NEW notes
    PROVE  LET f == Fetch(e, kind, d, s, text, notes)
           IN  /\ f.active = e.active /\ f.pane = e.pane /\ f.shown = e.shown /\ f.diff = e.diff
               /\ f.tabs = e.tabs /\ f.kept = e.kept /\ e.sent \subseteq f.sent
               /\ \E r \in f.sent : r.kind = kind /\ ~r.served /\ r.text = text
<1> DEFINE r == [kind |-> kind, doc |-> d, session |-> s, text |-> text,
                 notes |-> notes, served |-> FALSE]
           f == Fetch(e, kind, d, s, text, notes)
<1>1. r.kind = kind /\ ~r.served /\ r.text = text
  OBVIOUS
<1> HIDE DEF r
<1>2. f = [e EXCEPT !.sent = @ \cup {r}]
  BY DEF Fetch, r
<1>3. /\ f.active = e.active /\ f.pane = e.pane /\ f.shown = e.shown /\ f.diff = e.diff
      /\ f.tabs = e.tabs /\ f.kept = e.kept /\ f.sent = e.sent \cup {r}
  BY <1>2 DEF Editor, EditorType
<1> HIDE DEF f
<1>4. QED
  BY <1>1, <1>3 DEF f

LEMMA FetchHolds ==
    ASSUME NEW e \in Editor, NEW kind, NEW d, NEW s, NEW text, NEW notes
    PROVE  Holds(e, Fetch(e, kind, d, s, text, notes))
BY FetchFacts DEF Holds, InHand, HasText

\* saveCurrentToMap(), tab by tab.
LEMMA SaveCurrentKept ==
    ASSUME NEW e \in Editor, NEW t \in Tabs
    PROVE  saveCurrentToMap(e).kept[t] =
              IF t = e.active /\ t \in e.tabs /\ HasText(e) THEN e.shown ELSE e.kept[t]
BY DEF Editor, EditorType, saveCurrentToMap

\* saveDocument() sends what is on the screen, and keeps it in the tab of the document.
LEMMA SaveFacts ==
    ASSUME NEW e \in Editor, e.active # NoDoc, HasText(e)
    PROVE  LET f == saveDocument(e)
           IN  /\ f \in Editor
               /\ f.active = e.active /\ f.pane = e.pane /\ f.shown = e.shown /\ f.tabs = e.tabs
               /\ f.diff = e.diff
               /\ e.sent \subseteq f.sent
               /\ \E r \in f.sent : Waiting(r) /\ r.text = e.shown
               /\ \A t \in Tabs : f.kept[t] = IF t = e.active /\ t \in e.tabs
                                              THEN e.shown ELSE e.kept[t]
<1> DEFINE c == saveCurrentToMap(e)
           text == IF c.active \in c.tabs THEN c.kept[c.active] ELSE c.shown
           kind == "save"
           g == Fetch(c, kind, c.active, NoSession, text, {})
<1>1. saveDocument(e) = g
  BY DEF saveDocument
<1>2. /\ c \in Editor /\ c.active = e.active /\ c.pane = e.pane /\ c.shown = e.shown
      /\ c.tabs = e.tabs /\ c.diff = e.diff /\ c.sent = e.sent
  BY SaveCurrentFacts, SaveCurrentMakes DEF Makes
<1>3. \A t \in Tabs : c.kept[t] = IF t = e.active /\ t \in e.tabs THEN e.shown ELSE e.kept[t]
  BY SaveCurrentKept
<1>4. e.active \in Tabs
  BY DEF Editor, EditorType
<1> HIDE DEF c
<1>5. text = e.shown
  BY <1>2, <1>3, <1>4
<1> HIDE DEF text
<1>6. kind \in {"save", "auto"}
  OBVIOUS
<1> HIDE DEF kind
<1>7. /\ g.active = c.active /\ g.pane = c.pane /\ g.shown = c.shown /\ g.diff = c.diff
      /\ g.tabs = c.tabs /\ g.kept = c.kept /\ c.sent \subseteq g.sent
      /\ \E r \in g.sent : r.kind = kind /\ ~r.served /\ r.text = text
  BY <1>2, FetchFacts
<1>8. g \in Editor
  BY <1>1, SaveMakes DEF Makes
<1> HIDE DEF g
<1>9. QED
  BY <1>1, <1>2, <1>3, <1>5, <1>6, <1>7, <1>8 DEF Waiting

LEMMA SaveHolds ==
    ASSUME NEW e \in Editor, SettledEditor(e)
    PROVE  Holds(e, saveDocument(e))
<1>1. CASE e.active = NoDoc \/ ~HasText(e)
  BY <1>1 DEF saveDocument, Holds
<1>2. CASE e.active # NoDoc /\ HasText(e)
  <2> DEFINE f == saveDocument(e)
  <2>1. /\ f.pane = e.pane /\ f.shown = e.shown /\ f.tabs = e.tabs /\ e.sent \subseteq f.sent
        /\ \A t \in Tabs : f.kept[t] = IF t = e.active /\ t \in e.tabs
                                       THEN e.shown ELSE e.kept[t]
    BY <1>2, SaveFacts
  <2>2. e.tabs \subseteq Tabs
    BY DEF Editor, EditorType
  <2> HIDE DEF f
  <2>3. Holds(e, f)
    BY <1>2, <2>1, <2>2 DEF SettledEditor, Holds, InHand, HasText
  <2>4. QED
    BY <2>3 DEF f
<1>3. QED
  BY <1>1, <1>2

\* switchToDoc() with no review open: the screen goes to the tab it belongs to, and only
\* an empty tab is dropped.
LEMMA SwitchFacts ==
    ASSUME NEW e \in Editor, ~e.diff.on, HasText(e), NEW d \in e.tabs
    PROVE  LET f == switchToDoc(e, d)
           IN  /\ f \in Editor /\ f.active = d /\ f.pane = e.pane /\ f.shown = f.kept[d]
               /\ d \in f.tabs /\ e.sent \subseteq f.sent
               /\ f.tabs \subseteq e.tabs
               /\ \A t \in e.tabs \ f.tabs : f.kept[t] = Blank
               /\ \A t \in Tabs : f.kept[t] = IF t = e.active /\ t \in e.tabs
                                              THEN e.shown ELSE e.kept[t]
<1> DEFINE c == saveCurrentToMap(e)
           left == c.active
           b == [c EXCEPT !.tabs = @ \ {left}]
           x == Fetch(b, "delete", left, NoSession, Blank, {})
           g == IF left \in c.tabs \ {d} /\ c.kept[left] = Blank THEN x ELSE c
           h == [g EXCEPT !.active = d, !.shown = IF HasText(g) THEN g.kept[d] ELSE @]
<1>1. switchToDoc(e, d) = h
  BY DEF switchToDoc, discardDiff, exitDiffMode
<1>2. /\ c \in Editor /\ c.active = e.active /\ c.pane = e.pane /\ c.tabs = e.tabs
      /\ c.sent = e.sent
  BY SaveCurrentFacts, SaveCurrentMakes DEF Makes
<1>3. \A t \in Tabs : c.kept[t] = IF t = e.active /\ t \in e.tabs THEN e.shown ELSE e.kept[t]
  BY SaveCurrentKept
<1> HIDE DEF c, left
<1>4. b \in EditorType
  BY <1>2 DEF Editor, EditorType
<1>5. b.tabs = c.tabs \ {left} /\ b.kept = c.kept /\ b.pane = c.pane /\ b.sent = c.sent
  BY <1>2 DEF Editor, EditorType
<1> HIDE DEF b
<1>6. b \in Editor
  BY <1>2, <1>4, <1>5 DEF Editor
<1>7. x.tabs = b.tabs /\ x.kept = b.kept /\ x.pane = b.pane /\ b.sent \subseteq x.sent
  BY <1>6, FetchFacts
<1>8. CASE left \in c.tabs \ {d} /\ c.kept[left] = Blank
  <2>1. left \in Tabs
    BY <1>2, <1>8 DEF Editor, EditorType
  <2>2. Makes(c, x)
    BY <1>2, <2>1, DropTabMakes DEF b
  <2>3. g = x
    BY <1>8
  <2> HIDE DEF x, g
  <2>4. g \in EditorType /\ d \in Tabs
    BY <1>2, <2>2, <2>3 DEF Makes, Editor, EditorType
  <2>5. /\ h.active = d /\ h.pane = g.pane /\ h.shown = (IF HasText(g) THEN g.kept[d] ELSE g.shown)
        /\ h.tabs = g.tabs /\ h.sent = g.sent /\ h.kept = g.kept
    BY <2>4 DEF EditorType
  <2> HIDE DEF h
  <2>6. h \in Editor
    BY <1>1, SwitchMakes DEF Makes
  <2>7. QED
    BY <1>1, <1>2, <1>3, <1>5, <1>7, <1>8, <2>3, <2>5, <2>6 DEF HasText
<1>9. CASE ~(left \in c.tabs \ {d} /\ c.kept[left] = Blank)
  <2>1. g = c
    BY <1>9
  <2> HIDE DEF g
  <2>2. g \in EditorType
    BY <1>2, <2>1 DEF Editor
  <2>3. /\ h.active = d /\ h.pane = g.pane /\ h.shown = (IF HasText(g) THEN g.kept[d] ELSE g.shown)
        /\ h.tabs = g.tabs /\ h.sent = g.sent /\ h.kept = g.kept
    BY <2>2 DEF EditorType
  <2> HIDE DEF h
  <2>4. h \in Editor
    BY <1>1, SwitchMakes DEF Makes
  <2>5. QED
    BY <1>1, <1>2, <1>3, <2>1, <2>3, <2>4 DEF HasText
<1>10. QED
  BY <1>8, <1>9

LEMMA HoldsTransitive ==
    ASSUME NEW e, NEW f, NEW g, Holds(e, f), Holds(f, g) PROVE Holds(e, g)
BY DEF Holds

LEMMA BlankHasNothing == \A x : x \notin Blank.edits
BY DEF Blank

\* closePanel() keeps the screen in the tab of the active document.
LEMMA ClosePanelHolds ==
    ASSUME NEW e \in Editor, NEW down \in BOOLEAN,
           e.active \in e.tabs /\ e.pane = "open" => e.kept[e.active].edits \subseteq e.shown.edits
    PROVE  Holds(e, closePanel(e, down))
<1> DEFINE f == closePanel(e, down)
<1>1. /\ f.shown = e.shown /\ f.tabs = e.tabs /\ f.sent = e.sent
      /\ f.pane = IF e.pane = "open" THEN "closing" ELSE e.pane
      /\ f.kept = IF e.pane = "open" /\ e.active \in e.tabs
                  THEN [e.kept EXCEPT ![e.active] = e.shown] ELSE e.kept
  BY ClosePanelMakes
<1>2. e.tabs \subseteq Tabs /\ e.kept \in [Tabs -> Text]
  BY DEF Editor, EditorType
<1> HIDE DEF f
<1>3. \A t \in e.tabs : f.kept[t] = IF e.pane = "open" /\ t = e.active THEN e.shown ELSE e.kept[t]
  BY <1>1, <1>2
<1>4. Holds(e, f)
  BY <1>1, <1>3 DEF Holds, InHand, HasText
<1>5. QED
  BY <1>4 DEF f

LEMMA CloseAwayHolds ==
    ASSUME NEW e \in Editor,
           e.active \in e.tabs /\ e.pane = "open" => e.kept[e.active].edits \subseteq e.shown.edits
    PROVE  Holds(e, closePanel(e, FALSE))
<1> DEFINE down == FALSE
<1>1. down \in BOOLEAN /\ closePanel(e, FALSE) = closePanel(e, down)
  OBVIOUS
<1> HIDE DEF down
<1>2. QED
  BY <1>1, ClosePanelHolds

\* switchToDoc() moves the screen to its tab: only a text without a tab is left behind.
LEMMA SwitchHolds ==
    ASSUME NEW e \in Editor, ~e.diff.on, HasText(e), NEW d,
           e.active \in e.tabs => e.kept[e.active].edits \subseteq e.shown.edits,
           e.active \notin e.tabs /\ d \in e.tabs =>
              \A x \in e.shown.edits :
                 \/ \E t \in e.tabs : x \in e.kept[t].edits
                 \/ \E r \in e.sent : Waiting(r) /\ x \in r.text.edits
    PROVE  Holds(e, switchToDoc(e, d))
<1>1. CASE d \notin e.tabs
  BY <1>1 DEF switchToDoc, Holds
<1>2. CASE d \in e.tabs
  <2> DEFINE f == switchToDoc(e, d)
  <2>1. /\ d \in f.tabs /\ e.sent \subseteq f.sent
        /\ \A t \in e.tabs \ f.tabs : f.kept[t] = Blank
        /\ \A t \in Tabs : f.kept[t] = IF t = e.active /\ t \in e.tabs
                                       THEN e.shown ELSE e.kept[t]
    BY <1>2, SwitchFacts
  <2>2. e.tabs \subseteq Tabs
    BY DEF Editor, EditorType
  <2> HIDE DEF f
  <2>3. ASSUME NEW t \in e.tabs, NEW x \in f.kept[t].edits
        PROVE  InHand(f, x)
    BY <2>1, <2>3, BlankHasNothing DEF InHand
  <2>4. ASSUME NEW t \in e.tabs, NEW x \in e.kept[t].edits
        PROVE  InHand(f, x)
    BY <2>1, <2>2, <2>3, <2>4
  <2>5. ASSUME NEW r \in e.sent, Waiting(r), NEW x \in r.text.edits
        PROVE  InHand(f, x)
    BY <2>1, <2>5 DEF InHand
  <2>6. ASSUME NEW x \in e.shown.edits
        PROVE  InHand(f, x)
    <3>1. CASE e.active \in e.tabs
      BY <2>1, <2>2, <2>3, <2>6, <3>1
    <3>2. CASE e.active \notin e.tabs
      BY <1>2, <2>4, <2>5, <2>6, <3>2
    <3>3. QED
      BY <3>1, <3>2
  <2>7. Holds(e, f)
    BY <2>4, <2>5, <2>6 DEF Holds, InHand
  <2>8. QED
    BY <2>7 DEF f
<1>3. QED
  BY <1>1, <1>2

\* A document shown from a settled editor, whose panel may have to be opened first.
LEMMA ShowHolds ==
    ASSUME NEW e \in Editor, SettledEditor(e), e.active \in e.tabs <=> HasText(e), NEW d
    PROVE  Holds(e, switchToDoc(openPanel(e), d))
<1> DEFINE o == openPanel(e)
<1>1. /\ o \in Editor /\ o.pane = "open" /\ o.diff = e.diff /\ o.tabs = e.tabs
      /\ o.sent = e.sent /\ o.kept = e.kept
      /\ o.active = (IF e.pane = "open" \/ e.tabs # {} THEN e.active ELSE NoDoc)
      /\ o.shown = (IF e.pane = "open" THEN e.shown ELSE Blank)
  BY OpenPanelMakes DEF Makes
<1>2. e.pane \in {"none", "open"} /\ NoDoc \notin e.tabs
  BY DEF SettledEditor, Editor, EditorType, Tabs
<1> HIDE DEF o
<1>3. Holds(e, o)
  BY <1>1, <1>2 DEF Holds, InHand, HasText
<1>4. HasText(o) /\ ~o.diff.on
  BY <1>1 DEF HasText, SettledEditor
<1>5. o.active \in o.tabs => o.kept[o.active].edits \subseteq o.shown.edits
  BY <1>1, <1>2 DEF SettledEditor, HasText
<1>6. o.active \notin o.tabs => \A x : x \notin o.shown.edits
  BY <1>1, <1>2, BlankHasNothing DEF HasText
<1>7. Holds(o, switchToDoc(o, d))
  BY <1>1, <1>4, <1>5, <1>6, SwitchHolds
<1>8. QED
  BY <1>3, <1>7, HoldsTransitive DEF o

\* The document of an answer that replaces no tab with words of its own.  A text that has
\* no tab stays if it is carried over to the new document.
LEMMA AnswerHolds ==
    ASSUME NEW e \in Editor, SettledEditor(e), e.active \in e.tabs => HasText(e),
           NEW d \in Tabs, NEW text \in Text, d \notin e.tabs \/ (d = e.active /\ HasText(e))
    PROVE  LET o == openPanel(addDocToTabs(e, d, text))
               f == switchToDoc(o, d)
           IN  /\ (HasText(e) => e.active \in e.tabs) \/ o.shown = Blank => Holds(e, f)
               /\ Holds(e, [f EXCEPT !.shown = o.shown, !.kept[d] = o.shown])
<1> DEFINE a == addDocToTabs(e, d, text)
           o == openPanel(a)
           f == switchToDoc(o, d)
           h == [f EXCEPT !.shown = o.shown, !.kept[d] = o.shown]
<1>1. /\ a \in Editor /\ a.active = e.active /\ a.pane = e.pane /\ a.shown = e.shown
      /\ a.diff = e.diff /\ a.tabs = e.tabs \cup {d} /\ a.sent = e.sent
      /\ \A t \in Tabs : a.kept[t] = IF t = d THEN text ELSE e.kept[t]
  BY AddTabMakes
<1> HIDE DEF a
<1>2. /\ o \in Editor /\ o.active = e.active /\ o.pane = "open" /\ o.diff = e.diff
      /\ o.shown = (IF e.pane = "open" THEN e.shown ELSE Blank)
      /\ o.tabs = e.tabs \cup {d} /\ o.sent = e.sent
      /\ \A t \in Tabs : o.kept[t] = IF t = d THEN text ELSE e.kept[t]
  BY <1>1, OpenPanelMakes DEF Makes
<1> HIDE DEF o
<1>3. HasText(o) /\ ~o.diff.on /\ d \in o.tabs
  BY <1>2 DEF HasText, SettledEditor
<1>4. /\ f \in Editor /\ f.active = d /\ f.pane = o.pane /\ f.shown = f.kept[d]
      /\ d \in f.tabs /\ o.sent \subseteq f.sent
      /\ \A t \in o.tabs \ f.tabs : f.kept[t] = Blank
      /\ \A t \in Tabs : f.kept[t] = IF t = o.active /\ t \in o.tabs THEN o.shown ELSE o.kept[t]
  BY <1>2, <1>3, SwitchFacts
<1> HIDE DEF f
<1>5. e.tabs \subseteq Tabs /\ f \in EditorType /\ o.shown \in Text
  BY <1>2, <1>4 DEF Editor, EditorType
<1>6. /\ h.pane = f.pane /\ h.shown = o.shown /\ h.tabs = f.tabs /\ h.sent = f.sent
      /\ \A t \in Tabs : h.kept[t] = IF t = d THEN o.shown ELSE f.kept[t]
  BY <1>5 DEF EditorType
<1> HIDE DEF h
<1>7. e.pane = "open" <=> HasText(e)
  BY DEF SettledEditor, HasText, Editor, EditorType
<1>8. ASSUME NEW r \in e.sent, Waiting(r), NEW x \in r.text.edits
      PROVE  InHand(f, x) /\ InHand(h, x)
  BY <1>2, <1>4, <1>6, <1>8 DEF InHand
<1>9. ASSUME NEW t \in e.tabs, t # e.active, NEW x \in e.kept[t].edits
      PROVE  InHand(f, x) /\ InHand(h, x)
  <2>1. t # d /\ t \in Tabs /\ t \in o.tabs
    BY <1>2, <1>5, <1>9
  <2>2. f.kept[t] = e.kept[t] /\ h.kept[t] = e.kept[t]
    BY <1>2, <1>4, <1>6, <1>9, <2>1
  <2>3. t \in f.tabs
    BY <1>4, <1>9, <2>1, <2>2, BlankHasNothing
  <2>4. QED
    BY <1>6, <1>9, <2>2, <2>3 DEF InHand
<1>10. ASSUME HasText(e), NEW x \in e.shown.edits
       PROVE  InHand(h, x) /\ (e.active \in e.tabs => InHand(f, x))
  <2>1. o.shown = e.shown
    BY <1>2, <1>7, <1>10
  <2>2. InHand(h, x)
    BY <1>2, <1>4, <1>6, <1>10, <2>1 DEF InHand, HasText
  <2>3. ASSUME e.active \in e.tabs PROVE InHand(f, x)
    <3>1. f.kept[e.active] = e.shown
      BY <1>2, <1>4, <1>5, <2>1, <2>3
    <3>2. e.active \in f.tabs
      BY <1>2, <1>4, <1>10, <2>3, <3>1, BlankHasNothing
    <3>3. QED
      BY <1>10, <3>1, <3>2 DEF InHand
  <2>4. QED
    BY <2>2, <2>3
<1>11. ASSUME NEW x, InHand(e, x)
       PROVE  /\ InHand(h, x)
              /\ (HasText(e) => e.active \in e.tabs) \/ o.shown = Blank => InHand(f, x)
  <2>1. CASE \E r \in e.sent : Waiting(r) /\ x \in r.text.edits
    BY <1>8, <2>1
  <2>2. CASE \E t \in e.tabs : t # e.active /\ x \in e.kept[t].edits
    BY <1>9, <2>2
  <2>3. CASE e.active \in e.tabs /\ x \in e.kept[e.active].edits
    <3>1. HasText(e) /\ x \in e.shown.edits
      BY <2>3 DEF SettledEditor
    <3>2. QED
      BY <1>10, <2>3, <3>1
  <2>4. CASE HasText(e) /\ x \in e.shown.edits
    <3>1. o.shown # Blank
      BY <1>2, <1>7, <2>4, BlankHasNothing
    <3>2. QED
      BY <1>10, <2>4, <3>1
  <2>5. QED
    BY <1>11, <2>1, <2>2, <2>3, <2>4 DEF InHand
<1>12. /\ (HasText(e) => e.active \in e.tabs) \/ o.shown = Blank => Holds(e, f)
       /\ Holds(e, h)
  BY <1>11 DEF Holds
<1>13. QED
  BY <1>12 DEF h, f, o, a

\* The answer to a request holds no text of its own any more.
LEMMA GotHolds ==
    ASSUME DocInv, NEW r \in ed.sent, r.served, SettledEditor(ed)
    PROVE  LET e == Got(r)
           IN  /\ Holds(ed, e) /\ e \in Editor /\ SettledEditor(e)
               /\ e.active = ed.active /\ e.tabs = ed.tabs /\ (HasText(e) <=> HasText(ed))
<1> DEFINE e == Got(r)
<1>1. /\ Makes(ed, e)
      /\ e.active = ed.active /\ e.pane = ed.pane /\ e.shown = ed.shown
      /\ e.diff = ed.diff /\ e.tabs = ed.tabs /\ e.kept = ed.kept
      /\ e.sent = ed.sent \ {r}
  BY GotMakes
<1> HIDE DEF e
<1>2. Holds(ed, e)
  BY <1>1 DEF Holds, InHand, HasText, Waiting
<1>3. SettledEditor(e)
  BY <1>1 DEF SettledEditor, HasText
<1>4. QED
  BY <1>1, <1>2, <1>3 DEF Makes, HasText, e

LEMMA NewDocumentHolds ==
    ASSUME DocInv, NewDocument PROVE Holds(ed, ed')
<1> DEFINE a == [ed EXCEPT !.creating = TRUE]
<1>1. \E s, notes : ed' = Fetch(a, "create", NoDoc, s, Blank, notes)
  BY DEF NewDocument, Commit
<1>2. a \in EditorType
  BY DEF DocInv, Editor, EditorType
<1>3. /\ a.pane = ed.pane /\ a.shown = ed.shown /\ a.tabs = ed.tabs /\ a.sent = ed.sent
      /\ a.kept = ed.kept
  BY DEF DocInv, Editor, EditorType
<1> HIDE DEF a
<1>4. a \in Editor /\ Holds(ed, a)
  BY <1>2, <1>3 DEF DocInv, Editor, Holds, InHand, HasText
<1>5. \A s, notes : Holds(a, Fetch(a, "create", NoDoc, s, Blank, notes))
  BY <1>4, FetchHolds
<1>6. QED
  BY <1>1, <1>4, <1>5, HoldsTransitive

\* closePanel() starts from a settled editor.
LEMMA SettledCloses ==
    ASSUME NEW e \in Editor, SettledEditor(e), NEW down \in BOOLEAN
    PROVE  Holds(e, closePanel(e, down)) /\ Holds(e, closePanel(e, FALSE))
<1>1. e.active \in e.tabs /\ e.pane = "open" => e.kept[e.active].edits \subseteq e.shown.edits
  BY DEF SettledEditor, HasText
<1>2. QED
  BY <1>1, ClosePanelHolds, CloseAwayHolds

\* What is typed after the request stays on the screen.
LEMMA AutoCreateReplyHolds ==
    ASSUME DocInv, SettledEditor(ed), NEW r \in ed.sent, ~Overwrites(r), AutoCreateReply(r)
    PROVE  Holds(ed, ed')
<1> DEFINE e == Got(r)
           a == addDocToTabs(e, r.doc, r.text)
           h == [a EXCEPT !.active = r.doc, !.autoCreating = FALSE]
<1>1. r.kind = "auto" /\ r.served /\ ed' = h
  BY DEF AutoCreateReply, Commit
<1>2. r.doc \in Tabs /\ r.text \in Text
  BY <1>1, GotMakes DEF Shaped, Request, Tabs
<1>3. /\ Holds(ed, e) /\ e \in Editor /\ SettledEditor(e)
      /\ e.active = ed.active /\ e.tabs = ed.tabs /\ (HasText(e) <=> HasText(ed))
  BY <1>1, GotHolds
<1> HIDE DEF e
<1>4. /\ a \in Editor /\ a.pane = e.pane /\ a.shown = e.shown /\ a.sent = e.sent
      /\ a.tabs = e.tabs \cup {r.doc}
      /\ \A t \in Tabs : a.kept[t] = IF t = r.doc THEN r.text ELSE e.kept[t]
  BY <1>2, <1>3, AddTabMakes
<1> HIDE DEF a
<1>5. /\ h.pane = a.pane /\ h.shown = a.shown /\ h.sent = a.sent /\ h.tabs = a.tabs
      /\ h.kept = a.kept
  BY <1>2, <1>4 DEF Editor, EditorType
<1> HIDE DEF h
<1>6. e.tabs \subseteq Tabs
  BY <1>3 DEF Editor, EditorType
<1>7. r.doc \notin e.tabs \/ (r.doc = e.active /\ HasText(e))
  BY <1>3 DEF Overwrites
<1>8. Holds(e, h)
  <2>1. CASE r.doc \notin e.tabs
    BY <1>4, <1>5, <1>6, <2>1 DEF Holds, InHand, HasText
  <2>2. CASE r.doc \in e.tabs
    <3>1. HasText(e) /\ e.kept[r.doc].edits \subseteq e.shown.edits
      BY <1>3, <1>7, <2>2 DEF SettledEditor
    <3>2. QED
      BY <1>4, <1>5, <1>6, <3>1 DEF Holds, InHand, HasText
  <2>3. QED
    BY <2>1, <2>2
<1>9. QED
  BY <1>1, <1>3, <1>8, HoldsTransitive

LEMMA CreateReplyHolds ==
    ASSUME DocInv, SettledEditor(ed), NEW r \in ed.sent, ~Overwrites(r), CreateReply(r),
           ed.active \in ed.tabs => HasText(ed),
           "empty" \in r.notes \/ (HasText(ed) => ed.active \in ed.tabs)
    PROVE  Holds(ed, ed')
<1> DEFINE g == Got(r)
           c == [g EXCEPT !.creating = FALSE]
           o == openPanel(addDocToTabs(c, r.doc, r.text))
           f == switchToDoc(o, r.doc)
           h == [f EXCEPT !.shown = o.shown, !.kept[r.doc] = o.shown]
           carried == "empty" \in r.notes /\ o.shown # Blank
<1>1. /\ r.kind = "create" /\ r.served
      /\ (~carried /\ ed' = f) \/ (carried /\ ed' = h)
  BY DEF CreateReply, Commit
<1>2. r.doc \in Tabs /\ r.text \in Text
  BY <1>1, GotMakes DEF Shaped, Request, Tabs
<1>3. /\ Holds(ed, g) /\ g \in Editor /\ SettledEditor(g)
      /\ g.active = ed.active /\ g.tabs = ed.tabs /\ (HasText(g) <=> HasText(ed))
  BY <1>1, GotHolds
<1> HIDE DEF g
<1>4. c \in EditorType
  BY <1>3 DEF Editor, EditorType
<1>5. /\ c.active = g.active /\ c.pane = g.pane /\ c.shown = g.shown /\ c.diff = g.diff
      /\ c.tabs = g.tabs /\ c.sent = g.sent /\ c.kept = g.kept
  BY <1>3 DEF Editor, EditorType
<1> HIDE DEF c
<1>6. /\ c \in Editor /\ Holds(g, c) /\ SettledEditor(c)
      /\ c.active = ed.active /\ c.tabs = ed.tabs /\ (HasText(c) <=> HasText(ed))
  BY <1>3, <1>4, <1>5 DEF Editor, Holds, InHand, HasText, SettledEditor
<1>7. r.doc \notin c.tabs \/ (r.doc = c.active /\ HasText(c))
  BY <1>6 DEF Overwrites
<1>8. c.active \in c.tabs => HasText(c)
  BY <1>6
<1>9. /\ (HasText(c) => c.active \in c.tabs) \/ o.shown = Blank => Holds(c, f)
      /\ Holds(c, h)
  BY <1>2, <1>6, <1>7, <1>8, AnswerHolds
<1> HIDE DEF f, h, o
<1>10. Holds(c, ed')
  BY <1>1, <1>6, <1>9
<1>11. QED
  BY <1>3, <1>6, <1>10, HoldsTransitive

LEMMA OpenReplyHolds ==
    ASSUME DocInv, SettledEditor(ed), NEW r \in ed.sent, ~Overwrites(r), OpenReply(r),
           ed.active \in ed.tabs <=> HasText(ed)
    PROVE  Holds(ed, ed')
<1> DEFINE g == Got(r)
           o == openPanel(addDocToTabs(g, r.doc, r.text))
           f == switchToDoc(o, r.doc)
<1>1. r.kind = "open" /\ r.served /\ ed' = f
  BY DEF OpenReply, Commit
<1>2. r.doc \in Tabs /\ r.text \in Text
  BY <1>1, GotMakes DEF Shaped, Request, Tabs
<1>3. /\ Holds(ed, g) /\ g \in Editor /\ SettledEditor(g)
      /\ g.active = ed.active /\ g.tabs = ed.tabs /\ (HasText(g) <=> HasText(ed))
  BY <1>1, GotHolds
<1> HIDE DEF g
<1>4. r.doc \notin g.tabs \/ (r.doc = g.active /\ HasText(g))
  BY <1>3 DEF Overwrites
<1>5. Holds(g, f)
  BY <1>2, <1>3, <1>4, AnswerHolds
<1>6. QED
  BY <1>1, <1>3, <1>5, HoldsTransitive

\* The chip, the list of documents and the tab bar show a document the same way.
LEMMA ShowStepHolds ==
    ASSUME DocInv, SettledEditor(ed), ed.active \in ed.tabs <=> HasText(ed)
    PROVE  /\ RestoreChip => Holds(ed, ed')
           /\ \A d \in Tabs : SwitchTab(d) => Holds(ed, ed')
           /\ \A d \in Docs : OpenDocument(d) => Holds(ed, ed')
<1>1. \A d : Holds(ed, switchToDoc(openPanel(ed), d))
  BY ShowHolds DEF DocInv
<1>2. RestoreChip => Holds(ed, ed')
  BY <1>1 DEF RestoreChip, Commit
<1>3. ASSUME NEW d \in Tabs, SwitchTab(d) PROVE Holds(ed, ed')
  <2>1. openPanel(ed) = ed /\ ed' = switchToDoc(ed, d)
    BY <1>3 DEF SwitchTab, Commit, openPanel
  <2>2. QED
    BY <1>1, <2>1
<1>4. ASSUME NEW d \in Docs, OpenDocument(d) PROVE Holds(ed, ed')
  <2>1. Holds(ed, Fetch(ed, "open", d, NoSession, Blank, {}))
    BY FetchHolds DEF DocInv
  <2>2. QED
    BY <1>1, <1>4, <2>1 DEF OpenDocument, Commit
<1>5. QED
  BY <1>2, <1>3, <1>4

\* The active tab is closed: its text is in the save that is sent, or there was none.
LEMMA CloseTabHolds ==
    ASSUME DocInv, SettledEditor(ed), ed.active \in ed.tabs, HasText(ed), CloseTab(ed.active)
    PROVE  Holds(ed, ed')
<1> DEFINE d == ed.active
           c == saveCurrentToMap(ed)
           s == saveDocument(c)
           q == Fetch(c, "delete", d, NoSession, Blank, {})
           k == IF c.kept[d] # Blank THEN s ELSE q
           f == [k EXCEPT !.tabs = @ \ {d}]
           n == [f EXCEPT !.active = NoDoc]
<1>1. ed' = closePanel(n, FALSE) \/ \E m : ed' = switchToDoc(f, m)
  <2>1. detachDocFromSession(c, d) = f
    BY DEF detachDocFromSession
  <2> HIDE DEF f, c
  <2>2. QED
    BY <2>1 DEF CloseTab, Commit, c
<1>2. /\ c \in Editor /\ c.active = d /\ c.pane = ed.pane /\ c.shown = ed.shown
      /\ c.tabs = ed.tabs /\ c.diff = ed.diff /\ c.sent = ed.sent
  BY SaveCurrentFacts, SaveCurrentMakes DEF Makes, DocInv
<1>3. \A t \in Tabs : c.kept[t] = IF t = d THEN ed.shown ELSE ed.kept[t]
  BY SaveCurrentKept DEF DocInv
<1>4. d \in Tabs /\ ed.tabs \subseteq Tabs /\ d # NoDoc
  BY DEF DocInv, Editor, EditorType, Tabs
<1>5. ed.pane = "open" /\ ~ed.diff.on /\ ed.kept[d].edits \subseteq ed.shown.edits
  BY DEF SettledEditor, CloseTab
<1> HIDE DEF c, d
<1>6. /\ k \in Editor /\ k.active = d /\ k.pane = "open" /\ k.shown = ed.shown /\ ~k.diff.on
      /\ k.tabs = ed.tabs /\ ed.sent \subseteq k.sent
      /\ \A t \in Tabs : k.kept[t] = IF t = d THEN ed.shown ELSE ed.kept[t]
      /\ \A x \in ed.shown.edits : \E r \in k.sent : Waiting(r) /\ x \in r.text.edits
  <2>1. CASE c.kept[d] # Blank
    <3>1. k = s /\ c.active # NoDoc /\ HasText(c)
      BY <1>2, <1>4, <1>5, <2>1 DEF HasText
    <3>2. /\ s \in Editor
          /\ s.active = c.active /\ s.pane = c.pane /\ s.shown = c.shown /\ s.tabs = c.tabs
          /\ s.diff = c.diff /\ c.sent \subseteq s.sent
          /\ \E r \in s.sent : Waiting(r) /\ r.text = c.shown
          /\ \A t \in Tabs : s.kept[t] = IF t = c.active /\ t \in c.tabs
                                         THEN c.shown ELSE c.kept[t]
      BY <1>2, <3>1, SaveFacts
    <3> HIDE DEF k, s
    <3>3. QED
      BY <1>2, <1>3, <1>5, <3>1, <3>2
  <2>2. CASE c.kept[d] = Blank
    <3>1. k = q /\ ed.shown = Blank
      BY <1>3, <1>4, <2>2
    <3>2. /\ q.active = c.active /\ q.pane = c.pane /\ q.shown = c.shown /\ q.diff = c.diff
          /\ q.tabs = c.tabs /\ q.kept = c.kept /\ c.sent \subseteq q.sent
      BY <1>2, FetchFacts
    <3>3. q \in Editor
      <4>1. "delete" \in Kinds
        BY DEF Kinds
      <4> DEFINE r == [kind |-> "delete", doc |-> d, session |-> NoSession, text |-> Blank,
                       notes |-> {}, served |-> FALSE]
      <4>2. Shaped(r)
        BY <1>4 DEF Shaped
      <4>3. QED
        BY <1>2, <1>4, <4>1, <4>2, FetchMakes, BlankText, BlankIsOwn DEF Makes
    <3> HIDE DEF k, q
    <3>4. QED
      BY <1>2, <1>3, <1>5, <3>1, <3>2, <3>3, BlankHasNothing
  <2>3. QED
    BY <2>1, <2>2
<1> HIDE DEF k
<1>7. f \in EditorType
  BY <1>6 DEF Editor, EditorType
<1>8. /\ f.active = d /\ f.pane = "open" /\ f.shown = ed.shown /\ f.diff = k.diff
      /\ f.tabs = ed.tabs \ {d} /\ f.sent = k.sent /\ f.kept = k.kept
  BY <1>6 DEF Editor, EditorType
<1> HIDE DEF f
<1>9. f \in Editor
  BY <1>6, <1>7, <1>8 DEF Editor
<1>10. Holds(ed, f)
  <2>1. ASSUME NEW x, InHand(ed, x) PROVE InHand(f, x)
    <3>1. CASE x \in ed.shown.edits
      BY <1>6, <1>8, <3>1 DEF InHand
    <3>2. CASE \E t \in ed.tabs : t # d /\ x \in ed.kept[t].edits
      BY <1>4, <1>6, <1>8, <3>2 DEF InHand
    <3>3. CASE x \in ed.kept[d].edits
      BY <1>5, <3>1, <3>3
    <3>4. CASE \E r \in ed.sent : Waiting(r) /\ x \in r.text.edits
      BY <1>6, <1>8, <3>4 DEF InHand
    <3>5. QED
      BY <2>1, <3>1, <3>2, <3>3, <3>4 DEF InHand
  <2>2. QED
    BY <2>1 DEF Holds
<1>11. CASE \E m : ed' = switchToDoc(f, m)
  <2>1. PICK m : ed' = switchToDoc(f, m)
    BY <1>11
  <2>2. HasText(f) /\ ~f.diff.on /\ f.active \notin f.tabs
    BY <1>6, <1>8 DEF HasText
  <2>3. Holds(f, ed')
    BY <1>6, <1>8, <1>9, <2>1, <2>2, SwitchHolds
  <2>4. QED
    BY <1>10, <2>3, HoldsTransitive
<1>12. CASE ed' = closePanel(n, FALSE)
  <2>1. n \in EditorType
    BY <1>7 DEF EditorType
  <2>2. /\ n.active = NoDoc /\ n.pane = f.pane /\ n.shown = f.shown /\ n.tabs = f.tabs
        /\ n.sent = f.sent /\ n.kept = f.kept
    BY <1>7 DEF EditorType
  <2> HIDE DEF n
  <2>3. n \in Editor /\ Holds(f, n)
    BY <1>9, <2>1, <2>2 DEF Editor, Holds, InHand, HasText
  <2>4. n.active \notin n.tabs
    BY <1>4, <1>8, <2>2 DEF Tabs
  <2>5. Holds(n, ed')
    BY <1>12, <2>3, <2>4, CloseAwayHolds
  <2>6. QED
    BY <1>10, <2>3, <2>5, HoldsTransitive
<1>13. QED
  BY <1>1, <1>11, <1>12

\* A step that moves between documents, sessions or panel states keeps what is in hand.
LEMMA NavigationHolds ==
    ASSUME DocInv, Settled, Navigation
    PROVE  Holds(ed, ed') /\ stored' = stored
<1>1. SettledEditor(ed) /\ ed \in Editor
  BY SettledIs DEF DocInv
<1>2. stored' = stored
  BY DEF Navigation, NewDocument, AutosaveTimer, SaveNow, SelectSession, ClosePanel,
     AutoCreateReply, CreateReply, RestoreChip, SwitchTab, CloseTab, OpenDocument, OpenReply,
     Acted, Quiet
<1>3. CASE NewDocument
  BY <1>2, <1>3, NewDocumentHolds
<1>4. CASE AutosaveTimer \/ SaveNow
  BY <1>1, <1>2, <1>4, SaveHolds DEF AutosaveTimer, SaveNow, Commit
<1>5. ASSUME NEW s \in Sessions, SelectSession(s) PROVE Holds(ed, ed')
  <2>1. Holds(ed, closePanel(ed, FALSE)) /\ Holds(ed, ed)
    BY <1>1, SettledCloses DEF Holds
  <2>2. QED
    BY <1>5, <2>1 DEF SelectSession, Commit
<1>6. ASSUME NEW down \in BOOLEAN, ClosePanel(down) PROVE Holds(ed, ed')
  BY <1>1, <1>6, SettledCloses DEF ClosePanel, Commit
<1>7. ASSUME NEW r \in ed.sent, ~Overwrites(r), AutoCreateReply(r) PROVE Holds(ed, ed')
  BY <1>1, <1>7, AutoCreateReplyHolds
<1>8. ASSUME NEW r \in ed.sent, ~Overwrites(r), CreateReply(r), "empty" \in r.notes,
             ed.active \in ed.tabs => HasText(ed)
      PROVE  Holds(ed, ed')
  BY <1>1, <1>8, CreateReplyHolds
<1>9. ASSUME ed.active \in ed.tabs <=> HasText(ed)
      PROVE  /\ RestoreChip => Holds(ed, ed')
             /\ \A d \in Tabs : SwitchTab(d) => Holds(ed, ed')
             /\ \A d \in Tabs : d = ed.active /\ CloseTab(d) => Holds(ed, ed')
             /\ \A d \in Docs : OpenDocument(d) => Holds(ed, ed')
             /\ \A r \in ed.sent : ~Overwrites(r) /\ (CreateReply(r) \/ OpenReply(r))
                                     => Holds(ed, ed')
  <2>1. ASSUME CloseTab(ed.active) PROVE Holds(ed, ed')
    <3>1. HasText(ed)
      BY <2>1 DEF CloseTab, HasText
    <3>2. QED
      BY <1>1, <1>9, <2>1, <3>1, CloseTabHolds
  <2>2. ASSUME NEW r \in ed.sent, ~Overwrites(r), CreateReply(r) PROVE Holds(ed, ed')
    BY <1>1, <1>9, <2>2, CreateReplyHolds
  <2>3. ASSUME NEW r \in ed.sent, ~Overwrites(r), OpenReply(r) PROVE Holds(ed, ed')
    BY <1>1, <1>9, <2>3, OpenReplyHolds
  <2>4. QED
    BY <1>1, <1>9, <2>1, <2>2, <2>3, ShowStepHolds
<1>10. Holds(ed, ed')
  BY <1>3, <1>4, <1>5, <1>6, <1>7, <1>8, <1>9 DEF Navigation
<1>11. QED
  BY <1>2, <1>10

\* Moving between documents, sessions and panel states of a settled editor drops no word
\* the user typed: saveCurrentToMap(), saveDocument() and the text carried over by
\* createDocument() keep each of them in hand.
THEOREM EditsKept == Spec => NavigationKeepsEdits
<1>1. DocInv => [Settled /\ Navigation => typed \cap Held \subseteq Held']_vars
  BY NavigationHolds, HoldsKeeps
<1>2. QED
  BY <1>1, EditorInvariant, PTL DEF NavigationKeepsEdits

=============================================================================
