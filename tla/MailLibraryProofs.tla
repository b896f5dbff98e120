--------------------------- MODULE MailLibraryProofs ---------------------------
(***************************************************************************)
(* Proofs about MailLibrary, for any accounts, folders, messages, width    *)
(* and number of inputs.                                                   *)
(***************************************************************************)
EXTENDS MailLibrary, FiniteSetTheorems, TLAPS

CachesOK(s) ==
    \A v \in Views : /\ s.memory[v] # None => \A r \in s.memory[v] : r[1] = v
                     /\ s.session[v] # None => \A r \in s.session[v] : r[1] = v

CallsOK(s) ==
    /\ \A c \in s.calls : c.seq <= s.seq /\ \A r \in c.rows : r[1] = c.view
    /\ \A c \in s.calls, d \in s.calls : c.seq = d.seq => c = d

\* What holds of the library when the view has just been changed
Loose(s) ==
    /\ s \in LibType
    /\ \A r \in s.list : r[1] = s.rendered
    /\ CachesOK(s)
    /\ CallsOK(s)

\* Rows and selection are those of the view, and a foreign list stands beside no cached one
OfView(s) ==
    /\ \A r \in s.list \cup s.selected : r[1] = View(s) \/ s.moved
    /\ s.list # {} /\ s.rendered # View(s) => s.memory[View(s)] = None

\* A call that still counts was made for the view, unless a folder answer moved it
CurrentOK(s) ==
    \A c \in s.calls : c.seq = s.seq /\ c.view # View(s) =>
        s.moved /\ s.memory[View(s)] = None /\ c.view[1] = s.account

Spinning(s) ==
    s.grid = "spinner" => \E c \in s.calls : c.seq = s.seq /\ c.view[1] = s.account /\ ~c.kept

Sound(s) == Loose(s) /\ OfView(s) /\ CurrentOK(s) /\ Spinning(s)

SameView(s, t) == t.account = s.account /\ t.folder = s.folder /\ t.moved = s.moved
SameList(s, t) == t.list = s.list /\ t.rendered = s.rendered /\ t.grid = s.grid
SameCaches(s, t) == t.memory = s.memory /\ t.session = s.session
SameCalls(s, t) == t.seq = s.seq /\ t.calls = s.calls
SameChoice(s, t) == t.selected = s.selected /\ t.generation = s.generation

Agree(s, t) ==
    t \in LibType /\ SameView(s, t) /\ SameList(s, t) /\ SameCaches(s, t) /\ SameCalls(s, t)
        /\ SameChoice(s, t)

----------------------------------------------------------------------------
(* What each update of the record changes.                                 *)

LEMMA PaintFields ==
    ASSUME NEW s \in LibType, NEW key \in Views, NEW rows \in SUBSET Rows
    PROVE  LET t == Paint(s, key, rows) IN
           /\ t \in LibType /\ SameView(s, t) /\ SameCaches(s, t) /\ SameCalls(s, t)
           /\ SameChoice(s, t) /\ t.list = rows /\ t.rendered = key /\ t.grid = "rows"
<1>1. Paint(s, key, rows) \in LibType
  BY DEF Paint, LibType
<1>2. QED
  BY <1>1 DEF Paint, LibType, SameView, SameCaches, SameCalls, SameChoice

LEMMA BlankFields ==
    ASSUME NEW s \in LibType, NEW key \in Views
    PROVE  LET t == Blank(s, key) IN
           /\ t \in LibType /\ SameView(s, t) /\ SameCaches(s, t) /\ SameCalls(s, t)
           /\ SameChoice(s, t) /\ t.list = {} /\ t.rendered = key /\ t.grid = "spinner"
<1>1. Blank(s, key) \in LibType
  BY DEF Blank, LibType
<1>2. QED
  BY <1>1 DEF Blank, LibType, SameView, SameCaches, SameCalls, SameChoice

LEMMA LeaveViewFields ==
    ASSUME NEW s \in LibType
    PROVE  LET t == LeaveView(s) IN
           /\ t \in LibType /\ SameList(s, t) /\ SameCaches(s, t)
           /\ t.account = s.account /\ t.folder = s.folder /\ t.moved = FALSE
           /\ t.seq = s.seq + 1 /\ t.calls = s.calls
           /\ t.selected = {} /\ t.generation = s.generation + 1
<1>1. s.seq + 1 \in Nat /\ s.generation + 1 \in Nat
  BY DEF LibType
<1>2. LeaveView(s) \in LibType
  BY <1>1 DEF LeaveView, LibType
<1>3. QED
  BY <1>2 DEF LeaveView, LibType, SameList, SameCaches

LEMMA NextLoadFields ==
    ASSUME NEW s \in LibType, NEW kept \in BOOLEAN
    PROVE  LET t == NextLoad(s, kept) IN
           /\ t \in LibType /\ SameView(s, t) /\ SameCaches(s, t) /\ SameChoice(s, t)
           /\ t.seq = s.seq + 1 /\ t.calls = s.calls
           /\ t.list = s.list /\ t.rendered = s.rendered
           /\ t.grid = IF kept THEN "rows" ELSE "spinner"
<1>1. s.seq + 1 \in Nat
  BY DEF LibType
<1>2. NextLoad(s, kept) \in LibType
  BY <1>1 DEF NextLoad, LibType
<1>3. QED
  BY <1>2 DEF NextLoad, LibType, SameView, SameCaches, SameChoice

LEMMA SendFields ==
    ASSUME NEW s \in LibType, NEW c \in ListCall
    PROVE  LET t == Send(s, c) IN
           /\ t \in LibType /\ SameView(s, t) /\ SameList(s, t) /\ SameCaches(s, t)
           /\ SameChoice(s, t) /\ t.seq = s.seq /\ t.calls = s.calls \cup {c}
<1>1. Send(s, c) \in LibType
  BY DEF Send, LibType
<1>2. QED
  BY <1>1 DEF Send, LibType, SameView, SameList, SameCaches, SameChoice

LEMMA DoneFields ==
    ASSUME NEW s \in LibType, NEW c
    PROVE  LET t == Done(s, c) IN
           /\ t \in LibType /\ SameView(s, t) /\ SameList(s, t) /\ SameCaches(s, t)
           /\ SameChoice(s, t) /\ t.seq = s.seq /\ t.calls = s.calls \ {c}
<1>1. Done(s, c) \in LibType
  BY DEF Done, LibType
<1>2. QED
  BY <1>1 DEF Done, LibType, SameView, SameList, SameCaches, SameChoice

LEMMA CachePutFields ==
    ASSUME NEW s \in LibType, NEW key \in Views, NEW rows \in SUBSET Rows
    PROVE  LET t == CachePut(s, key, rows) IN
           /\ t \in LibType /\ SameView(s, t) /\ SameList(s, t) /\ SameCalls(s, t)
           /\ SameChoice(s, t)
           /\ t.memory[key] = rows /\ t.session[key] = rows
           /\ \A v \in Views \ {key} : t.memory[v] = s.memory[v] /\ t.session[v] = s.session[v]
<1>1. CachePut(s, key, rows) \in LibType
  BY DEF CachePut, LibType, Cache
<1>2. QED
  BY <1>1 DEF CachePut, LibType, Cache, SameView, SameList, SameCalls, SameChoice

LEMMA ReadFields ==
    ASSUME NEW s \in LibType, NEW key \in Views, NEW fresh \in BOOLEAN
    PROVE  LET t == CacheRead(s, key, fresh) IN
           /\ Found(s, key, fresh) \in {None} \cup SUBSET Rows
           /\ t \in LibType /\ SameView(s, t) /\ SameList(s, t) /\ SameCalls(s, t)
           /\ SameChoice(s, t)
           /\ t.memory[key] = Found(s, key, fresh)
           /\ t.session[key] \in {s.session[key], None}
           /\ \A v \in Views \ {key} : t.memory[v] = s.memory[v] /\ t.session[v] = s.session[v]
<1>1. /\ s.memory[key] \in {None} \cup SUBSET Rows
      /\ s.session[key] \in {None} \cup SUBSET Rows
  BY DEF LibType, Cache
<1>2. Found(s, key, fresh) \in {None} \cup SUBSET Rows
  BY <1>1 DEF Found
<1>3. CacheRead(s, key, fresh) \in LibType
  BY <1>1, <1>2 DEF CacheRead, LibType, Cache
<1>4. QED
  BY <1>2, <1>3 DEF CacheRead, LibType, Cache, SameView, SameList, SameCalls, SameChoice

LEMMA InAccountFields ==
    ASSUME NEW s \in LibType, NEW a \in Accounts
    PROVE  LET t == InAccount(s, a) IN
           /\ t \in LibType /\ SameList(s, t) /\ SameCaches(s, t) /\ SameCalls(s, t)
           /\ SameChoice(s, t)
<1>1. InAccount(s, a) \in LibType
  BY DEF InAccount, LibType
<1>2. QED
  BY <1>1 DEF InAccount, LibType, SameList, SameCaches, SameCalls, SameChoice

LEMMA InFolderFields ==
    ASSUME NEW s \in LibType, NEW f \in Folders
    PROVE  LET t == InFolder(s, f) IN
           /\ t \in LibType /\ SameList(s, t) /\ SameCaches(s, t) /\ SameCalls(s, t)
           /\ SameChoice(s, t)
<1>1. InFolder(s, f) \in LibType
  BY DEF InFolder, LibType
<1>2. QED
  BY <1>1 DEF InFolder, LibType, SameList, SameCaches, SameCalls, SameChoice

LEMMA OpenedFields ==
    ASSUME NEW s \in LibType, NEW v \in Views
    PROVE  LET t == Opened(s, v) IN
           /\ t \in LibType /\ SameCaches(s, t) /\ SameCalls(s, t)
           /\ t.rendered = s.rendered /\ t.list = {} /\ t.selected = {} /\ t.moved = FALSE
           /\ t.generation = s.generation + 1
<1>1. v[1] \in Accounts /\ v[2] \in Folders
  BY DEF Views
<1>2. s.generation + 1 \in Nat
  BY DEF LibType
<1>3. Opened(s, v) \in LibType
  BY <1>1, <1>2 DEF Opened, LibType
<1>4. QED
  BY <1>3 DEF Opened, LibType, SameCaches, SameCalls

LEMMA MoveToInboxFields ==
    ASSUME NEW s \in LibType
    PROVE  LET t == MoveToInbox(s) IN
           /\ t \in LibType /\ SameList(s, t) /\ SameCalls(s, t) /\ SameChoice(s, t)
           /\ t.account = s.account /\ t.folder = Inbox /\ t.session = s.session
           /\ t.moved = (s.moved \/ s.folder # Inbox)
           /\ \A v \in Views : t.memory[v] = None
<1>1. Inbox \in Folders
  BY MailAssumption
<1>2. NoCache \in Cache /\ \A v \in Views : NoCache[v] = None
  BY DEF NoCache, Cache
<1>3. MoveToInbox(s) \in LibType
  BY <1>1, <1>2 DEF MoveToInbox, LibType
<1>4. QED
  BY <1>2, <1>3 DEF MoveToInbox, LibType, SameList, SameCalls, SameChoice

\* Folder and account requests come and go beside everything else.
LEMMA FolderCalls ==
    ASSUME NEW s \in LibType
    PROVE  /\ \A reset \in BOOLEAN : Agree(s, LoadFolders(s, reset))
           /\ \A a : Agree(s, GotAccounts(s, a))
           /\ \A c : Agree(s, GotFolders(s, c))
<1>1. ASSUME NEW reset \in BOOLEAN PROVE Agree(s, LoadFolders(s, reset))
  <2>1. /\ s.folderSeq + 1 \in Nat
        /\ [seq |-> s.folderSeq + 1, account |-> s.account, reset |-> reset]
             \in [seq : Nat, account : Accounts, reset : BOOLEAN]
    BY DEF LibType
  <2>2. LoadFolders(s, reset) \in LibType
    BY <2>1 DEF LoadFolders, LibType
  <2>3. QED
    BY <2>2 DEF LoadFolders, LibType, Agree, SameView, SameList, SameCaches, SameCalls, SameChoice
<1>2. ASSUME NEW a PROVE Agree(s, GotAccounts(s, a))
  <2>1. GotAccounts(s, a) \in LibType
    BY DEF GotAccounts, LibType
  <2>2. QED
    BY <2>1 DEF GotAccounts, LibType, Agree, SameView, SameList, SameCaches, SameCalls, SameChoice
<1>3. ASSUME NEW c PROVE Agree(s, GotFolders(s, c))
  <2>1. GotFolders(s, c) \in LibType
    BY DEF GotFolders, LibType
  <2>2. QED
    BY <2>1 DEF GotFolders, LibType, Agree, SameView, SameList, SameCaches, SameCalls, SameChoice
<1>4. QED
  BY <1>1, <1>2, <1>3

----------------------------------------------------------------------------
(* The list and the caches: what _resetEmailListForFreshLoad and           *)
(* _loadEmails make of a library whose view has just been changed.         *)

LEMMA AgreeOK ==
    ASSUME NEW s \in LibType, NEW t, Agree(s, t)
    PROVE  /\ Loose(s) => Loose(t)
           /\ OfView(s) => OfView(t)
           /\ Sound(s) => Sound(t)
<1>1. Loose(s) => Loose(t)
  BY DEF Agree, SameView, SameList, SameCaches, SameCalls, Loose, CachesOK, CallsOK
<1>2. OfView(s) => OfView(t)
  BY DEF Agree, SameView, SameList, SameCaches, SameChoice, OfView, View
<1>3. CurrentOK(s) => CurrentOK(t)
  BY DEF Agree, SameView, SameCaches, SameCalls, CurrentOK, View
<1>4. Spinning(s) => Spinning(t)
  BY DEF Agree, SameView, SameList, SameCalls, Spinning
<1>5. QED
  BY <1>1, <1>2, <1>3, <1>4 DEF Sound

LEMMA ViewIsView ==
    ASSUME NEW s \in LibType
    PROVE  View(s) \in Views /\ View(s)[1] = s.account
BY DEF View, Views, LibType

LEMMA PaintOK ==
    ASSUME NEW s, Loose(s), NEW key \in Views, NEW rows \in SUBSET Rows,
           \A r \in rows : r[1] = key
    PROVE  Loose(Paint(s, key, rows))
<1>1. s \in LibType
  BY DEF Loose
<1>2. QED
  BY <1>1, PaintFields DEF Loose, CachesOK, CallsOK, SameCaches, SameCalls

LEMMA ReadOK ==
    ASSUME NEW s, Loose(s), NEW key \in Views, NEW fresh \in BOOLEAN
    PROVE  /\ Loose(CacheRead(s, key, fresh))
           /\ Found(s, key, fresh) # None => /\ Found(s, key, fresh) \in SUBSET Rows
                                             /\ \A r \in Found(s, key, fresh) : r[1] = key
<1>1. s \in LibType
  BY DEF Loose
<1>2. Found(s, key, fresh) # None => /\ Found(s, key, fresh) \in SUBSET Rows
                                     /\ \A r \in Found(s, key, fresh) : r[1] = key
  <2>1. Found(s, key, fresh) # None => Found(s, key, fresh) \in SUBSET Rows
    BY <1>1, ReadFields
  <2>2. Found(s, key, fresh) # None => Found(s, key, fresh) \in {s.memory[key], s.session[key]}
    BY DEF Found
  <2>3. QED
    BY <2>1, <2>2 DEF Loose, CachesOK
<1>3. CachesOK(CacheRead(s, key, fresh))
  <2>1. ASSUME NEW v \in Views, v # key
        PROVE  /\ CacheRead(s, key, fresh).memory[v] = s.memory[v]
               /\ CacheRead(s, key, fresh).session[v] = s.session[v]
    BY <1>1, <2>1, ReadFields
  <2>2. /\ CacheRead(s, key, fresh).memory[key] = Found(s, key, fresh)
        /\ CacheRead(s, key, fresh).session[key] \in {s.session[key], None}
    BY <1>1, ReadFields
  <2>3. QED
    BY <1>2, <2>1, <2>2 DEF Loose, CachesOK
<1>4. QED
  BY <1>1, <1>2, <1>3, ReadFields DEF Loose, CallsOK, SameList, SameCalls

LEMMA LeaveViewOK ==
    ASSUME NEW s, Loose(s)
    PROVE  Loose(LeaveView(s)) /\ View(LeaveView(s)) = View(s)
<1>1. s \in LibType /\ s.seq \in Nat
  BY DEF Loose, LibType
<1>2. \A c \in s.calls : c.seq \in Nat
  BY <1>1 DEF LibType, ListCall
<1>3. CallsOK(LeaveView(s))
  <2>1. LeaveView(s).seq = s.seq + 1 /\ LeaveView(s).calls = s.calls
    BY <1>1, LeaveViewFields
  <2>2. /\ \A c \in s.calls : c.seq <= s.seq /\ \A r \in c.rows : r[1] = c.view
        /\ \A c \in s.calls, d \in s.calls : c.seq = d.seq => c = d
    BY DEF Loose, CallsOK
  <2>3. ASSUME NEW c \in s.calls PROVE c.seq <= s.seq + 1
    BY <1>1, <1>2, <2>2
  <2>4. QED
    BY <2>1, <2>2, <2>3 DEF CallsOK
<1>4. QED
  BY <1>1, <1>3, LeaveViewFields, ZenonT(60) DEF Loose, CachesOK, SameList, SameCaches, View

\* After the reset the rows are those of the view, or there are none, and nothing is selected.
LEMMA ResetOK ==
    ASSUME NEW s, Loose(s), NEW useCache \in BOOLEAN, NEW fresh \in BOOLEAN
    PROVE  LET t == ResetList(s, useCache, fresh) IN Loose(t) /\ OfView(t)
<1> DEFINE key == View(s)
           hit == IF useCache THEN Found(s, key, fresh) ELSE None
           m == IF useCache THEN CacheRead(s, key, fresh) ELSE s
           t == LeaveView(m)
<1>1. s \in LibType /\ key \in Views
  BY ViewIsView DEF Loose
<1>2. /\ Loose(m) /\ m \in LibType /\ View(m) = key
      /\ m.list = s.list /\ m.rendered = s.rendered
  BY <1>1, ReadOK, ReadFields DEF Loose, View, SameView, SameList
<1>3. hit # None => hit \in SUBSET Rows /\ \A r \in hit : r[1] = key
  BY <1>1, ReadOK
<1> HIDE DEF m, hit, key
<1>4. /\ Loose(t) /\ t \in LibType /\ View(t) = key
      /\ t.list = s.list /\ t.rendered = s.rendered /\ t.selected = {}
  BY <1>2, LeaveViewOK, LeaveViewFields DEF SameList
<1> HIDE DEF t
<1>5. ASSUME NEW rows \in SUBSET Rows, \A r \in rows : r[1] = key
      PROVE  Loose(Paint(t, key, rows)) /\ OfView(Paint(t, key, rows))
  <2>1. Loose(Paint(t, key, rows))
    BY <1>1, <1>4, <1>5, PaintOK
  <2>2. /\ View(Paint(t, key, rows)) = key /\ Paint(t, key, rows).list = rows
        /\ Paint(t, key, rows).rendered = key /\ Paint(t, key, rows).selected = {}
    BY <1>1, <1>4, PaintFields DEF View, SameView, SameChoice
  <2>3. QED
    BY <1>5, <2>1, <2>2 DEF OfView
<1>6. Loose(Blank(t, key)) /\ OfView(Blank(t, key))
  <2>1. /\ View(Blank(t, key)) = key /\ Blank(t, key).list = {} /\ Blank(t, key).selected = {}
    BY <1>1, <1>4, BlankFields DEF View, SameView, SameChoice
  <2>2. Loose(Blank(t, key))
    BY <1>1, <1>4, BlankFields DEF Loose, CachesOK, CallsOK, SameCaches, SameCalls
  <2>3. QED
    BY <2>1, <2>2 DEF OfView
<1>7. s.list # {} /\ s.rendered = key => s.list \in SUBSET Rows /\ \A r \in s.list : r[1] = key
  BY DEF Loose, LibType
<1>8. ResetList(s, useCache, fresh) =
        IF hit \notin {None, {}} THEN Paint(t, key, hit)
        ELSE IF s.list # {} /\ s.rendered = key THEN Paint(t, key, s.list)
        ELSE Blank(t, key)
  BY DEF ResetList, t, m, hit, key
<1>9. QED
  BY <1>3, <1>5, <1>6, <1>7, <1>8

\* A load leaves the library sound: an older call no longer counts, and the spinner comes
\* with the call that ends it.
LEMMA LoadOK ==
    ASSUME NEW s, Loose(s), OfView(s),
           NEW force \in BOOLEAN, NEW useCache \in BOOLEAN, NEW fresh \in BOOLEAN
    PROVE  Sound(Load(s, force, useCache, fresh))
<1> DEFINE key == View(s)
           hit == IF useCache THEN Found(s, key, fresh) ELSE None
           kept == hit # None \/ s.list # {}
           m == IF useCache THEN CacheRead(s, key, fresh) ELSE s
           t == NextLoad(m, kept)
           call == [seq |-> t.seq, view |-> key, fast |-> hit = None /\ ~force,
                    forced |-> force, kept |-> kept, served |-> FALSE, rows |-> {}]
           asked == IF hit # None /\ ~force THEN t ELSE Send(t, call)
<1>1. s \in LibType /\ key \in Views /\ s.seq \in Nat /\ \A c \in s.calls : c.seq \in Nat
  <2>1. s \in LibType
    BY DEF Loose
  <2>2. QED
    BY <2>1, ViewIsView DEF LibType, ListCall
<1>2. /\ Loose(m) /\ m \in LibType /\ View(m) = key /\ m.moved = s.moved
      /\ m.list = s.list /\ m.rendered = s.rendered /\ m.selected = s.selected
      /\ m.seq = s.seq /\ m.calls = s.calls
  <2>1. CASE useCache
    <3>1. Loose(m) /\ m \in LibType
      BY <1>1, <2>1, ReadOK, ReadFields
    <3>2. SameView(s, m) /\ SameList(s, m) /\ SameCalls(s, m) /\ SameChoice(s, m)
      BY <1>1, <2>1, ReadFields
    <3> HIDE DEF m
    <3>3. QED
      BY <3>1, <3>2 DEF View, SameView, SameList, SameCalls, SameChoice
  <2>2. CASE ~useCache
    BY <1>1, <2>2
  <2>3. QED
    BY <2>1, <2>2
<1>3. hit # None => hit \in SUBSET Rows /\ \A r \in hit : r[1] = key
  BY <1>1, ReadOK
<1>4. hit = None => m.memory[key] = None \/ m.memory = s.memory
  BY <1>1, ReadFields
<1>5. kept \in BOOLEAN /\ (hit = None => kept = (s.list # {}))
  OBVIOUS
<1> HIDE DEF m, hit, key, kept
<1>6. /\ t \in LibType /\ View(t) = key /\ t.moved = s.moved
      /\ t.list = s.list /\ t.rendered = s.rendered /\ t.selected = s.selected
      /\ t.memory = m.memory /\ t.session = m.session
      /\ t.seq = s.seq + 1 /\ t.calls = s.calls /\ t.grid = IF kept THEN "rows" ELSE "spinner"
  <2>1. /\ t \in LibType /\ SameView(m, t) /\ SameCaches(m, t) /\ SameChoice(m, t)
        /\ t.seq = m.seq + 1 /\ t.calls = m.calls
        /\ t.list = m.list /\ t.rendered = m.rendered
        /\ t.grid = IF kept THEN "rows" ELSE "spinner"
    BY <1>2, <1>5, NextLoadFields
  <2> HIDE DEF t
  <2>2. QED
    BY <1>2, <2>1 DEF View, SameView, SameCaches, SameChoice
<1> HIDE DEF t
<1>7. \A c \in s.calls : c.seq < t.seq /\ \A r \in c.rows : r[1] = c.view
  BY <1>1, <1>6 DEF Loose, CallsOK
<1>8. Loose(t)
  BY <1>1, <1>2, <1>6, <1>7 DEF Loose, CachesOK, CallsOK
<1>9. call \in ListCall
  BY <1>1, <1>5, <1>6 DEF LibType, ListCall
<1>10. call.seq = t.seq /\ call.view = key /\ call.kept = kept /\ call.rows = {}
  OBVIOUS
<1> HIDE DEF call
<1>11. /\ asked \in LibType /\ View(asked) = key /\ asked.moved = s.moved
       /\ asked.list = s.list /\ asked.rendered = s.rendered /\ asked.selected = s.selected
       /\ asked.memory = m.memory /\ asked.session = m.session
       /\ asked.seq = t.seq /\ asked.grid = t.grid
       /\ asked.calls \subseteq s.calls \cup {call}
       /\ hit = None => call \in asked.calls
  BY <1>6, <1>9, SendFields DEF View, SameView, SameList, SameCaches, SameChoice
<1> HIDE DEF asked
<1>12. Loose(asked)
  BY <1>1, <1>6, <1>7, <1>8, <1>10, <1>11 DEF Loose, CachesOK, CallsOK
<1>13. \A c \in asked.calls : c.seq = asked.seq => c = call
  BY <1>1, <1>6, <1>7, <1>11
<1>14. Load(s, force, useCache, fresh) = IF hit # None THEN Paint(asked, key, hit) ELSE asked
  BY DEF Load, asked, call, t, m, kept, hit, key
<1>15. CASE hit # None
  <2> DEFINE p == Paint(asked, key, hit)
  <2>1. /\ Loose(p) /\ View(p) = key /\ p.list = hit /\ p.rendered = key /\ p.grid = "rows"
        /\ p.selected = s.selected /\ p.moved = s.moved /\ p.calls = asked.calls
        /\ p.seq = asked.seq
    BY <1>1, <1>3, <1>11, <1>12, <1>15, PaintOK, PaintFields
       DEF View, SameView, SameChoice, SameCalls
  <2> HIDE DEF p
  <2>2. OfView(p)
    BY <1>3, <1>15, <2>1 DEF OfView, key
  <2>3. CurrentOK(p) /\ Spinning(p)
    BY <1>10, <1>13, <2>1 DEF CurrentOK, Spinning
  <2>4. QED
    BY <1>14, <1>15, <2>1, <2>2, <2>3 DEF Sound, p
<1>16. CASE hit = None
  <2>1. OfView(asked)
    BY <1>2, <1>4, <1>11, <1>16 DEF OfView, key
  <2>2. CurrentOK(asked)
    BY <1>10, <1>11, <1>13 DEF CurrentOK
  <2>3. key[1] = asked.account
    BY <1>11, ViewIsView
  <2>4. Spinning(asked)
    BY <1>6, <1>10, <1>11, <1>16, <2>3 DEF Spinning
  <2>5. QED
    BY <1>12, <1>14, <1>16, <2>1, <2>2, <2>4 DEF Sound
<1>17. QED
  BY <1>15, <1>16

----------------------------------------------------------------------------
(* The updates the actions are made of keep the library sound.             *)

LEMMA NewViewLoose ==
    ASSUME NEW s, Loose(s)
    PROVE  /\ \A a \in Accounts : Loose(InAccount(s, a))
           /\ \A f \in Folders : Loose(InFolder(s, f))
           /\ \A v \in Views : Loose(Opened(s, v)) /\ OfView(Opened(s, v))
<1>1. s \in LibType
  BY DEF Loose
<1>2. ASSUME NEW t \in LibType, SameList(s, t), SameCaches(s, t), SameCalls(s, t)
      PROVE  Loose(t)
  BY <1>2 DEF Loose, CachesOK, CallsOK, SameList, SameCaches, SameCalls
<1>3. ASSUME NEW v \in Views PROVE Loose(Opened(s, v)) /\ OfView(Opened(s, v))
  <2> DEFINE t == Opened(s, v)
  <2>1. /\ t \in LibType /\ SameCaches(s, t) /\ SameCalls(s, t) /\ t.list = {} /\ t.selected = {}
    BY <1>1, OpenedFields
  <2> HIDE DEF t
  <2>2. Loose(t) /\ OfView(t)
    BY <2>1 DEF Loose, CachesOK, CallsOK, SameCaches, SameCalls, OfView
  <2>3. QED
    BY <2>2 DEF t
<1>4. QED
  BY <1>1, <1>2, <1>3, InAccountFields, InFolderFields

LEMMA MoveToInboxOK ==
    ASSUME NEW s, Sound(s)
    PROVE  Sound(MoveToInbox(s))
<1> DEFINE t == MoveToInbox(s)
<1>1. s \in LibType /\ Loose(s) /\ OfView(s) /\ CurrentOK(s) /\ Spinning(s)
  BY DEF Sound, Loose
<1>2. /\ t \in LibType /\ SameList(s, t) /\ SameCalls(s, t) /\ SameChoice(s, t)
      /\ t.account = s.account /\ t.folder = Inbox /\ t.session = s.session
      /\ t.moved = (s.moved \/ s.folder # Inbox)
      /\ \A v \in Views : t.memory[v] = None
  BY <1>1, MoveToInboxFields
<1> HIDE DEF t
<1>3. View(t) \in Views /\ View(s)[1] = t.account /\ (t.moved = FALSE => View(t) = View(s) /\ ~s.moved)
  BY <1>1, <1>2, ViewIsView DEF View
<1>4. t.moved \in BOOLEAN /\ t.memory[View(t)] = None
  BY <1>2, <1>3 DEF LibType
<1>5. Loose(t)
  BY <1>1, <1>2 DEF Loose, CachesOK, CallsOK, SameList, SameCalls
<1>6. OfView(t)
  BY <1>1, <1>2, <1>3, <1>4 DEF OfView, SameList, SameChoice
<1>7. CurrentOK(t)
  BY <1>1, <1>2, <1>3, <1>4 DEF CurrentOK, SameCalls
<1>8. Spinning(t)
  BY <1>1, <1>2 DEF Spinning, SameList, SameCalls
<1>9. QED
  BY <1>5, <1>6, <1>7, <1>8 DEF Sound, t

\* A call is put back after the server took its rows, or in its full form.
LEMMA ReplaceOK ==
    ASSUME NEW s, Sound(s), NEW c \in s.calls, NEW d \in ListCall,
           d.seq = c.seq, d.view = c.view, d.kept = c.kept, \A r \in d.rows : r[1] = d.view
    PROVE  Sound(Send(Done(s, c), d))
<1> DEFINE t == Send(Done(s, c), d)
<1>1. s \in LibType /\ Loose(s) /\ OfView(s) /\ CurrentOK(s) /\ Spinning(s)
  BY DEF Sound, Loose
<1>2. /\ t \in LibType /\ SameView(s, t) /\ SameList(s, t) /\ SameCaches(s, t) /\ SameChoice(s, t)
      /\ t.seq = s.seq /\ t.calls = (s.calls \ {c}) \cup {d}
  BY <1>1, DoneFields, SendFields DEF SameView, SameList, SameCaches, SameChoice
<1> HIDE DEF t
<1>3. Loose(t)
  BY <1>1, <1>2 DEF Loose, CachesOK, CallsOK, SameList, SameCaches
<1>4. OfView(t)
  BY <1>1, <1>2 DEF OfView, View, SameView, SameList, SameCaches, SameChoice
<1>5. CurrentOK(t)
  BY <1>1, <1>2 DEF CurrentOK, View, SameView, SameCaches
<1>6. Spinning(t)
  BY <1>1, <1>2 DEF Spinning, SameView, SameList
<1>7. QED
  BY <1>3, <1>4, <1>5, <1>6 DEF Sound, t

\* A call that is over was not the one the spinner waits for, or the spinner is gone.
LEMMA DoneOK ==
    ASSUME NEW s, Sound(s), NEW c \in s.calls
    PROVE  /\ Loose(Done(s, c)) /\ OfView(Done(s, c)) /\ CurrentOK(Done(s, c))
           /\ ~(c.seq = s.seq /\ c.view[1] = s.account) \/ c.kept => Sound(Done(s, c))
<1> DEFINE t == Done(s, c)
<1>1. s \in LibType /\ Loose(s) /\ OfView(s) /\ CurrentOK(s) /\ Spinning(s)
  BY DEF Sound, Loose
<1>2. /\ t \in LibType /\ SameView(s, t) /\ SameList(s, t) /\ SameCaches(s, t) /\ SameChoice(s, t)
      /\ t.seq = s.seq /\ t.calls = s.calls \ {c}
  BY <1>1, DoneFields
<1> HIDE DEF t
<1>3. Loose(t)
  BY <1>1, <1>2 DEF Loose, CachesOK, CallsOK, SameList, SameCaches
<1>4. OfView(t)
  BY <1>1, <1>2 DEF OfView, View, SameView, SameList, SameCaches, SameChoice
<1>5. CurrentOK(t)
  BY <1>1, <1>2 DEF CurrentOK, View, SameView, SameCaches
<1>6. ~(c.seq = s.seq /\ c.view[1] = s.account) \/ c.kept => Spinning(t)
  BY <1>1, <1>2 DEF Spinning, SameView, SameList
<1>7. QED
  BY <1>3, <1>4, <1>5, <1>6 DEF Sound, t

LEMMA PutOK ==
    ASSUME NEW s, Loose(s), NEW key \in Views, NEW rows \in SUBSET Rows,
           \A r \in rows : r[1] = key
    PROVE  Loose(CachePut(s, key, rows))
<1> DEFINE t == CachePut(s, key, rows)
<1>1. s \in LibType
  BY DEF Loose
<1>2. /\ t \in LibType /\ SameList(s, t) /\ SameCalls(s, t)
      /\ t.memory[key] = rows /\ t.session[key] = rows
      /\ \A v \in Views \ {key} : t.memory[v] = s.memory[v] /\ t.session[v] = s.session[v]
  BY <1>1, CachePutFields
<1> HIDE DEF t
<1>3. CachesOK(t)
  BY <1>2 DEF Loose, CachesOK
<1>4. QED
  BY <1>2, <1>3 DEF Loose, CallsOK, SameList, SameCalls, t

\* The rows of a call that still counts are painted and cached.
LEMMA AnswerOK ==
    ASSUME NEW s, Sound(s), NEW c \in s.calls, c.seq = s.seq, c.view[1] = s.account
    PROVE  Sound(CachePut(Paint(Done(s, c), c.view, c.rows), c.view, c.rows))
<1> DEFINE d == Done(s, c)
           p == Paint(d, c.view, c.rows)
           t == CachePut(p, c.view, c.rows)
<1>1. s \in LibType /\ Loose(s) /\ OfView(s) /\ CurrentOK(s)
  BY DEF Sound, Loose
<1>2. /\ c.view \in Views /\ c.rows \in SUBSET Rows /\ \A r \in c.rows : r[1] = c.view
      /\ \A e \in s.calls \ {c} : e.seq # s.seq
  BY <1>1 DEF LibType, ListCall, Loose, CallsOK
<1>3. /\ d \in LibType /\ SameView(s, d) /\ SameList(s, d) /\ SameCaches(s, d)
      /\ SameChoice(s, d) /\ d.seq = s.seq /\ d.calls = s.calls \ {c} /\ Loose(d)
  BY <1>1, DoneFields, DoneOK
<1> HIDE DEF d
<1>4. /\ p \in LibType /\ SameView(d, p) /\ SameCaches(d, p) /\ SameCalls(d, p)
      /\ SameChoice(d, p) /\ p.list = c.rows /\ p.rendered = c.view /\ p.grid = "rows"
      /\ Loose(p)
  BY <1>2, <1>3, PaintFields, PaintOK
<1> HIDE DEF p
<1>5. /\ t \in LibType /\ SameView(p, t) /\ SameList(p, t) /\ SameCalls(p, t) /\ SameChoice(p, t)
      /\ \A v \in Views \ {c.view} : t.memory[v] = p.memory[v]
      /\ Loose(t)
  BY <1>2, <1>4, CachePutFields, PutOK
<1> HIDE DEF t
<1>6. /\ View(t) = View(s) /\ View(t) \in Views /\ t.moved = s.moved
      /\ t.list = c.rows /\ t.rendered = c.view /\ t.grid = "rows"
      /\ t.selected = s.selected /\ t.seq = s.seq /\ t.calls = s.calls \ {c}
      /\ \A v \in Views \ {c.view} : t.memory[v] = s.memory[v]
  BY <1>1, <1>3, <1>4, <1>5, ViewIsView
     DEF View, SameView, SameList, SameCaches, SameCalls, SameChoice
<1>7. c.view # View(s) => s.moved /\ s.memory[View(s)] = None
  BY <1>1 DEF CurrentOK
<1>8. OfView(t)
  BY <1>1, <1>2, <1>6, <1>7 DEF OfView
<1>9. CurrentOK(t) /\ Spinning(t)
  BY <1>2, <1>6 DEF CurrentOK, Spinning
<1>10. QED
  BY <1>5, <1>8, <1>9 DEF Sound, t, p, d

\* A removal takes rows off the list and writes the rest to the cache of the view.
LEMMA WithoutOK ==
    ASSUME NEW s, Sound(s), NEW numbers, NEW kind
    PROVE  Sound(WriteBack(Without(s, numbers, kind)))
<1> DEFINE w == Without(s, numbers, kind)
<1>1. s \in LibType /\ Loose(s) /\ OfView(s) /\ CurrentOK(s)
  BY DEF Sound, Loose
<1>2. w \in LibType
  BY <1>1 DEF Without, LibType
<1>3. /\ SameView(s, w) /\ SameCaches(s, w) /\ SameCalls(s, w) /\ w.rendered = s.rendered
      /\ w.list \subseteq s.list /\ w.selected \subseteq s.selected /\ w.grid = "rows"
  BY <1>1, <1>2 DEF Without, LibType, SameView, SameCaches, SameCalls
<1> HIDE DEF w
<1>4. Sound(w)
  <2>1. Loose(w)
    BY <1>1, <1>2, <1>3 DEF Loose, CachesOK, CallsOK, SameCaches, SameCalls
  <2>2. OfView(w)
    BY <1>1, <1>3 DEF OfView, View, SameView, SameCaches
  <2>3. CurrentOK(w) /\ Spinning(w)
    BY <1>1, <1>3 DEF CurrentOK, Spinning, View, SameView, SameCaches, SameCalls
  <2>4. QED
    BY <2>1, <2>2, <2>3 DEF Sound
<1>5. CASE w.memory[View(w)] # None
  <2> DEFINE t == CachePut(w, View(w), w.list)
  <2>1. /\ Loose(w) /\ OfView(w) /\ CurrentOK(w) /\ View(w) \in Views /\ w.list \in SUBSET Rows
    BY <1>2, <1>4, ViewIsView DEF Sound, LibType
  <2>2. \A r \in w.list : r[1] = View(w)
    BY <1>5, <2>1 DEF Loose, OfView
  <2>3. /\ SameView(w, t) /\ SameList(w, t) /\ SameCalls(w, t) /\ SameChoice(w, t) /\ Loose(t)
    BY <1>2, <2>1, <2>2, CachePutFields, PutOK
  <2> HIDE DEF t
  <2>4. OfView(t) /\ CurrentOK(t) /\ Spinning(t)
    BY <1>3, <1>5, <2>1, <2>2, <2>3
       DEF OfView, CurrentOK, Spinning, View, SameView, SameList, SameCalls, SameChoice
  <2>5. WriteBack(w) = t
    BY <1>5 DEF WriteBack, t
  <2>6. QED
    BY <2>3, <2>4, <2>5 DEF Sound, w
<1>6. CASE w.memory[View(w)] = None
  BY <1>4, <1>6 DEF WriteBack, w
<1>7. QED
  BY <1>5, <1>6

----------------------------------------------------------------------------
(* The inductive invariant.                                                *)

\* A removal asks for its own rows only, and unless a folder answer had moved the view
\* before it began, these were rows of the view it began in.
Ready(j) ==
    /\ j \in Job
    /\ j.todo \subseteq j.rows /\ \A q \in j.flying : q.row \in j.rows
    /\ ~j.moved => \A r \in j.rows : r[1] = j.from
    /\ IsFiniteSet(j.flying) /\ Cardinality(j.flying) <= Width

JobOK(j) ==
    /\ Ready(j)
    /\ j.phase = "requests" <=> j.flying # {}
    /\ j.phase = "overlay" => j.todo # {}

\* What the server has cached or read of a view are rows of that view.
Lists(h, d) ==
    /\ h \in Cache /\ \A v \in Views : h[v] # None => \A r \in h[v] : r[1] = v
    /\ d \subseteq [call : ListCall, rows : SUBSET Rows]
    /\ \A p \in d : \A r \in p.rows : r[1] = p.call.view

IInv ==
    /\ Sound(lib)
    /\ Lists(held, reads)
    /\ server \subseteq Mailboxes \X Uids
    /\ \A j \in jobs : JobOK(j)
    /\ past \in Past
    /\ inputs \in 0 .. MaxInputs

LEMMA RowsOfView ==
    ASSUME server \subseteq Mailboxes \X Uids, NEW v
    PROVE  RowsOf(v) \in SUBSET Rows /\ \A r \in RowsOf(v) : r[1] = v
BY MailAssumption DEF RowsOf, Rows

LEMMA InitSound ==
    Init => IInv
<1> SUFFICES ASSUME Init PROVE IInv
  OBVIOUS
<1>1. /\ server \subseteq Mailboxes \X Uids /\ jobs = {} /\ past \in Past
      /\ inputs \in 0 .. MaxInputs
  BY MailAssumption DEF Init, Past
<1>2. /\ Begin \in Views /\ Begin = <<Begin[1], Begin[2]>>
      /\ Begin[1] \in Accounts /\ Begin[2] \in Folders
  BY MailAssumption DEF Views
<1>3. RowsOf(Begin) \in SUBSET Rows /\ \A r \in RowsOf(Begin) : r[1] = Begin
  BY <1>1, RowsOfView
<1> DEFINE c == [NoCache EXCEPT ![Begin] = RowsOf(Begin)]
<1>4. /\ c \in Cache /\ c[Begin] = RowsOf(Begin)
      /\ \A v \in Views \ {Begin} : c[v] = None
  BY <1>2, <1>3 DEF NoCache, Cache
<1>5. lib = [account |-> Begin[1], folder |-> Begin[2], list |-> RowsOf(Begin), grid |-> "rows",
             rendered |-> Begin, selected |-> {}, memory |-> c, session |-> c, generation |-> 0,
             seq |-> 0, calls |-> {}, folderSeq |-> 0, folderCalls |-> {}, accountCalls |-> {},
             moved |-> FALSE]
  BY DEF Init
<1> HIDE DEF c
<1>6. lib \in LibType
  BY <1>2, <1>3, <1>4, <1>5 DEF LibType
<1>7. /\ lib.list = RowsOf(Begin) /\ lib.rendered = Begin /\ lib.selected = {} /\ lib.calls = {}
      /\ lib.memory = c /\ lib.session = c /\ lib.grid = "rows" /\ View(lib) = Begin
  BY <1>2, <1>5 DEF View
<1>8. Loose(lib)
  BY <1>3, <1>4, <1>6, <1>7 DEF Loose, CachesOK, CallsOK
<1>9. OfView(lib) /\ CurrentOK(lib) /\ Spinning(lib)
  BY <1>3, <1>7 DEF OfView, CurrentOK, Spinning
<1>10. held = c /\ reads = {}
  BY DEF Init, c
<1>11. Lists(held, reads)
  BY <1>3, <1>4, <1>10 DEF Lists
<1>12. QED
  BY <1>1, <1>8, <1>9, <1>11 DEF IInv, Sound

----------------------------------------------------------------------------
(* The user.                                                               *)

LEMMA OpenLibrarySound ==
    ASSUME IInv, NEW v \in Views, OpenLibrary(v) PROVE Sound(lib')
<1>1. Loose(Opened(lib, v)) /\ OfView(Opened(lib, v))
  BY NewViewLoose DEF IInv, Sound
<1>2. PICK fresh \in BOOLEAN : lib' = Load(Opened(lib, v), FALSE, TRUE, fresh)
  BY DEF OpenLibrary
<1>3. QED
  BY <1>1, <1>2, LoadOK

LEMMA ResetAndLoad ==
    ASSUME NEW s, Loose(s), NEW useCache \in BOOLEAN, NEW force \in BOOLEAN, NEW fresh \in BOOLEAN
    PROVE  Sound(Load(ResetList(s, useCache, fresh), force, useCache, fresh))
<1>1. Loose(ResetList(s, useCache, fresh)) /\ OfView(ResetList(s, useCache, fresh))
  BY ResetOK
<1>2. QED
  BY <1>1, LoadOK

LEMMA ThenFolders ==
    ASSUME NEW s, Sound(s), NEW reset \in BOOLEAN
    PROVE  Sound(LoadFolders(s, reset))
<1>1. s \in LibType
  BY DEF Sound, Loose
<1>2. QED
  BY <1>1, FolderCalls, AgreeOK

LEMMA ChangeFolderSound ==
    ASSUME IInv, NEW f \in Folders, ChangeFolder(f) PROVE Sound(lib')
<1>1. Loose(InFolder(lib, f))
  BY NewViewLoose DEF IInv, Sound
<1>2. QED
  BY <1>1, ResetAndLoad DEF ChangeFolder

LEMMA ChooseAccountSound ==
    ASSUME IInv, NEW a \in Accounts, ChooseAccount(a) PROVE Sound(lib')
<1>1. Loose(InAccount(lib, a))
  BY NewViewLoose DEF IInv, Sound
<1>2. QED
  BY <1>1, ResetAndLoad, ThenFolders DEF ChooseAccount

LEMMA ChooseInSettingsSound ==
    ASSUME IInv, NEW a \in Accounts, ChooseInSettings(a) PROVE Sound(lib')
<1>1. Loose(InAccount(lib, a))
  BY NewViewLoose DEF IInv, Sound
<1>2. PICK fresh \in BOOLEAN :
        lib' = LoadFolders(Load(ResetList(InAccount(lib, a), TRUE, fresh), FALSE, TRUE, fresh), TRUE)
  BY DEF ChooseInSettings
<1>3. Sound(Load(ResetList(InAccount(lib, a), TRUE, fresh), FALSE, TRUE, fresh))
  BY <1>1, ResetAndLoad
<1>4. QED
  BY <1>2, <1>3, ThenFolders

LEMMA RefreshSound ==
    ASSUME IInv, Refresh PROVE Sound(lib')
<1>1. PICK fresh \in BOOLEAN : lib' = Load(lib, TRUE, TRUE, fresh)
  BY DEF Refresh
<1>2. QED
  BY <1>1, LoadOK DEF IInv, Sound

LEMMA SelectSound ==
    ASSUME IInv, NEW rows, Select(rows) PROVE Sound(lib')
<1>1. /\ lib \in LibType /\ Loose(lib) /\ OfView(lib) /\ CurrentOK(lib) /\ Spinning(lib)
      /\ rows \subseteq lib.list \cup lib.selected /\ lib' = [lib EXCEPT !.selected = rows]
  BY DEF IInv, Sound, Loose, Select
<1>2. lib' \in LibType
  BY <1>1 DEF LibType
<1>3. /\ SameView(lib, lib') /\ SameList(lib, lib') /\ SameCaches(lib, lib') /\ SameCalls(lib, lib')
      /\ lib'.selected = rows
  BY <1>1, <1>2 DEF LibType, SameView, SameList, SameCaches, SameCalls
<1> HIDE DEF Select
<1>4. Loose(lib')
  BY <1>1, <1>2, <1>3 DEF Loose, CachesOK, CallsOK, SameList, SameCaches, SameCalls
<1>5. OfView(lib')
  BY <1>1, <1>3 DEF OfView, View, SameView, SameList, SameCaches
<1>6. CurrentOK(lib')
  BY <1>1, <1>3 DEF CurrentOK, View, SameView, SameCaches, SameCalls
<1>7. Spinning(lib')
  BY <1>1, <1>3 DEF Spinning, SameView, SameList, SameCalls
<1>8. QED
  BY <1>4, <1>5, <1>6, <1>7 DEF Sound

----------------------------------------------------------------------------
(* The answers.                                                            *)

LEMMA CallIsCall ==
    ASSUME IInv, NEW c \in lib.calls PROVE c \in ListCall
BY DEF IInv, Sound, Loose, LibType

LEMMA FullCall ==
    ASSUME NEW c \in ListCall
    PROVE  LET d == Full(c) IN
           d \in ListCall /\ d.seq = c.seq /\ d.view = c.view /\ d.kept = c.kept /\ d.rows = {}
BY DEF Full, ListCall

\* A call is answered with rows of its view.
LEMMA AnsweredSound ==
    ASSUME IInv, NEW c \in lib.calls, NEW rows \in SUBSET Rows, \A r \in rows : r[1] = c.view
    PROVE  Sound(Answered(c, rows))
<1> DEFINE d == [c EXCEPT !.served = TRUE, !.rows = rows]
<1>1. c \in ListCall
  BY CallIsCall
<1>2. d \in ListCall /\ d.seq = c.seq /\ d.view = c.view /\ d.kept = c.kept /\ d.rows = rows
  BY <1>1 DEF ListCall
<1>3. Answered(c, rows) = Send(Done(lib, c), d)
  BY DEF Answered
<1> HIDE DEF d
<1>4. QED
  BY <1>2, <1>3, ReplaceOK DEF IInv

\* The server answers from the index or from what it has cached for the view.
LEMMA ServedRows ==
    ASSUME IInv, NEW c \in lib.calls, Serve(c)
    PROVE  \E rows \in SUBSET Rows :
             /\ lib' = Answered(c, rows) /\ \A r \in rows : r[1] = c.view
             /\ rows = RowsOf(c.view) \/ (held[c.view] # None /\ rows = held[c.view])
<1>1. c.view \in Views
  BY CallIsCall DEF ListCall
<1>2. RowsOf(c.view) \in SUBSET Rows /\ \A r \in RowsOf(c.view) : r[1] = c.view
  BY RowsOfView DEF IInv
<1>3. held[c.view] # None => held[c.view] \in SUBSET Rows /\ \A r \in held[c.view] : r[1] = c.view
  BY <1>1 DEF IInv, Lists, Cache
<1>4. QED
  BY <1>2, <1>3 DEF Serve

LEMMA ServeSound ==
    ASSUME IInv, NEW c \in lib.calls, Serve(c) PROVE Sound(lib')
BY ServedRows, AnsweredSound

\* The rows that are read are those of the mailbox.
LEMMA ReadMailboxOK ==
    ASSUME IInv, NEW c \in lib.calls, ReadMailbox(c) PROVE IInv'
<1> DEFINE p == [call |-> c, rows |-> RowsOf(c.view)]
<1>1. c \in ListCall /\ c.view \in Views
  BY CallIsCall DEF ListCall
<1>2. RowsOf(c.view) \in SUBSET Rows /\ \A r \in RowsOf(c.view) : r[1] = c.view
  BY RowsOfView DEF IInv
<1>3. p \in [call : ListCall, rows : SUBSET Rows] /\ p.call = c /\ p.rows = RowsOf(c.view)
  BY <1>1, <1>2
<1>4. reads' = reads \cup {p} /\ held' \in {held, [held EXCEPT ![c.view] = None]}
  BY DEF ReadMailbox
<1> HIDE DEF p
<1>5. Lists(held', reads')
  <2>1. Lists(held, reads)
    BY DEF IInv
  <2>2. held' \in Cache /\ \A v \in Views : held'[v] = held[v] \/ held'[v] = None
    BY <1>1, <1>4, <2>1 DEF Lists, Cache
  <2>3. QED
    BY <1>2, <1>3, <1>4, <2>1, <2>2 DEF Lists
<1>6. UNCHANGED <<lib, jobs, server, past, inputs>>
  BY DEF ReadMailbox
<1>7. QED
  BY <1>5, <1>6 DEF IInv

LEMMA PutListOK ==
    ASSUME IInv, NEW p \in reads, PutList(p) PROVE IInv'
<1>1. /\ p.call \in ListCall /\ p.call.view \in Views /\ p.rows \in SUBSET Rows
      /\ \A r \in p.rows : r[1] = p.call.view
  BY DEF IInv, Lists, ListCall
<1>2. Sound(lib')
  BY <1>1, AnsweredSound DEF PutList, IInv
<1>3. Lists(held', reads')
  <2>1. Lists(held, reads) /\ held' = [held EXCEPT ![p.call.view] = p.rows] /\ reads' = reads \ {p}
    BY DEF IInv, PutList
  <2>2. /\ held' \in Cache /\ held'[p.call.view] = p.rows
        /\ \A v \in Views \ {p.call.view} : held'[v] = held[v]
    BY <1>1, <2>1 DEF Lists, Cache
  <2>3. QED
    BY <1>1, <2>1, <2>2 DEF Lists
<1>4. past' \in Past
  BY <1>1 DEF PutList, IInv, Past
<1>5. UNCHANGED <<jobs, server, inputs>>
  BY DEF PutList
<1>6. QED
  BY <1>2, <1>3, <1>4, <1>5 DEF IInv

LEMMA FullOK ==
    ASSUME IInv, NEW c \in lib.calls PROVE Sound(Send(Done(lib, c), Full(c)))
<1>1. /\ Full(c) \in ListCall /\ Full(c).seq = c.seq /\ Full(c).view = c.view
      /\ Full(c).kept = c.kept /\ \A r \in Full(c).rows : r[1] = Full(c).view
  BY CallIsCall, FullCall
<1>2. QED
  BY <1>1, ReplaceOK DEF IInv

LEMMA ListAnswerSound ==
    ASSUME IInv, NEW c \in lib.calls, ListAnswer(c) PROVE Sound(lib')
<1> DEFINE wanted == Current(c) /\ (c.fast => c.rows # {})
<1>1. CASE wanted
  <2>1. lib' = CachePut(Paint(Done(lib, c), c.view, c.rows), c.view, c.rows)
    BY <1>1 DEF ListAnswer
  <2>2. QED
    BY <1>1, <2>1, AnswerOK DEF IInv, Current
<1>2. CASE ~wanted /\ c.fast
  <2>1. lib' = Send(Done(lib, c), Full(c))
    BY <1>2 DEF ListAnswer
  <2>2. QED
    BY <2>1, FullOK
<1>3. CASE ~wanted /\ ~c.fast
  <2>1. lib' = Done(lib, c)
    BY <1>3 DEF ListAnswer
  <2>2. ~(c.seq = lib.seq /\ c.view[1] = lib.account)
    BY <1>3 DEF Current
  <2>3. QED
    BY <2>1, <2>2, DoneOK DEF IInv
<1>4. QED
  BY <1>1, <1>2, <1>3

LEMMA ListFailsSound ==
    ASSUME IInv, NEW c \in lib.calls, ListFails(c) PROVE Sound(lib')
<1>1. CASE c.fast
  BY <1>1, FullOK DEF ListFails
<1>2. CASE ~c.fast /\ ~(Current(c) /\ ~c.kept)
  <2>1. lib' = Done(lib, c)
    BY <1>2 DEF ListFails
  <2>2. QED
    BY <1>2, <2>1, DoneOK DEF IInv, Current
<1>3. CASE ~c.fast /\ Current(c) /\ ~c.kept
  <2> DEFINE d == Done(lib, c)
  <2>1. lib' = [d EXCEPT !.grid = "error"]
    BY <1>3 DEF ListFails
  <2>2. lib \in LibType /\ Loose(d) /\ OfView(d) /\ CurrentOK(d)
    BY DoneOK DEF IInv, Sound, Loose
  <2>3. d \in LibType
    BY <2>2 DEF Loose
  <2> HIDE DEF d
  <2>4. lib' \in LibType
    BY <2>1, <2>3 DEF LibType
  <2>5. /\ SameView(d, lib') /\ SameCaches(d, lib') /\ SameCalls(d, lib') /\ SameChoice(d, lib')
        /\ lib'.list = d.list /\ lib'.rendered = d.rendered /\ lib'.grid = "error"
    BY <2>1, <2>3, <2>4 DEF LibType, SameView, SameCaches, SameCalls, SameChoice
  <2>6. Loose(lib')
    BY <2>2, <2>4, <2>5 DEF Loose, CachesOK, CallsOK, SameCaches, SameCalls
  <2>7. OfView(lib')
    BY <2>2, <2>5 DEF OfView, View, SameView, SameCaches, SameChoice
  <2>8. CurrentOK(lib') /\ Spinning(lib')
    BY <2>2, <2>5 DEF CurrentOK, Spinning, View, SameView, SameCaches, SameCalls
  <2>9. QED
    BY <2>6, <2>7, <2>8 DEF Sound
<1>4. QED
  BY <1>1, <1>2, <1>3

LEMMA AccountsAnswerSound ==
    ASSUME IInv, NEW a, AccountsAnswer(a) PROVE Sound(lib')
<1>1. PICK fresh \in BOOLEAN :
        lib' = IF a = lib.account THEN LoadFolders(GotAccounts(lib, a), FALSE)
               ELSE Load(LoadFolders(GotAccounts(lib, a), FALSE), FALSE, TRUE, fresh)
  BY DEF AccountsAnswer
<1>2. Sound(GotAccounts(lib, a))
  BY FolderCalls, AgreeOK DEF IInv, Sound, Loose
<1>3. Sound(LoadFolders(GotAccounts(lib, a), FALSE))
  BY <1>2, ThenFolders
<1>4. Loose(LoadFolders(GotAccounts(lib, a), FALSE)) /\ OfView(LoadFolders(GotAccounts(lib, a), FALSE))
  BY <1>3 DEF Sound
<1>5. QED
  BY <1>1, <1>3, <1>4, LoadOK

LEMMA FoldersAnswerSound ==
    ASSUME IInv, NEW c, FoldersAnswer(c) PROVE Sound(lib')
<1>1. Sound(GotFolders(lib, c))
  BY FolderCalls, AgreeOK DEF IInv, Sound, Loose
<1>2. lib' \in {GotFolders(lib, c), MoveToInbox(GotFolders(lib, c))}
  BY DEF FoldersAnswer
<1>3. QED
  BY <1>1, <1>2, MoveToInboxOK

----------------------------------------------------------------------------
(* Removals.                                                               *)
LEMMA RowsFinite ==
    ASSUME NEW rows \in SUBSET Rows PROVE IsFiniteSet(rows) /\ Cardinality(rows) \in Nat
<1>1. IsFiniteSet(Views)
  BY MailAssumption, FS_Product DEF Views
<1>2. IsFiniteSet(Rows)
  BY <1>1, MailAssumption, FS_Product DEF Rows
<1>3. QED
  BY <1>2, FS_Subset, FS_CardinalityType

LEMMA HereIsView ==
    ASSUME IInv PROVE Here \in Views
BY ViewIsView DEF IInv, Sound, Loose, Here

\* As many requests are added as the batch has rows.
LEMMA LaunchedOK ==
    ASSUME NEW j, Ready(j), Here \in Views, NEW b \in Batches(j), b # {} \/ j.flying # {}
    PROVE  JobOK(Launched(j, b))
<1> DEFINE flight == [r \in b |-> [row |-> r, target |-> Here, done |-> FALSE]]
           new == {[row |-> r, target |-> Here, done |-> FALSE] : r \in b}
           k == Launched(j, b)
<1>1. /\ j \in Job /\ b \in SUBSET j.todo /\ j.todo \in SUBSET Rows /\ b \in SUBSET Rows
      /\ IsFiniteSet(j.flying) /\ Cardinality(j.flying) \in Nat /\ Cardinality(j.flying) <= Width
      /\ Width \in Nat
  BY MailAssumption, FS_CardinalityType DEF Ready, Batches, Job
<1>2. IsFiniteSet(b) /\ Cardinality(b) \in Nat /\ Cardinality(j.todo) \in Nat
  BY <1>1, RowsFinite
<1>3. Cardinality(b) + Cardinality(j.flying) <= Width
  BY <1>1, <1>2 DEF Batches
<1>4. flight \in Surjection(b, new)
  BY DEF Surjection
<1>5. IsFiniteSet(new) /\ Cardinality(new) <= Cardinality(b) /\ Cardinality(new) \in Nat
  <2> HIDE DEF flight, new
  <2>1. QED
    BY <1>2, <1>4, FS_Surjection, FS_CardinalityType
<1>6. new \subseteq Flight /\ \A q \in new : q.row \in b
  <2>1. ASSUME NEW q \in new PROVE q \in Flight /\ q.row \in b
    <3>1. PICK r \in b : q = [row |-> r, target |-> Here, done |-> FALSE]
      OBVIOUS
    <3>2. r \in Rows
      BY <1>1
    <3>3. QED
      BY <3>1, <3>2 DEF Flight
  <2>2. QED
    BY <2>1
<1>7. b # {} => new # {}
  OBVIOUS
<1>8. /\ k \in Job /\ k.rows = j.rows /\ k.from = j.from /\ k.moved = j.moved
      /\ k.phase = "requests" /\ k.todo = j.todo \ b /\ k.flying = j.flying \cup new
  <2>1. k \in Job
    BY <1>1, <1>6 DEF Launched, Job
  <2>2. QED
    BY <1>1, <2>1 DEF Launched, Job
<1> HIDE DEF new, k
<1>9. IsFiniteSet(k.flying) /\ Cardinality(k.flying) <= Width
  <2>1. /\ IsFiniteSet(j.flying \cup new)
        /\ Cardinality(j.flying \cup new)
             = Cardinality(j.flying) + Cardinality(new) - Cardinality(j.flying \cap new)
        /\ Cardinality(j.flying \cap new) \in Nat
    BY <1>1, <1>5, FS_Union, FS_Intersection, FS_CardinalityType
  <2>2. QED
    BY <1>1, <1>2, <1>3, <1>5, <1>8, <2>1
<1>10. QED
  BY <1>1, <1>6, <1>7, <1>8, <1>9 DEF JobOK, Ready, k

LEMMA BatchOK ==
    ASSUME NEW j, Ready(j), j.flying = {}, j.todo # {}, NEW b \in Batches(j)
    PROVE  b # {}
<1>1. /\ IsFiniteSet(j.todo) /\ Cardinality(j.todo) \in Nat /\ Width \in Nat \ {0}
  BY MailAssumption, RowsFinite DEF Ready, Job
<1>2. Cardinality(j.todo) # 0 /\ Cardinality(j.flying) = 0
  BY <1>1, FS_EmptySet
<1>3. Cardinality(b) # 0
  BY <1>1, <1>2 DEF Batches
<1>4. QED
  BY <1>3, FS_EmptySet

\* The removals after a step of one of them.
LEMMA OneJob ==
    ASSUME IInv, NEW j, NEW k, JobOK(k), jobs' \in {jobs \ {j}, (jobs \ {j}) \cup {k}}
    PROVE  \A i \in jobs' : JobOK(i)
BY DEF IInv

LEMMA StartOK ==
    ASSUME IInv, NEW kind \in {"delete", "archive", "bulk"}, NEW rows \in SUBSET Rows, rows # {},
           \A r \in rows : r[1] = Here \/ lib.moved,
           NEW overlay \in BOOLEAN, Start(kind, rows, overlay)
    PROVE  IInv'
<1> DEFINE j == [id |-> inputs + 1, kind |-> kind, rows |-> rows, from |-> Here,
                 generation |-> lib.generation, moved |-> lib.moved,
                 phase |-> "overlay", todo |-> rows, flying |-> {}]
<1>1. /\ inputs \in 0 .. MaxInputs /\ inputs < MaxInputs /\ inputs' = inputs + 1
      /\ lib' = lib /\ server' = server /\ past' = [past EXCEPT !.tried = @ \cup rows]
      /\ held' = held /\ reads' = reads
      /\ jobs' = jobs \cup {j} \/ \E b \in Batches(j) : jobs' = jobs \cup {Launched(j, b)}
  BY DEF Start, Input, IInv
<1>2. lib.generation \in Nat /\ lib.moved \in BOOLEAN /\ Here \in Views /\ MaxInputs \in Nat
  BY HereIsView, MailAssumption DEF IInv, Sound, Loose, LibType
<1>3. inputs + 1 \in 1 .. MaxInputs /\ inputs' \in 0 .. MaxInputs
  BY <1>1, <1>2
<1>4. j \in Job
  BY <1>2, <1>3 DEF Job
<1>5. /\ j.todo = rows /\ j.rows = rows /\ j.flying = {} /\ j.phase = "overlay"
      /\ j.from = Here /\ j.moved = lib.moved
  OBVIOUS
<1> HIDE DEF j
<1>6. Ready(j) /\ JobOK(j)
  BY <1>4, <1>5, FS_EmptySet, MailAssumption DEF Ready, JobOK
<1>7. \A b \in Batches(j) : JobOK(Launched(j, b))
  BY <1>2, <1>5, <1>6, BatchOK, LaunchedOK
<1>8. \A i \in jobs' : JobOK(i)
  BY <1>1, <1>6, <1>7 DEF IInv
<1>9. past' \in Past
  BY <1>1 DEF IInv, Past
<1>10. Sound(lib') /\ Lists(held', reads')
  BY <1>1 DEF IInv
<1>11. QED
  BY <1>1, <1>3, <1>8, <1>9, <1>10 DEF IInv

LEMMA RowsShown ==
    ASSUME IInv
    PROVE  /\ lib.list \in SUBSET Rows /\ lib.selected \in SUBSET Rows
           /\ \A r \in lib.list \cup lib.selected : r[1] = Here \/ lib.moved
BY DEF IInv, Sound, Loose, OfView, LibType, Here

LEMMA RemoveOK ==
    ASSUME IInv, NEW r, Remove(r) PROVE IInv'
<1>1. /\ {r} \in SUBSET Rows /\ \A q \in {r} : q[1] = Here \/ lib.moved
      /\ Start("delete", {r}, TRUE) \/ Start("archive", {r}, FALSE)
  BY RowsShown DEF Remove
<1>2. QED
  BY <1>1, StartOK

LEMMA BulkOK ==
    ASSUME IInv, Bulk PROVE IInv'
<1>1. Start("bulk", lib.selected, TRUE) /\ lib.selected # {}
  BY DEF Bulk
<1>2. QED
  BY <1>1, RowsShown, StartOK

LEMMA OverlayShownOK ==
    ASSUME IInv, NEW j \in jobs, OverlayShown(j) PROVE \A i \in jobs' : JobOK(i)
<1>1. PICK b \in Batches(j) : jobs' = (jobs \ {j}) \cup {Launched(j, b)}
  BY DEF OverlayShown
<1>2. Ready(j) /\ j.flying = {} /\ j.todo # {}
  BY DEF OverlayShown, IInv, JobOK
<1>3. JobOK(Launched(j, b))
  BY <1>2, BatchOK, LaunchedOK, HereIsView
<1>4. QED
  BY <1>1, <1>3, OneJob

LEMMA ServerRemovesOK ==
    ASSUME IInv, NEW j \in jobs, NEW q, ServerRemoves(j, q) PROVE \A i \in jobs' : JobOK(i)
<1> DEFINE p == [q EXCEPT !.done = TRUE]
           k == [j EXCEPT !.flying = (@ \ {q}) \cup {p}]
<1>1. /\ Ready(j) /\ j \in Job /\ q \in j.flying /\ q \in Flight
      /\ j.phase = "requests"
  BY DEF ServerRemoves, IInv, JobOK, Ready, Job
<1>2. p \in Flight /\ p.row = q.row
  BY <1>1 DEF Flight
<1> HIDE DEF p
<1>3. /\ k \in Job /\ k.flying = (j.flying \ {q}) \cup {p} /\ k.todo = j.todo /\ k.rows = j.rows
      /\ k.from = j.from /\ k.moved = j.moved /\ k.phase = "requests"
  <2>1. k \in Job
    BY <1>1, <1>2 DEF Job
  <2>2. QED
    BY <1>1, <2>1 DEF Job
<1>4. jobs' = (jobs \ {j}) \cup {k}
  BY DEF ServerRemoves, p
<1> HIDE DEF k
<1>5. IsFiniteSet(k.flying) /\ Cardinality(k.flying) <= Width
  <2>1. IsFiniteSet(j.flying) /\ Cardinality(j.flying) \in Nat /\ Cardinality(j.flying) <= Width
    BY <1>1, FS_CardinalityType DEF Ready
  <2>2. IsFiniteSet(j.flying \ {q}) /\ Cardinality(j.flying \ {q}) = Cardinality(j.flying) - 1
    BY <1>1, <2>1, FS_RemoveElement
  <2>3. /\ IsFiniteSet(k.flying)
        /\ Cardinality(k.flying) \in {Cardinality(j.flying \ {q}), Cardinality(j.flying \ {q}) + 1}
    BY <1>3, <2>2, FS_AddElement
  <2>4. QED
    BY <2>1, <2>2, <2>3, MailAssumption
<1>6. JobOK(k)
  BY <1>1, <1>2, <1>3, <1>5 DEF Ready, JobOK
<1>7. QED
  BY <1>4, <1>6, OneJob

LEMMA RequestEndsOK ==
    ASSUME IInv, NEW j \in jobs, NEW q, RequestEnds(j, q) PROVE \A i \in jobs' : JobOK(i)
<1> DEFINE k == [j EXCEPT !.flying = @ \ {q}]
           over == [k EXCEPT !.phase = "animation"]
<1>1. JobOK(j) /\ Ready(j) /\ j \in Job /\ q \in j.flying
  BY DEF RequestEnds, IInv, JobOK, Ready
<1>2. /\ k \in Job /\ k.flying = j.flying \ {q} /\ k.todo = j.todo /\ k.rows = j.rows
      /\ k.from = j.from /\ k.moved = j.moved
  <2>1. k \in Job
    BY <1>1 DEF Job
  <2>2. QED
    BY <1>1, <2>1 DEF Job
<1>3. \/ \E b \in Batches(k) :
            jobs' = (jobs \ {j}) \cup {IF b = {} /\ k.flying = {} THEN over ELSE Launched(k, b)}
      \/ jobs' = jobs \ {j}
  BY DEF RequestEnds
<1> HIDE DEF k
<1>4. IsFiniteSet(k.flying) /\ Cardinality(k.flying) <= Width
  <2>1. IsFiniteSet(j.flying) /\ Cardinality(j.flying) \in Nat /\ Cardinality(j.flying) <= Width
    BY <1>1, FS_CardinalityType DEF Ready
  <2>2. IsFiniteSet(k.flying) /\ Cardinality(k.flying) = Cardinality(j.flying) - 1
    BY <1>1, <1>2, <2>1, FS_RemoveElement
  <2>3. QED
    BY <2>1, <2>2, MailAssumption
<1>5. Ready(k)
  BY <1>1, <1>2, <1>4 DEF Ready
<1>6. /\ over \in Job /\ over.flying = k.flying /\ over.todo = k.todo /\ over.rows = k.rows
      /\ over.from = k.from /\ over.moved = k.moved /\ over.phase = "animation"
  <2>1. over \in Job
    BY <1>2 DEF Job
  <2>2. QED
    BY <1>2, <2>1 DEF Job
<1> HIDE DEF over
<1>7. k.flying = {} => JobOK(over)
  BY <1>5, <1>6 DEF Ready, JobOK
<1>8. CASE jobs' = jobs \ {j}
  BY <1>8 DEF IInv
<1>9. CASE \E b \in Batches(k) :
             jobs' = (jobs \ {j}) \cup {IF b = {} /\ k.flying = {} THEN over ELSE Launched(k, b)}
  <2>1. PICK b \in Batches(k) :
          jobs' = (jobs \ {j}) \cup {IF b = {} /\ k.flying = {} THEN over ELSE Launched(k, b)}
    BY <1>9
  <2>2. CASE b = {} /\ k.flying = {}
    BY <1>7, <2>1, <2>2, OneJob
  <2>3. CASE b # {} \/ k.flying # {}
    <3>1. JobOK(Launched(k, b))
      BY <1>5, <2>3, LaunchedOK, HereIsView
    <3>2. QED
      BY <2>1, <2>3, <3>1, OneJob
  <2>4. QED
    BY <2>2, <2>3
<1>10. QED
  BY <1>3, <1>8, <1>9

LEMMA CardsGoneOK ==
    ASSUME IInv, NEW j \in jobs, CardsGone(j) PROVE IInv'
<1> DEFINE numbers == {r[2] : r \in j.rows}
<1>1. lib' = WriteBack(Without(lib, numbers, j.kind))
  BY DEF CardsGone
<1> HIDE DEF numbers
<1>2. Sound(lib')
  BY <1>1, WithoutOK DEF IInv
<1>3. /\ jobs' = jobs \ {j} /\ server' = server /\ inputs' = inputs
      /\ held' = held /\ reads' = reads
  BY DEF CardsGone
<1>4. j.rows \in SUBSET Rows
  BY DEF IInv, JobOK, Ready, Job
<1>5. past' \in Past
  <2> DEFINE strayed == past.strayed \/ ~Undisturbed(j)
             gone == IF Undisturbed(j) /\ lib.memory[Here] # None
                     THEN past.gone \cup (j.rows \ (server \cup Underway)) ELSE past.gone
  <2>1. past' = [past EXCEPT !.strayed = strayed, !.gone = gone]
    BY DEF CardsGone
  <2>2. past \in Past /\ past.gone \in SUBSET Rows
    BY DEF IInv, Past
  <2>3. strayed \in BOOLEAN /\ gone \in SUBSET Rows
    BY <1>4, <2>2
  <2> HIDE DEF strayed, gone
  <2>4. QED
    BY <2>1, <2>2, <2>3 DEF Past
<1>6. QED
  BY <1>2, <1>3, <1>5 DEF IInv

----------------------------------------------------------------------------

LEMMA NextSound ==
    IInv /\ [Next]_vars => IInv'
<1> SUFFICES ASSUME IInv, [Next]_vars PROVE IInv'
  OBVIOUS
<1>1. ASSUME Sound(lib'), UNCHANGED <<jobs, server, held, reads, past>>, inputs' \in 0 .. MaxInputs
      PROVE  IInv'
  BY <1>1 DEF IInv
<1>2. ASSUME \A i \in jobs' : JobOK(i), server' \subseteq server, Lists(held', reads'),
             UNCHANGED <<lib, past, inputs>>
      PROVE  IInv'
  BY <1>2 DEF IInv
<1>3. Input => inputs' \in 0 .. MaxInputs
  BY MailAssumption DEF IInv, Input
<1>4. CASE User
  <2>1. ASSUME NEW v \in Openings \cup {Here}, OpenLibrary(v) PROVE IInv'
    <3>1. v \in Views
      BY HereIsView, MailAssumption
    <3>2. QED
      BY <1>1, <1>3, <2>1, <3>1, OpenLibrarySound DEF OpenLibrary
  <2>2. ASSUME NEW f \in Folders, ChangeFolder(f) PROVE IInv'
    BY <1>1, <1>3, <2>2, ChangeFolderSound DEF ChangeFolder
  <2>3. ASSUME NEW a \in Accounts, ChooseAccount(a) PROVE IInv'
    BY <1>1, <1>3, <2>3, ChooseAccountSound DEF ChooseAccount
  <2>4. ASSUME NEW a \in Accounts, ChooseInSettings(a) PROVE IInv'
    BY <1>1, <1>3, <2>4, ChooseInSettingsSound DEF ChooseInSettings
  <2>5. CASE Refresh
    BY <1>1, <1>3, <2>5, RefreshSound DEF Refresh
  <2>6. ASSUME NEW rows \in SUBSET (lib.list \cup lib.selected), Select(rows) PROVE IInv'
    <3>1. UNCHANGED <<jobs, server, held, reads, past, inputs>>
      BY <2>6 DEF Select
    <3>2. inputs' \in 0 .. MaxInputs
      BY <3>1 DEF IInv
    <3>3. QED
      BY <1>1, <2>6, <3>1, <3>2, SelectSound
  <2>7. ASSUME NEW r \in lib.list, Remove(r) PROVE IInv'
    BY <2>7, RemoveOK
  <2>8. CASE Bulk
    BY <2>8, BulkOK
  <2>9. QED
    BY <1>4, <2>1, <2>2, <2>3, <2>4, <2>5, <2>6, <2>7, <2>8 DEF User
<1>5. CASE Answers
  <2>1. inputs \in 0 .. MaxInputs
    BY DEF IInv
  <2>2. ASSUME NEW c \in lib.calls, Serve(c) PROVE IInv'
    BY <1>1, <2>1, <2>2, ServeSound DEF Serve
  <2>3. ASSUME NEW c \in lib.calls, ListAnswer(c) PROVE IInv'
    BY <1>1, <2>1, <2>3, ListAnswerSound DEF ListAnswer
  <2>4. ASSUME NEW c \in lib.calls, ListFails(c) PROVE IInv'
    BY <1>1, <2>1, <2>4, ListFailsSound DEF ListFails
  <2>5. ASSUME NEW a \in lib.accountCalls, AccountsAnswer(a) PROVE IInv'
    BY <1>1, <2>1, <2>5, AccountsAnswerSound DEF AccountsAnswer
  <2>6. ASSUME NEW c \in lib.folderCalls, FoldersAnswer(c) PROVE IInv'
    BY <1>1, <2>1, <2>6, FoldersAnswerSound DEF FoldersAnswer
  <2>7. QED
    BY <1>5, <2>2, <2>3, <2>4, <2>5, <2>6, ReadMailboxOK, PutListOK DEF Answers
<1>6. ASSUME NEW j \in jobs, JobStep(j) PROVE IInv'
  <2>1. CASE OverlayShown(j)
    <3>1. UNCHANGED <<lib, server, held, reads, past, inputs>>
      BY <2>1 DEF OverlayShown
    <3>2. QED
      BY <1>2, <2>1, <3>1, OverlayShownOK DEF IInv
  <2>2. CASE CardsGone(j)
    BY <2>2, CardsGoneOK
  <2>3. ASSUME NEW q \in j.flying, ServerRemoves(j, q) PROVE IInv'
    <3>1. server' \subseteq server /\ UNCHANGED <<lib, reads, past, inputs>>
      BY <2>3 DEF ServerRemoves
    <3>2. held' \in Cache /\ \A v \in Views : held'[v] = held[v] \/ held'[v] = None
      BY <2>3 DEF ServerRemoves, IInv, Lists, Cache
    <3>3. Lists(held', reads')
      BY <3>1, <3>2 DEF IInv, Lists
    <3>4. QED
      BY <1>2, <2>3, <3>1, <3>3, ServerRemovesOK
  <2>4. ASSUME NEW q \in j.flying, RequestEnds(j, q) PROVE IInv'
    <3>1. UNCHANGED <<lib, server, held, reads, past, inputs>>
      BY <2>4 DEF RequestEnds
    <3>2. QED
      BY <1>2, <2>4, <3>1, RequestEndsOK DEF IInv
  <2>5. QED
    BY <1>6, <2>1, <2>2, <2>3, <2>4 DEF JobStep
<1>7. CASE UNCHANGED vars
  BY <1>7 DEF vars, IInv
<1>8. QED
  BY <1>4, <1>5, <1>6, <1>7 DEF Next

\* The invariant holds in every reachable state, for any accounts, folders and messages.
THEOREM MailInvariant == Spec => []IInv
BY InitSound, NextSound, PTL DEF Spec

----------------------------------------------------------------------------
(* The properties the run checks.                                          *)

LEMMA InvariantParts ==
    ASSUME IInv
    PROVE  /\ TypeOK /\ RowsOfTheirMailbox /\ WrongMailboxExplained
           /\ SpinnerHasCall
<1>1. TypeOK
  BY DEF IInv, Sound, Loose, Lists, JobOK, Ready, TypeOK
<1>2. RowsOfTheirMailbox
  BY DEF IInv, Sound, Loose, OfView, CachesOK, ListOfView, CachesOfTheirView, Here,
         RowsOfTheirMailbox
<1>3. WrongMailboxExplained
  <2>1. ASSUME NEW j \in jobs, NEW q \in j.flying PROVE q.target # q.row[1] => q.target # j.from \/ j.moved
    BY DEF IInv, JobOK, Ready
  <2>2. QED
    BY <2>1 DEF WrongMailboxExplained
<1>4. SpinnerHasCall
  BY DEF IInv, Sound, Spinning, SpinnerHasCall, Current
<1>5. QED
  BY <1>1, <1>2, <1>3, <1>4

\* The types hold: the rows shown have one mailbox, and a removal has at most Width requests
\* in flight, and some exactly until its cards go.
THEOREM MailTypeCorrect == Spec => []TypeOK
BY MailInvariant, InvariantParts, PTL

\* _loadEmails and _resetEmailListForFreshLoad never leave the rows of another mailbox under
\* the account and the folder chosen, only a folder answer does; and neither a late answer
\* nor the write-back after a removal caches rows under a foreign key.
THEOREM MailRows == Spec => []RowsOfTheirMailbox
BY MailInvariant, InvariantParts, PTL

\* A removal reaches another message than the one chosen only after a change of view.
THEOREM MailTargets == Spec => []WrongMailboxExplained
BY MailInvariant, InvariantParts, PTL

\* While the spinner is shown, a request that still counts will end it.
THEOREM MailSpinner == Spec => []SpinnerHasCall
BY MailInvariant, InvariantParts, PTL

----------------------------------------------------------------------------
(* The rows the library holds: on the screen, in the caches and in answers *)
(* under way.  Most updates only move rows between these places.           *)

Holds(s, r) ==
    \/ r \in s.list
    \/ \E c \in s.calls : r \in c.rows
    \/ \E v \in Views : \/ s.memory[v] # None /\ r \in s.memory[v]
                        \/ s.session[v] # None /\ r \in s.session[v]

\* Whatever is held for a mailbox, a list on the screen included, has all rows of K there.
Whole(s, K) ==
    /\ \A r \in K : /\ s.memory[r[1]] # None => r \in s.memory[r[1]]
                    /\ s.session[r[1]] # None => r \in s.session[r[1]]
    /\ \A c \in s.calls : c.served => \A r \in K : r[1] = c.view => r \in c.rows
    /\ s.list # {} => \A r \in K : r[1] = s.rendered => r \in s.list

\* The list is that of the view, and an empty one means an empty mailbox.
OnView(s, K) == s.rendered = View(s) /\ \A r \in K : r[1] = View(s) => r \in s.list

Copies(s, t) ==
    \A v \in Views : /\ t.memory[v] \in {None, s.memory[v], s.session[v]}
                     /\ t.session[v] \in {None, s.memory[v], s.session[v]}

Cached(s, v, rows) == rows # None /\ rows \in {s.memory[v], s.session[v]}

\* t has only what s had: copies between the caches, requests without rows, and a list that
\* is that of s, a cached one, or empty.
Reads(s, t) ==
    /\ Copies(s, t)
    /\ \A c \in t.calls : c \in s.calls \/ (~c.served /\ c.rows = {})
    /\ \/ t.list = {}
       \/ t.list = s.list /\ t.rendered = s.rendered
       \/ t.rendered \in Views /\ Cached(s, t.rendered, t.list)

LEMMA ReadsKeeps ==
    ASSUME NEW s, NEW t, Reads(s, t)
    PROVE  /\ \A r : Holds(t, r) => Holds(s, r)
           /\ \A K \in SUBSET Rows : Whole(s, K) => Whole(t, K)
<1>1. ASSUME NEW r, Holds(t, r) PROVE Holds(s, r)
  <2>1. CASE r \in t.list
    BY <2>1 DEF Reads, Cached, Holds
  <2>2. CASE \E c \in t.calls : r \in c.rows
    BY <2>2 DEF Reads, Holds
  <2>3. ASSUME NEW v \in Views, \/ t.memory[v] # None /\ r \in t.memory[v]
                                \/ t.session[v] # None /\ r \in t.session[v]
        PROVE  Holds(s, r)
    BY <2>3 DEF Reads, Copies, Holds
  <2>4. QED
    BY <1>1, <2>1, <2>2, <2>3 DEF Holds
<1>2. ASSUME NEW K \in SUBSET Rows, Whole(s, K) PROVE Whole(t, K)
  <2>1. \A r \in K : r[1] \in Views
    BY DEF Rows
  <2>2. \A r \in K : /\ t.memory[r[1]] # None => r \in t.memory[r[1]]
                     /\ t.session[r[1]] # None => r \in t.session[r[1]]
    BY <1>2, <2>1 DEF Reads, Copies, Whole
  <2>3. \A c \in t.calls : c.served => \A r \in K : r[1] = c.view => r \in c.rows
    BY <1>2 DEF Reads, Whole
  <2>4. t.list # {} => \A r \in K : r[1] = t.rendered => r \in t.list
    <3>1. CASE t.list = s.list /\ t.rendered = s.rendered
      BY <1>2, <3>1 DEF Whole
    <3>2. CASE t.rendered \in Views /\ Cached(s, t.rendered, t.list)
      BY <1>2, <3>2 DEF Whole, Cached
    <3>3. QED
      BY <3>1, <3>2 DEF Reads
  <2>5. QED
    BY <2>2, <2>3, <2>4 DEF Whole
<1>3. QED
  BY <1>1, <1>2

LEMMA ReadsTransitive ==
    ASSUME NEW s, NEW t, NEW u, Reads(s, t), Reads(t, u)
    PROVE  Reads(s, u)
<1>1. Copies(s, u)
  <2>1. ASSUME NEW v \in Views
        PROVE  /\ u.memory[v] \in {None, s.memory[v], s.session[v]}
               /\ u.session[v] \in {None, s.memory[v], s.session[v]}
    BY DEF Reads, Copies
  <2>2. QED
    BY <2>1 DEF Copies
<1>2. \A c \in u.calls : c \in s.calls \/ (~c.served /\ c.rows = {})
  BY DEF Reads
<1>3. \/ u.list = {}
      \/ u.list = s.list /\ u.rendered = s.rendered
      \/ u.rendered \in Views /\ Cached(s, u.rendered, u.list)
  <2>1. CASE u.list = t.list /\ u.rendered = t.rendered
    BY <2>1 DEF Reads
  <2>2. CASE u.rendered \in Views /\ Cached(t, u.rendered, u.list)
    BY <2>2 DEF Reads, Copies, Cached
  <2>3. QED
    BY <2>1, <2>2 DEF Reads
<1>4. QED
  BY <1>1, <1>2, <1>3 DEF Reads

LEMMA SameReads ==
    ASSUME NEW s, NEW t, SameCaches(s, t), SameCalls(s, t),
           t.list = {} \/ (t.list = s.list /\ t.rendered = s.rendered)
    PROVE  Reads(s, t)
BY DEF Reads, Copies, SameCaches, SameCalls

\* _loadEmails up to its first await: the list stays, or is a cached one of the view.
LEMMA LoadReads ==
    ASSUME NEW s \in LibType,
           NEW force \in BOOLEAN, NEW useCache \in BOOLEAN, NEW fresh \in BOOLEAN
    PROVE  LET t == Load(s, force, useCache, fresh) IN
           /\ t \in LibType /\ Reads(s, t) /\ SameView(s, t) /\ SameChoice(s, t)
           /\ \/ t.list = s.list /\ t.rendered = s.rendered
              \/ t.rendered = View(s) /\ Cached(s, View(s), t.list)
<1> DEFINE key == View(s)
           hit == IF useCache THEN Found(s, key, fresh) ELSE None
           kept == hit # None \/ s.list # {}
           m == IF useCache THEN CacheRead(s, key, fresh) ELSE s
           t == NextLoad(m, kept)
           call == [seq |-> t.seq, view |-> key, fast |-> hit = None /\ ~force,
                    forced |-> force, kept |-> kept, served |-> FALSE, rows |-> {}]
           asked == IF hit # None /\ ~force THEN t ELSE Send(t, call)
<1>1. key \in Views
  BY ViewIsView
<1>2. /\ m \in LibType /\ SameView(s, m) /\ SameList(s, m) /\ SameCalls(s, m) /\ SameChoice(s, m)
      /\ Copies(s, m)
  <2>1. CASE useCache
    <3> DEFINE n == CacheRead(s, key, fresh)
    <3>1. /\ n \in LibType /\ SameView(s, n) /\ SameList(s, n) /\ SameCalls(s, n)
          /\ SameChoice(s, n) /\ n.memory[key] = Found(s, key, fresh)
          /\ n.session[key] \in {s.session[key], None}
          /\ \A v \in Views \ {key} : n.memory[v] = s.memory[v] /\ n.session[v] = s.session[v]
      BY <1>1, ReadFields
    <3>2. Found(s, key, fresh) \in {None, s.memory[key], s.session[key]}
      BY DEF Found
    <3> HIDE DEF n
    <3>3. Copies(s, n)
      BY <3>1, <3>2 DEF Copies
    <3>4. m = n
      BY <2>1 DEF n
    <3>5. QED
      BY ONLY <3>1, <3>3, <3>4
  <2>2. CASE ~useCache
    BY <2>2 DEF SameView, SameList, SameCalls, SameChoice, Copies
  <2>3. QED
    BY <2>1, <2>2
<1>3. hit # None => Cached(s, key, hit) /\ hit \in SUBSET Rows
  BY <1>1, ReadFields DEF Found, Cached
<1>4. kept \in BOOLEAN
  OBVIOUS
<1> HIDE DEF m, hit, key, kept
<1>5. /\ t \in LibType /\ SameView(m, t) /\ SameCaches(m, t) /\ SameChoice(m, t)
      /\ t.calls = m.calls /\ t.list = m.list /\ t.rendered = m.rendered /\ t.seq \in Nat
  BY <1>2, <1>4, NextLoadFields DEF LibType
<1> HIDE DEF t
<1>6. call \in ListCall /\ ~call.served /\ call.rows = {}
  BY <1>1, <1>4, <1>5 DEF ListCall
<1> HIDE DEF call
<1>7. /\ asked \in LibType /\ SameView(t, asked) /\ SameList(t, asked) /\ SameCaches(t, asked)
      /\ SameChoice(t, asked) /\ asked.calls \subseteq t.calls \cup {call}
  BY <1>5, <1>6, SendFields DEF SameView, SameList, SameCaches, SameChoice
<1> HIDE DEF asked
<1>8. /\ SameView(s, asked) /\ SameChoice(s, asked) /\ Copies(s, asked)
      /\ asked.list = s.list /\ asked.rendered = s.rendered
      /\ \A c \in asked.calls : c \in s.calls \/ (~c.served /\ c.rows = {})
  BY <1>2, <1>5, <1>6, <1>7
     DEF SameView, SameList, SameCaches, SameCalls, SameChoice, Copies
<1>9. Load(s, force, useCache, fresh) = IF hit # None THEN Paint(asked, key, hit) ELSE asked
  BY DEF Load, asked, call, t, m, kept, hit, key
<1>10. CASE hit # None
  <2> DEFINE p == Paint(asked, key, hit)
  <2>1. /\ p \in LibType /\ SameView(asked, p) /\ SameCaches(asked, p) /\ SameCalls(asked, p)
        /\ SameChoice(asked, p) /\ p.list = hit /\ p.rendered = key
    BY <1>1, <1>3, <1>7, <1>10, PaintFields
  <2> HIDE DEF p
  <2>2. Reads(s, p)
    BY <1>1, <1>3, <1>8, <1>10, <2>1 DEF Reads, Copies, SameCaches, SameCalls
  <2>3. SameView(s, p) /\ SameChoice(s, p)
    BY <1>8, <2>1 DEF SameView, SameChoice
  <2>4. QED
    BY <1>3, <1>9, <1>10, <2>1, <2>2, <2>3 DEF p, key
<1>11. CASE hit = None
  <2>1. Reads(s, asked)
    BY <1>8 DEF Reads
  <2>2. QED
    BY <1>7, <1>8, <1>9, <1>11, <2>1
<1>12. QED
  BY <1>10, <1>11

\* _resetEmailListForFreshLoad: the view is left, and what it showed is disowned.
LEMMA ResetReads ==
    ASSUME NEW s \in LibType, NEW useCache \in BOOLEAN, NEW fresh \in BOOLEAN
    PROVE  LET t == ResetList(s, useCache, fresh) IN
           /\ t \in LibType /\ Reads(s, t)
           /\ t.selected = {} /\ t.moved = FALSE /\ t.generation = s.generation + 1
<1> DEFINE key == View(s)
           hit == IF useCache THEN Found(s, key, fresh) ELSE None
           m == IF useCache THEN CacheRead(s, key, fresh) ELSE s
           t == LeaveView(m)
<1>1. key \in Views
  BY ViewIsView
<1>2. /\ m \in LibType /\ SameList(s, m) /\ SameCalls(s, m) /\ SameChoice(s, m)
      /\ Copies(s, m)
  <2>1. CASE useCache
    <3> DEFINE n == CacheRead(s, key, fresh)
    <3>1. /\ n \in LibType /\ SameList(s, n) /\ SameCalls(s, n)
          /\ SameChoice(s, n) /\ n.memory[key] = Found(s, key, fresh)
          /\ n.session[key] \in {s.session[key], None}
          /\ \A v \in Views \ {key} : n.memory[v] = s.memory[v] /\ n.session[v] = s.session[v]
      BY <1>1, ReadFields
    <3>2. Found(s, key, fresh) \in {None, s.memory[key], s.session[key]}
      BY DEF Found
    <3> HIDE DEF n
    <3>3. Copies(s, n)
      BY <3>1, <3>2 DEF Copies
    <3>4. m = n
      BY <2>1 DEF n
    <3>5. QED
      BY ONLY <3>1, <3>3, <3>4
  <2>2. CASE ~useCache
    BY <2>2 DEF SameList, SameCalls, SameChoice, Copies
  <2>3. QED
    BY <2>1, <2>2
<1>3. hit # None => Cached(s, key, hit) /\ hit \in SUBSET Rows
  BY <1>1, ReadFields DEF Found, Cached
<1> HIDE DEF m, hit, key
<1>4. /\ t \in LibType /\ SameList(m, t) /\ SameCaches(m, t) /\ t.calls = m.calls
      /\ t.selected = {} /\ t.moved = FALSE /\ t.generation = m.generation + 1
  BY <1>2, LeaveViewFields
<1> HIDE DEF t
<1>5. /\ Copies(s, t) /\ t.calls = s.calls /\ t.list = s.list /\ t.rendered = s.rendered
      /\ t.generation = s.generation + 1
  BY <1>2, <1>4 DEF SameList, SameCalls, SameChoice, SameCaches, Copies
<1>6. ASSUME NEW rows \in SUBSET Rows,
             Cached(s, key, rows) \/ (rows = s.list /\ s.rendered = key)
      PROVE  LET p == Paint(t, key, rows) IN
             /\ p \in LibType /\ Reads(s, p)
             /\ p.selected = {} /\ p.moved = FALSE /\ p.generation = s.generation + 1
  <2> DEFINE p == Paint(t, key, rows)
  <2>1. /\ p \in LibType /\ SameView(t, p) /\ SameCaches(t, p) /\ SameCalls(t, p)
        /\ SameChoice(t, p) /\ p.list = rows /\ p.rendered = key
    BY <1>1, <1>4, PaintFields
  <2> HIDE DEF p
  <2>2. Reads(s, p)
    BY <1>1, <1>5, <1>6, <2>1 DEF Reads, Copies, SameCaches, SameCalls
  <2>3. QED
    BY <1>4, <1>5, <2>1, <2>2 DEF SameView, SameChoice, p
<1>7. LET p == Blank(t, key) IN
      /\ p \in LibType /\ Reads(s, p)
      /\ p.selected = {} /\ p.moved = FALSE /\ p.generation = s.generation + 1
  <2> DEFINE p == Blank(t, key)
  <2>1. /\ p \in LibType /\ SameView(t, p) /\ SameCaches(t, p) /\ SameCalls(t, p)
        /\ SameChoice(t, p) /\ p.list = {}
    BY <1>1, <1>4, BlankFields
  <2> HIDE DEF p
  <2>2. Reads(s, p)
    BY <1>5, <2>1 DEF Reads, Copies, SameCaches, SameCalls
  <2>3. QED
    BY <1>4, <1>5, <2>1, <2>2 DEF SameView, SameChoice, p
<1>8. ResetList(s, useCache, fresh) =
        IF hit \notin {None, {}} THEN Paint(t, key, hit)
        ELSE IF s.list # {} /\ s.rendered = key THEN Paint(t, key, s.list)
        ELSE Blank(t, key)
  BY DEF ResetList, t, m, hit, key
<1>9. s.list \in SUBSET Rows
  BY DEF LibType
<1>10. QED
  BY <1>3, <1>6, <1>7, <1>8, <1>9, ZenonT(60)

----------------------------------------------------------------------------
(* What was removed stays away, and nothing else goes away.                *)

\* Messages that are on the server and that the user never asked to remove.
Kept == server \ past.tried

\* A removal of the present generation started on the list that is shown, unless a folder
\* answer has moved the view, and then it belongs to another view.
JobOnView(j) ==
    /\ j.generation <= lib.generation /\ j.rows \subseteq past.tried
    /\ j.generation = lib.generation /\ ~j.moved =>
         IF lib.moved THEN j.from # Here ELSE j.from = Here /\ OnView(lib, Kept)

GoneInv == \A r \in past.gone : r \notin server /\ ~Holds(lib, r)

NothingLost ==
    /\ Whole(lib, Kept)
    /\ lib.selected # {} /\ ~lib.moved => OnView(lib, Kept)
    /\ \A j \in jobs : JobOnView(j)

KeptInv == (lib.moved => lib.folder = Inbox) /\ (past.strayed \/ NothingLost)

\* What the server has read or cached of a mailbox has every message of Kept there and none
\* that is gone; a cached row that the server no longer has was cached after its removal.
HeldInv ==
    /\ \A v \in Views : held[v] # None => held[v] \subseteq server \cup past.revived
    /\ \A r \in past.gone : r \notin past.revived /\ \A p \in reads : r \notin p.rows
    /\ \A r \in Kept : held[r[1]] # None => r \in held[r[1]]
    /\ \A p \in reads : \A r \in Kept : r[1] = p.call.view => r \in p.rows

RowsInv == IInv /\ GoneInv /\ KeptInv /\ HeldInv

LEMMA KeptRows ==
    ASSUME IInv PROVE Kept \in SUBSET Rows
BY MailAssumption DEF IInv, Kept, Rows

\* Fewer messages to account for.
LEMMA FewerKept ==
    ASSUME NEW K, NEW L \in SUBSET K, NEW s
    PROVE  /\ Whole(s, K) => Whole(s, L)
           /\ OnView(s, K) => OnView(s, L)
BY DEF Whole, OnView

LEMMA GenerationTyped ==
    ASSUME IInv PROVE lib.generation \in Nat /\ \A j \in jobs : j.generation \in Nat
BY DEF IInv, Sound, Loose, LibType, JobOK, Ready, Job

\* The user goes to another view: the jobs under way are of an older generation.
LEMMA NewViewStep ==
    ASSUME RowsInv, Reads(lib, lib'), lib'.generation = lib.generation + 1,
           lib'.selected = {}, lib'.moved = FALSE, UNCHANGED <<jobs, server, past>>
    PROVE  GoneInv' /\ KeptInv'
<1>1. GoneInv'
  BY ReadsKeeps DEF RowsInv, GoneInv
<1>2. CASE past.strayed
  BY <1>1, <1>2 DEF KeptInv
<1>3. CASE ~past.strayed
  <2>1. Whole(lib, Kept) /\ (\A j \in jobs : JobOnView(j)) /\ Kept' = Kept
    BY <1>3 DEF RowsInv, KeptInv, NothingLost, Kept
  <2>2. Whole(lib', Kept')
    BY <2>1, ReadsKeeps, KeptRows DEF RowsInv
  <2>3. ASSUME NEW j \in jobs PROVE JobOnView(j)'
    <3>1. j.generation \in Nat /\ lib.generation \in Nat /\ j.generation <= lib.generation
      BY <2>1, GenerationTyped DEF RowsInv, JobOnView
    <3>2. j.generation <= lib'.generation /\ j.generation # lib'.generation
      BY <3>1
    <3>3. QED
      BY <2>1, <3>2 DEF JobOnView
  <2>4. QED
    BY <1>1, <2>2, <2>3 DEF KeptInv, NothingLost
<1>4. past.strayed \in BOOLEAN
  BY DEF RowsInv, IInv, Past
<1>5. QED
  BY <1>2, <1>3, <1>4

\* The view stays.
LEMMA SameViewStep ==
    ASSUME RowsInv, \A r : Holds(lib', r) => Holds(lib, r),
           Whole(lib, Kept) => Whole(lib', Kept),
           SameView(lib, lib'), lib'.generation = lib.generation,
           Whole(lib, Kept) /\ OnView(lib, Kept) /\ ~lib.moved => OnView(lib', Kept),
           Whole(lib, Kept) /\ ~lib.moved /\ lib'.selected # {} =>
             lib.selected # {} \/ OnView(lib', Kept),
           UNCHANGED <<jobs, server, past>>
    PROVE  GoneInv' /\ KeptInv'
<1>1. GoneInv'
  BY DEF RowsInv, GoneInv
<1>2. /\ Kept' = Kept /\ Here' = Here /\ lib'.moved = lib.moved /\ lib'.folder = lib.folder
  BY DEF Kept, Here, View, SameView
<1>3. CASE past.strayed
  BY <1>1, <1>2, <1>3 DEF RowsInv, KeptInv
<1>4. CASE ~past.strayed
  <2>1. NothingLost
    BY <1>4 DEF RowsInv, KeptInv
  <2>2. Whole(lib', Kept')
    BY <1>2, <2>1 DEF NothingLost
  <2>3. (lib.selected # {} /\ ~lib.moved => OnView(lib, Kept)) /\ Whole(lib, Kept)
    BY <2>1 DEF NothingLost
  <2>4. lib'.selected # {} /\ ~lib'.moved => OnView(lib', Kept')
    BY <1>2, <2>3
  <2>5. ASSUME NEW j \in jobs PROVE JobOnView(j)'
    BY <1>2, <2>1, <2>3 DEF NothingLost, JobOnView
  <2>6. QED
    BY <1>1, <1>2, <2>2, <2>4, <2>5 DEF RowsInv, KeptInv, NothingLost
<1>5. past.strayed \in BOOLEAN
  BY DEF RowsInv, IInv, Past
<1>6. QED
  BY <1>3, <1>4, <1>5

\* Steps that leave the list alone.
LEMMA SameListStep ==
    ASSUME RowsInv, Reads(lib, lib'), SameView(lib, lib'),
           lib'.list = lib.list, lib'.rendered = lib.rendered,
           lib'.generation = lib.generation, lib'.selected = lib.selected,
           UNCHANGED <<jobs, server, past>>
    PROVE  GoneInv' /\ KeptInv'
<1>1. OnView(lib, Kept) => OnView(lib', Kept)
  BY DEF OnView, View, SameView
<1>2. /\ \A r : Holds(lib', r) => Holds(lib, r)
      /\ Whole(lib, Kept) => Whole(lib', Kept)
  BY ReadsKeeps, KeptRows DEF RowsInv
<1>3. QED
  BY <1>1, <1>2, SameViewStep

\* A load of the present view.
LEMMA LoadStep ==
    ASSUME RowsInv, NEW s \in LibType, Agree(lib, s), NEW force \in BOOLEAN, NEW fresh \in BOOLEAN,
           lib' = Load(s, force, TRUE, fresh), UNCHANGED <<jobs, server, past>>
    PROVE  GoneInv' /\ KeptInv'
<1>1. /\ Reads(s, lib') /\ SameView(s, lib') /\ SameChoice(s, lib')
      /\ \/ lib'.list = s.list /\ lib'.rendered = s.rendered
         \/ lib'.rendered = View(s) /\ Cached(s, View(s), lib'.list)
  BY LoadReads
<1>2. Reads(lib, s)
  BY SameReads DEF Agree, SameList
<1>3. Reads(lib, lib')
  BY <1>1, <1>2, ReadsTransitive
<1>4. /\ View(s) = View(lib) /\ View(lib') = View(lib) /\ SameView(lib, lib')
      /\ lib'.selected = lib.selected /\ lib'.generation = lib.generation
      /\ \/ lib'.list = lib.list /\ lib'.rendered = lib.rendered
         \/ lib'.rendered = View(lib) /\ Cached(lib, View(lib), lib'.list)
  BY <1>1 DEF Agree, View, SameView, SameChoice, SameList, SameCaches, Cached
<1>5. Whole(lib, Kept) /\ OnView(lib, Kept) => OnView(lib', Kept)
  BY <1>4 DEF OnView, Whole, Cached
<1>6. /\ \A r : Holds(lib', r) => Holds(lib, r)
      /\ Whole(lib, Kept) => Whole(lib', Kept)
  BY <1>3, ReadsKeeps, KeptRows DEF RowsInv
<1>7. QED
  BY <1>4, <1>5, <1>6, SameViewStep

----------------------------------------------------------------------------
(* The actions.                                                            *)

LEMMA OpenLibraryKept ==
    ASSUME RowsInv, NEW v \in Views, OpenLibrary(v) PROVE GoneInv' /\ KeptInv'
<1>1. PICK fresh \in BOOLEAN : lib' = Load(Opened(lib, v), FALSE, TRUE, fresh)
  BY DEF OpenLibrary
<1> DEFINE s == Opened(lib, v)
<1>2. /\ s \in LibType /\ SameCaches(lib, s) /\ SameCalls(lib, s)
      /\ s.list = {} /\ s.selected = {} /\ s.moved = FALSE
      /\ s.generation = lib.generation + 1
  BY OpenedFields DEF RowsInv, IInv, Sound, Loose
<1> HIDE DEF s
<1>3. /\ Reads(s, lib') /\ SameView(s, lib') /\ SameChoice(s, lib')
  BY <1>1, <1>2, LoadReads DEF s
<1>4. Reads(lib, lib')
  BY <1>2, <1>3, SameReads, ReadsTransitive
<1>5. QED
  BY <1>2, <1>3, <1>4, NewViewStep DEF SameView, SameChoice, OpenLibrary

LEMMA ResetAndLoadKept ==
    ASSUME RowsInv, NEW s \in LibType, SameList(lib, s), SameCaches(lib, s), SameCalls(lib, s),
           SameChoice(lib, s),
           NEW useCache \in BOOLEAN, NEW force \in BOOLEAN, NEW fresh \in BOOLEAN,
           LET t == Load(ResetList(s, useCache, fresh), force, useCache, fresh)
           IN  lib' \in {t, LoadFolders(t, TRUE)},
           UNCHANGED <<jobs, server, past>>
    PROVE  GoneInv' /\ KeptInv'
<1> DEFINE r == ResetList(s, useCache, fresh)
           t == Load(r, force, useCache, fresh)
<1>1. /\ r \in LibType /\ Reads(s, r)
      /\ r.selected = {} /\ r.moved = FALSE /\ r.generation = s.generation + 1
  BY ResetReads
<1>2. lib' \in {t, LoadFolders(t, TRUE)}
  OBVIOUS
<1> HIDE DEF r
<1>3. t \in LibType /\ Reads(r, t) /\ SameView(r, t) /\ SameChoice(r, t)
  BY <1>1, LoadReads
<1> HIDE DEF t
<1>4. Reads(lib, s)
  BY SameReads DEF SameList
<1>5. Agree(t, LoadFolders(t, TRUE))
  BY <1>3, FolderCalls
<1>6. Reads(t, lib') /\ SameView(t, lib') /\ SameChoice(t, lib')
  <2>1. CASE lib' = t
    BY <2>1, SameReads DEF SameView, SameChoice, SameCaches, SameCalls
  <2>2. CASE lib' = LoadFolders(t, TRUE)
    BY <1>5, <2>2, SameReads DEF Agree, SameList
  <2>3. QED
    BY <1>2, <2>1, <2>2
<1>7. Reads(lib, lib')
  BY <1>1, <1>3, <1>4, <1>6, ReadsTransitive
<1>8. /\ lib'.selected = {} /\ lib'.moved = FALSE /\ lib'.generation = lib.generation + 1
  BY <1>1, <1>3, <1>6 DEF SameView, SameChoice
<1>9. QED
  BY <1>7, <1>8, NewViewStep

LEMMA ChangeViewKept ==
    ASSUME RowsInv,
           \/ \E f \in Folders : ChangeFolder(f)
           \/ \E a \in Accounts : ChooseAccount(a) \/ ChooseInSettings(a)
    PROVE  GoneInv' /\ KeptInv'
<1>1. lib \in LibType
  BY DEF RowsInv, IInv, Sound, Loose
<1>2. ASSUME NEW f \in Folders, ChangeFolder(f) PROVE GoneInv' /\ KeptInv'
  <2>1. /\ InFolder(lib, f) \in LibType /\ SameList(lib, InFolder(lib, f))
        /\ SameCaches(lib, InFolder(lib, f)) /\ SameCalls(lib, InFolder(lib, f))
        /\ SameChoice(lib, InFolder(lib, f))
    BY <1>1, InFolderFields
  <2>2. /\ lib' = Load(ResetList(InFolder(lib, f), FALSE, FALSE), TRUE, FALSE, FALSE)
        /\ UNCHANGED <<jobs, server, past>>
    BY <1>2 DEF ChangeFolder
  <2>3. QED
    BY <2>1, <2>2, ResetAndLoadKept
<1>3. ASSUME NEW a \in Accounts, ChooseAccount(a) \/ ChooseInSettings(a)
      PROVE  GoneInv' /\ KeptInv'
  <2>1. /\ InAccount(lib, a) \in LibType /\ SameList(lib, InAccount(lib, a))
        /\ SameCaches(lib, InAccount(lib, a)) /\ SameCalls(lib, InAccount(lib, a))
        /\ SameChoice(lib, InAccount(lib, a))
    BY <1>1, InAccountFields
  <2>2. UNCHANGED <<jobs, server, past>>
    BY <1>3 DEF ChooseAccount, ChooseInSettings
  <2>3. CASE lib' = LoadFolders(Load(ResetList(InAccount(lib, a), FALSE, FALSE),
                                     TRUE, FALSE, FALSE), TRUE)
    BY <2>1, <2>2, <2>3, ResetAndLoadKept
  <2>4. ASSUME NEW fresh \in BOOLEAN,
               lib' = LoadFolders(Load(ResetList(InAccount(lib, a), TRUE, fresh),
                                       FALSE, TRUE, fresh), TRUE)
        PROVE  GoneInv' /\ KeptInv'
    BY <2>1, <2>2, <2>4, ResetAndLoadKept
  <2>5. QED
    BY <1>3, <2>3, <2>4 DEF ChooseAccount, ChooseInSettings
<1>4. QED
  BY <1>2, <1>3

LEMMA AgreeRefl ==
    ASSUME NEW s \in LibType PROVE Agree(s, s)
BY DEF Agree, SameView, SameList, SameCaches, SameCalls, SameChoice

LEMMA RefreshKept ==
    ASSUME RowsInv, Refresh PROVE GoneInv' /\ KeptInv'
<1>1. lib \in LibType
  BY DEF RowsInv, IInv, Sound, Loose
<1>2. PICK fresh \in BOOLEAN : lib' = Load(lib, TRUE, TRUE, fresh)
  BY DEF Refresh
<1>3. QED
  BY <1>1, <1>2, AgreeRefl, LoadStep DEF Refresh

\* What is listed belongs to the view, unless a folder answer has moved it.
LEMMA ListedOnView ==
    ASSUME IInv, Whole(lib, Kept), lib.list # {}, ~lib.moved
    PROVE  OnView(lib, Kept)
<1>1. PICK r \in lib.list : r[1] = View(lib) /\ r[1] = lib.rendered
  BY DEF IInv, Sound, Loose, OfView
<1>2. QED
  BY <1>1 DEF OnView, Whole

LEMMA SelectKept ==
    ASSUME RowsInv, NEW rows, Select(rows) PROVE GoneInv' /\ KeptInv'
<1>1. /\ lib \in LibType /\ rows \subseteq lib.list \cup lib.selected
      /\ lib' = [lib EXCEPT !.selected = rows] /\ UNCHANGED <<jobs, server, past>>
  BY DEF RowsInv, IInv, Sound, Loose, Select
<1>2. /\ SameView(lib, lib') /\ SameList(lib, lib') /\ SameCaches(lib, lib') /\ SameCalls(lib, lib')
      /\ lib'.selected = rows /\ lib'.generation = lib.generation
  BY <1>1 DEF LibType, SameView, SameList, SameCaches, SameCalls
<1>3. OnView(lib, Kept) => OnView(lib', Kept)
  BY <1>2 DEF OnView, View, SameView, SameList
<1>4. /\ \A r : Holds(lib', r) => Holds(lib, r)
      /\ Whole(lib, Kept) => Whole(lib', Kept)
  BY <1>2, SameReads, ReadsKeeps, KeptRows DEF RowsInv, SameList
<1>5. Whole(lib, Kept) /\ ~lib.moved /\ rows # {} => lib.selected # {} \/ OnView(lib', Kept)
  BY <1>1, <1>3, ListedOnView DEF RowsInv
<1>6. QED
  BY <1>1, <1>2, <1>3, <1>4, <1>5, SameViewStep

\* A call leaves or is replaced by one without rows.
LEMMA CallOverKept ==
    ASSUME RowsInv, NEW c \in lib.calls,
           \/ lib' = Done(lib, c)
           \/ lib' = Send(Done(lib, c), Full(c))
           \/ lib' = [Done(lib, c) EXCEPT !.grid = "error"],
           UNCHANGED <<jobs, server, past>>
    PROVE  GoneInv' /\ KeptInv'
<1> DEFINE d == Done(lib, c)
<1>1. lib \in LibType /\ c \in ListCall
  BY CallIsCall DEF RowsInv, IInv, Sound, Loose
<1>2. /\ d \in LibType /\ SameView(lib, d) /\ SameList(lib, d) /\ SameCaches(lib, d)
      /\ SameChoice(lib, d) /\ d.seq = lib.seq /\ d.calls = lib.calls \ {c}
  BY <1>1, DoneFields
<1>3. lib' = d \/ lib' = Send(d, Full(c)) \/ lib' = [d EXCEPT !.grid = "error"]
  OBVIOUS
<1> HIDE DEF d
<1>4. /\ SameView(d, lib') /\ SameCaches(d, lib') /\ SameChoice(d, lib')
      /\ lib'.list = d.list /\ lib'.rendered = d.rendered
      /\ lib'.calls \subseteq d.calls \cup {Full(c)}
  <2>1. CASE lib' = d
    BY <2>1 DEF SameView, SameCaches, SameChoice
  <2>2. CASE lib' = Send(d, Full(c))
    <3>1. Full(c) \in ListCall
      BY <1>1, FullCall
    <3>2. QED
      BY <1>2, <2>2, <3>1, SendFields DEF SameList
  <2>3. CASE lib' = [d EXCEPT !.grid = "error"]
    BY <1>2, <2>3 DEF LibType, SameView, SameCaches, SameChoice
  <2>4. QED
    BY <1>3, <2>1, <2>2, <2>3
<1>5. Full(c).rows = {} /\ ~Full(c).served
  BY <1>1 DEF Full, ListCall
<1>6. Reads(lib, lib')
  BY <1>2, <1>4, <1>5 DEF Reads, Copies, SameCaches, SameList
<1>7. /\ SameView(lib, lib') /\ lib'.list = lib.list /\ lib'.rendered = lib.rendered
      /\ lib'.generation = lib.generation /\ lib'.selected = lib.selected
  BY <1>2, <1>4 DEF SameView, SameList, SameChoice
<1>8. QED
  BY <1>6, <1>7, SameListStep

\* An answer has every message of Kept in its mailbox, and no other rows that were gone.
LEMMA AnsweredKept ==
    ASSUME RowsInv, NEW c \in lib.calls, NEW rows \in SUBSET Rows, lib' = Answered(c, rows),
           \A r \in rows : r \notin past.gone, \A r \in Kept : r[1] = c.view => r \in rows,
           UNCHANGED <<jobs, server>>, past'.tried = past.tried, past'.gone = past.gone,
           past'.strayed = past.strayed
    PROVE  GoneInv' /\ KeptInv'
<1> DEFINE e == [c EXCEPT !.served = TRUE, !.rows = rows]
<1>1. lib \in LibType /\ c \in ListCall
  BY CallIsCall DEF RowsInv, IInv, Sound, Loose
<1>2. e \in ListCall /\ e.view = c.view /\ e.rows = rows
  BY <1>1 DEF ListCall
<1>3. lib' = Send(Done(lib, c), e)
  BY DEF Answered
<1> HIDE DEF e
<1>4. /\ SameView(lib, lib') /\ SameList(lib, lib') /\ SameCaches(lib, lib')
      /\ SameChoice(lib, lib') /\ lib'.calls = (lib.calls \ {c}) \cup {e}
  BY <1>1, <1>2, <1>3, DoneFields, SendFields DEF SameView, SameList, SameCaches, SameChoice
<1>5. \A r : Holds(lib', r) => Holds(lib, r) \/ r \in rows
  BY <1>2, <1>4 DEF Holds, SameList, SameCaches
<1>6. GoneInv'
  BY <1>5 DEF RowsInv, GoneInv
<1>7. Whole(lib, Kept) => Whole(lib', Kept)
  BY <1>2, <1>4 DEF Whole, SameList, SameCaches
<1>8. OnView(lib, Kept) => OnView(lib', Kept)
  BY <1>4 DEF OnView, View, SameView, SameList
<1>9. KeptInv'
  <2>1. /\ Kept' = Kept /\ Here' = Here /\ lib'.moved = lib.moved /\ lib'.folder = lib.folder
        /\ lib'.generation = lib.generation /\ lib'.selected = lib.selected
    BY <1>4 DEF Kept, Here, View, SameView, SameChoice
  <2>2. NothingLost => NothingLost'
    BY <1>7, <1>8, <2>1 DEF NothingLost, JobOnView
  <2>3. QED
    BY <2>1, <2>2 DEF RowsInv, KeptInv
<1>10. QED
  BY <1>6, <1>9

\* The server hands out what it has now, or what it cached: neither has a row that is gone.
LEMMA ServeKept ==
    ASSUME RowsInv, NEW c \in lib.calls, Serve(c) PROVE GoneInv' /\ KeptInv'
<1>1. PICK rows \in SUBSET Rows :
        /\ lib' = Answered(c, rows)
        /\ rows = RowsOf(c.view) \/ (held[c.view] # None /\ rows = held[c.view])
  BY ServedRows DEF RowsInv
<1>2. UNCHANGED <<jobs, server, past>> /\ c.view \in Views
  BY CallIsCall DEF Serve, RowsInv, ListCall
<1>3. \A r \in rows : r \notin past.gone
  BY <1>1, <1>2 DEF RowsInv, GoneInv, HeldInv, RowsOf
<1>4. \A r \in Kept : r[1] = c.view => r \in rows
  BY <1>1 DEF RowsInv, HeldInv, RowsOf, Kept
<1>5. QED
  BY <1>1, <1>2, <1>3, <1>4, AnsweredKept

LEMMA ReadMailboxKept ==
    ASSUME RowsInv, NEW c, ReadMailbox(c) PROVE GoneInv' /\ KeptInv'
<1>1. UNCHANGED <<lib, jobs, server, past>>
  BY DEF ReadMailbox
<1>2. Kept' = Kept /\ Here' = Here
  BY <1>1 DEF Kept, Here
<1>3. NothingLost' = NothingLost
  BY <1>1, <1>2 DEF NothingLost, JobOnView
<1>4. QED
  BY <1>1, <1>3 DEF RowsInv, GoneInv, KeptInv

LEMMA PutListKept ==
    ASSUME RowsInv, NEW p \in reads, PutList(p) PROVE GoneInv' /\ KeptInv'
<1>1. UNCHANGED <<jobs, server>> /\ past'.tried = past.tried /\ past'.gone = past.gone
      /\ past'.strayed = past.strayed
  BY DEF PutList, RowsInv, IInv, Past
<1>2. p.rows \in SUBSET Rows
  BY DEF RowsInv, IInv, Lists
<1>3. /\ \A r \in p.rows : r \notin past.gone
      /\ \A r \in Kept : r[1] = p.call.view => r \in p.rows
  BY DEF RowsInv, HeldInv
<1>4. CASE p.call \in lib.calls
  <2>1. lib' = Answered(p.call, p.rows)
    BY <1>4 DEF PutList
  <2>2. QED
    BY <1>1, <1>2, <1>3, <1>4, <2>1, AnsweredKept
<1>5. CASE p.call \notin lib.calls
  <2>1. lib' = lib
    BY <1>5 DEF PutList
  <2>2. Kept' = Kept /\ Here' = Here
    BY <1>1, <2>1 DEF Kept, Here
  <2>3. NothingLost' = NothingLost
    BY <1>1, <2>1, <2>2 DEF NothingLost, JobOnView
  <2>4. QED
    BY <1>1, <2>1, <2>3 DEF RowsInv, GoneInv, KeptInv
<1>6. QED
  BY <1>4, <1>5

\* The rows of an answer that counts are those of its mailbox when the server took them.
LEMMA AnswerKept ==
    ASSUME RowsInv, NEW c \in lib.calls, c.served, Current(c),
           lib' = CachePut(Paint(Done(lib, c), c.view, c.rows), c.view, c.rows),
           UNCHANGED <<jobs, server, past>>
    PROVE  GoneInv' /\ KeptInv'
<1> DEFINE d == Done(lib, c)
           p == Paint(d, c.view, c.rows)
<1>1. lib \in LibType /\ CurrentOK(lib) /\ c \in ListCall /\ c.view \in Views /\ c.rows \in SUBSET Rows
  BY CallIsCall DEF RowsInv, IInv, Sound, Loose, ListCall
<1>2. /\ d \in LibType /\ SameView(lib, d) /\ SameCaches(lib, d)
      /\ SameChoice(lib, d) /\ d.calls = lib.calls \ {c}
  BY <1>1, DoneFields
<1> HIDE DEF d
<1>3. /\ p \in LibType /\ SameView(d, p) /\ SameCaches(d, p) /\ SameCalls(d, p)
      /\ SameChoice(d, p) /\ p.list = c.rows /\ p.rendered = c.view
  BY <1>1, <1>2, PaintFields
<1>4. lib' = CachePut(p, c.view, c.rows)
  BY DEF p, d
<1> HIDE DEF p
<1>5. /\ SameView(p, lib') /\ SameList(p, lib') /\ SameCalls(p, lib') /\ SameChoice(p, lib')
      /\ lib'.memory[c.view] = c.rows /\ lib'.session[c.view] = c.rows
      /\ \A v \in Views \ {c.view} : lib'.memory[v] = p.memory[v] /\ lib'.session[v] = p.session[v]
  BY <1>1, <1>3, <1>4, CachePutFields
<1>6. /\ SameView(lib, lib') /\ SameChoice(lib, lib') /\ lib'.calls = lib.calls \ {c}
      /\ lib'.list = c.rows /\ lib'.rendered = c.view
      /\ lib'.memory[c.view] = c.rows /\ lib'.session[c.view] = c.rows
      /\ \A v \in Views \ {c.view} :
           lib'.memory[v] = lib.memory[v] /\ lib'.session[v] = lib.session[v]
  BY <1>2, <1>3, <1>5 DEF SameView, SameList, SameCaches, SameCalls, SameChoice
<1>7. \A r : Holds(lib', r) => Holds(lib, r)
  <2>1. ASSUME NEW r, Holds(lib', r) PROVE Holds(lib, r)
    <3>1. CASE r \in c.rows
      BY <3>1 DEF Holds
    <3>2. CASE r \notin c.rows
      BY <1>6, <2>1, <3>2 DEF Holds
    <3>3. QED
      BY <3>1, <3>2
  <2>2. QED
    BY <2>1
<1>8. ASSUME Whole(lib, Kept)
      PROVE  Whole(lib', Kept) /\ \A r \in Kept : r[1] = c.view => r \in lib'.list
  <2>1. \A r \in Kept : r[1] = c.view => r \in c.rows
    BY <1>8 DEF Whole
  <2>2. \A r \in Kept : r[1] \in Views
    BY KeptRows DEF RowsInv, Rows
  <2>3. \A r \in Kept : /\ lib'.memory[r[1]] # None => r \in lib'.memory[r[1]]
                        /\ lib'.session[r[1]] # None => r \in lib'.session[r[1]]
    <3>1. ASSUME NEW r \in Kept
          PROVE  /\ lib'.memory[r[1]] # None => r \in lib'.memory[r[1]]
                 /\ lib'.session[r[1]] # None => r \in lib'.session[r[1]]
      <4>1. CASE r[1] = c.view
        BY <1>6, <2>1, <4>1
      <4>2. CASE r[1] # c.view
        BY <1>6, <1>8, <2>2, <4>2 DEF Whole
      <4>3. QED
        BY <4>1, <4>2
    <3>2. QED
      BY <3>1
  <2>4. QED
    BY <1>6, <1>8, <2>1, <2>3 DEF Whole
<1>9. c.view # View(lib) => lib.moved
  BY <1>1 DEF CurrentOK, Current
<1>10. Whole(lib, Kept) /\ ~lib.moved => OnView(lib', Kept)
  BY <1>6, <1>8, <1>9 DEF OnView, View, SameView
<1>11. QED
  BY <1>6, <1>7, <1>8, <1>10, SameViewStep DEF SameChoice

LEMMA ListCallKept ==
    ASSUME RowsInv, NEW c \in lib.calls,
           Serve(c) \/ ReadMailbox(c) \/ ListAnswer(c) \/ ListFails(c)
    PROVE  GoneInv' /\ KeptInv'
<1>1. CASE ListAnswer(c)
  <2>1. UNCHANGED <<jobs, server, past>> /\ c.served
    BY <1>1 DEF ListAnswer
  <2>2. \/ Current(c) /\ lib' = CachePut(Paint(Done(lib, c), c.view, c.rows), c.view, c.rows)
        \/ lib' = Done(lib, c) \/ lib' = Send(Done(lib, c), Full(c))
    BY <1>1 DEF ListAnswer
  <2>3. QED
    BY <2>1, <2>2, AnswerKept, CallOverKept
<1>2. CASE ListFails(c)
  <2>1. UNCHANGED <<jobs, server, past>>
    BY <1>2 DEF ListFails
  <2>2. \/ lib' = Done(lib, c)
        \/ lib' = Send(Done(lib, c), Full(c))
        \/ lib' = [Done(lib, c) EXCEPT !.grid = "error"]
    BY <1>2 DEF ListFails
  <2>3. QED
    BY <2>1, <2>2, CallOverKept
<1>3. QED
  BY <1>1, <1>2, ServeKept, ReadMailboxKept

LEMMA AgreeStep ==
    ASSUME RowsInv, Agree(lib, lib'), UNCHANGED <<jobs, server, past>>
    PROVE  GoneInv' /\ KeptInv'
BY SameReads, SameListStep DEF Agree, SameList, SameChoice

LEMMA AgreeTransitive ==
    ASSUME NEW s, NEW t, NEW u, Agree(s, t), Agree(t, u) PROVE Agree(s, u)
BY DEF Agree, SameView, SameList, SameCaches, SameCalls, SameChoice

LEMMA AccountsAnswerKept ==
    ASSUME RowsInv, NEW a, AccountsAnswer(a) PROVE GoneInv' /\ KeptInv'
<1> DEFINE s == LoadFolders(GotAccounts(lib, a), FALSE)
<1>1. Agree(lib, s) /\ s \in LibType
  <2>1. Agree(lib, GotAccounts(lib, a))
    BY FolderCalls DEF RowsInv, IInv, Sound, Loose
  <2>2. Agree(GotAccounts(lib, a), s)
    BY <2>1, FolderCalls DEF Agree
  <2> HIDE DEF s
  <2>3. QED
    BY <2>1, <2>2, AgreeTransitive DEF Agree
<1>2. PICK fresh \in BOOLEAN :
        lib' = IF a = lib.account THEN s ELSE Load(s, FALSE, TRUE, fresh)
  BY DEF AccountsAnswer
<1>3. UNCHANGED <<jobs, server, past>>
  BY DEF AccountsAnswer
<1> HIDE DEF s
<1>4. QED
  BY <1>1, <1>2, <1>3, AgreeStep, LoadStep

\* A folder answer that moves the view takes the memory cache away, and the jobs of the
\* view before it are no longer those of the view.
LEMMA FoldersAnswerKept ==
    ASSUME RowsInv, NEW c, FoldersAnswer(c) PROVE GoneInv' /\ KeptInv'
<1> DEFINE s == GotFolders(lib, c)
           t == MoveToInbox(s)
<1>1. Agree(lib, s) /\ s \in LibType /\ lib \in LibType
  BY FolderCalls DEF RowsInv, IInv, Sound, Loose, Agree
<1>2. UNCHANGED <<jobs, server, past>> /\ lib' \in {s, t}
  BY DEF FoldersAnswer
<1>3. CASE lib' = s
  BY <1>1, <1>2, <1>3, AgreeStep
<1>4. CASE lib' = t
  <2> HIDE DEF s
  <2>1. /\ SameList(s, t) /\ SameCalls(s, t) /\ SameChoice(s, t)
        /\ t.account = s.account /\ t.folder = Inbox /\ t.session = s.session
        /\ t.moved = (s.moved \/ s.folder # Inbox)
        /\ \A v \in Views : t.memory[v] = None
    BY <1>1, MoveToInboxFields
  <2> HIDE DEF t
  <2>2. /\ SameList(lib, lib') /\ SameChoice(lib, lib')
        /\ lib'.account = lib.account /\ lib'.folder = Inbox
        /\ lib'.moved = (lib.moved \/ lib.folder # Inbox)
    BY <1>1, <1>4, <2>1 DEF Agree, SameView, SameList, SameChoice
  <2>3. Reads(lib, lib')
    BY <1>1, <1>4, <2>1 DEF Agree, Reads, Copies, SameList, SameCaches, SameCalls
  <2>4. lib.moved \in BOOLEAN /\ (lib.moved => lib.folder = Inbox)
    BY <1>1 DEF LibType, RowsInv, KeptInv
  <2>5. CASE lib.folder = Inbox
    <3>1. SameView(lib, lib')
      BY <2>2, <2>4, <2>5 DEF SameView
    <3>2. QED
      BY <1>2, <2>2, <2>3, <3>1, SameListStep DEF SameList, SameChoice
  <2>6. CASE lib.folder # Inbox
    <3>1. lib'.moved = TRUE /\ lib.moved = FALSE /\ Here' # Here
      BY <2>2, <2>4, <2>6 DEF Here, View
    <3>2. GoneInv'
      BY <1>2, <2>3, ReadsKeeps DEF RowsInv, GoneInv
    <3>3. NothingLost => NothingLost'
      <4>1. SUFFICES ASSUME NothingLost PROVE NothingLost'
        OBVIOUS
      <4>2. Kept' = Kept /\ lib'.generation = lib.generation
        BY <1>2, <2>2 DEF Kept, SameChoice
      <4>3. Whole(lib', Kept')
        BY <2>3, <4>1, <4>2, ReadsKeeps, KeptRows DEF NothingLost, RowsInv
      <4>4. ASSUME NEW j \in jobs PROVE JobOnView(j)'
        BY <1>2, <3>1, <4>1, <4>2 DEF NothingLost, JobOnView
      <4>5. QED
        BY <1>2, <3>1, <4>3, <4>4 DEF NothingLost
    <3>4. QED
      BY <1>2, <2>2, <3>2, <3>3 DEF RowsInv, KeptInv
  <2>7. QED
    BY <2>5, <2>6
<1>5. QED
  BY <1>2, <1>3, <1>4

\* A removal begins on what is listed or selected now.
LEMMA StartKept ==
    ASSUME RowsInv, NEW kind \in {"delete", "archive", "bulk"}, NEW rows \in SUBSET Rows,
           NEW overlay \in BOOLEAN, Start(kind, rows, overlay),
           Whole(lib, Kept) /\ ~lib.moved /\ (lib.selected # {} => OnView(lib, Kept))
             => OnView(lib, Kept)
    PROVE  GoneInv' /\ KeptInv'
<1> DEFINE j == [id |-> inputs + 1, kind |-> kind, rows |-> rows, from |-> Here,
                 generation |-> lib.generation, moved |-> lib.moved,
                 phase |-> "overlay", todo |-> rows, flying |-> {}]
<1>1. /\ lib' = lib /\ server' = server /\ past' = [past EXCEPT !.tried = @ \cup rows]
      /\ jobs' = jobs \cup {j} \/ \E b \in Batches(j) : jobs' = jobs \cup {Launched(j, b)}
  BY DEF Start
<1>2. /\ past'.tried = past.tried \cup rows /\ past'.gone = past.gone
      /\ past'.strayed = past.strayed
  BY <1>1 DEF RowsInv, IInv, Past
<1>3. \E k : /\ jobs' = jobs \cup {k} /\ k.rows = rows /\ k.from = Here
             /\ k.generation = lib.generation /\ k.moved = lib.moved
  <2>1. /\ j.rows = rows /\ j.from = Here /\ j.generation = lib.generation
        /\ j.moved = lib.moved
    OBVIOUS
  <2>2. ASSUME NEW b PROVE LET k == Launched(j, b) IN
          /\ k.rows = rows /\ k.from = Here
          /\ k.generation = lib.generation /\ k.moved = lib.moved
    BY DEF Launched
  <2> HIDE DEF j
  <2>3. CASE jobs' = jobs \cup {j}
    BY ONLY <2>1, <2>3
  <2>4. ASSUME NEW b \in Batches(j), jobs' = jobs \cup {Launched(j, b)}
        PROVE  \E k : /\ jobs' = jobs \cup {k} /\ k.rows = rows /\ k.from = Here
                      /\ k.generation = lib.generation /\ k.moved = lib.moved
    <3> DEFINE l == Launched(j, b)
    <3>1. /\ jobs' = jobs \cup {l} /\ l.rows = rows /\ l.from = Here
          /\ l.generation = lib.generation /\ l.moved = lib.moved
      BY <2>2, <2>4
    <3> HIDE DEF l
    <3>2. QED
      BY ONLY <3>1
  <2>5. jobs' = jobs \cup {j} \/ \E b \in Batches(j) : jobs' = jobs \cup {Launched(j, b)}
    BY ONLY <1>1
  <2>6. QED
    BY ONLY <2>3, <2>4, <2>5
<1> HIDE DEF j
<1>4. GoneInv'
  BY <1>1, <1>2 DEF RowsInv, GoneInv
<1>5. /\ Kept' \in SUBSET Kept /\ lib.generation \in Nat /\ Here' = Here
  BY <1>1, <1>2, GenerationTyped DEF Kept, RowsInv, Here
<1>6. NothingLost => NothingLost'
  <2>1. SUFFICES ASSUME NothingLost PROVE NothingLost'
    OBVIOUS
  <2>2. /\ Whole(lib', Kept') /\ (OnView(lib, Kept) => OnView(lib', Kept'))
        /\ ~lib.moved => OnView(lib, Kept)
    BY <1>1, <1>5, <2>1, FewerKept DEF NothingLost
  <2>3. PICK k : /\ jobs' = jobs \cup {k} /\ k.rows = rows /\ k.from = Here
                 /\ k.generation = lib.generation /\ k.moved = lib.moved
    BY <1>3
  <2>4. JobOnView(k)'
    BY <1>1, <1>2, <1>5, <2>2, <2>3 DEF JobOnView
  <2>5. ASSUME NEW i \in jobs PROVE JobOnView(i)'
    BY <1>1, <1>2, <1>5, <2>1, <2>2 DEF NothingLost, JobOnView
  <2>6. QED
    BY <1>1, <2>1, <2>2, <2>3, <2>4, <2>5 DEF NothingLost
<1>7. QED
  BY <1>1, <1>2, <1>4, <1>6 DEF RowsInv, KeptInv

LEMMA RemovalKept ==
    ASSUME RowsInv, (\E r \in lib.list : Remove(r)) \/ Bulk
    PROVE  GoneInv' /\ KeptInv'
<1>1. lib.list \in SUBSET Rows /\ lib.selected \in SUBSET Rows
  BY RowsShown DEF RowsInv
<1>2. ASSUME NEW r \in lib.list, Remove(r) PROVE GoneInv' /\ KeptInv'
  <2>1. Whole(lib, Kept) /\ ~lib.moved => OnView(lib, Kept)
    BY <1>2, ListedOnView DEF RowsInv
  <2>2. {r} \in SUBSET Rows /\ (Start("delete", {r}, TRUE) \/ Start("archive", {r}, FALSE))
    BY <1>1, <1>2 DEF Remove
  <2>3. QED
    BY <2>1, <2>2, StartKept
<1>3. CASE Bulk
  <2>1. Start("bulk", lib.selected, TRUE)
    BY <1>3 DEF Bulk
  <2>2. lib.selected # {}
    BY <1>3 DEF Bulk
  <2>3. QED
    BY <1>1, <2>1, <2>2, StartKept
<1>4. QED
  BY <1>2, <1>3

\* The requests of a removal change the server only, and only take from it.
LEMMA RequestsKept ==
    ASSUME RowsInv, NEW j \in jobs,
           OverlayShown(j) \/ \E q \in j.flying : ServerRemoves(j, q) \/ RequestEnds(j, q)
    PROVE  GoneInv' /\ KeptInv'
<1>1. /\ lib' = lib /\ past' = past /\ server' \subseteq server
      /\ \A k \in jobs' : \E i \in jobs :
           /\ k.rows = i.rows /\ k.from = i.from
           /\ k.generation = i.generation /\ k.moved = i.moved
  <2> DEFINE Like(k, i) == /\ k.rows = i.rows /\ k.from = i.from
                           /\ k.generation = i.generation /\ k.moved = i.moved
  <2>1. j \in Job
    BY DEF RowsInv, IInv, JobOK, Ready
  <2>2. ASSUME NEW k \in Job, NEW b PROVE Like(Launched(k, b), k)
    BY <2>2 DEF Launched, Job
  <2>3. ASSUME NEW k, jobs' \in {jobs \ {j}, (jobs \ {j}) \cup {k}}, Like(k, j)
        PROVE  \A i \in jobs' : \E h \in jobs : Like(i, h)
    BY <2>3
  <2>4. CASE OverlayShown(j)
    <3>1. PICK b \in Batches(j) : jobs' = (jobs \ {j}) \cup {Launched(j, b)}
      BY <2>4 DEF OverlayShown
    <3>2. lib' = lib /\ past' = past /\ server' = server
      BY <2>4 DEF OverlayShown
    <3>3. Like(Launched(j, b), j)
      BY <2>1, <2>2
    <3> HIDE DEF Like
    <3>4. \A i \in jobs' : \E h \in jobs : Like(i, h)
      BY <2>3, <3>1, <3>3
    <3>5. QED
      BY <3>2, <3>4 DEF Like
  <2>5. ASSUME NEW q \in j.flying, ServerRemoves(j, q)
        PROVE  /\ lib' = lib /\ past' = past /\ server' \subseteq server
               /\ \A i \in jobs' : \E h \in jobs : Like(i, h)
    <3> DEFINE k == [j EXCEPT !.flying = (@ \ {q}) \cup {[q EXCEPT !.done = TRUE]}]
    <3>1. jobs' = (jobs \ {j}) \cup {k} /\ lib' = lib /\ past' = past /\ server' \subseteq server
      BY <2>5 DEF ServerRemoves
    <3>2. Like(k, j)
      BY <2>1 DEF Job
    <3> HIDE DEF k, Like
    <3>3. QED
      BY <2>3, <3>1, <3>2
  <2>6. ASSUME NEW q \in j.flying, RequestEnds(j, q)
        PROVE  /\ lib' = lib /\ past' = past /\ server' \subseteq server
               /\ \A i \in jobs' : \E h \in jobs : Like(i, h)
    <3> DEFINE k == [j EXCEPT !.flying = @ \ {q}]
               over == [k EXCEPT !.phase = "animation"]
    <3>1. lib' = lib /\ past' = past /\ server' = server
      BY <2>6 DEF RequestEnds
    <3>2. \/ \E b \in Batches(k) :
               jobs' = (jobs \ {j}) \cup {IF b = {} /\ k.flying = {} THEN over ELSE Launched(k, b)}
          \/ jobs' = jobs \ {j}
      BY <2>6 DEF RequestEnds
    <3>3. k \in Job /\ Like(k, j) /\ Like(over, j)
      BY <2>1 DEF Job
    <3>4. \A b : Like(Launched(k, b), k)
      BY <2>2, <3>3
    <3>5. \A b : Like(Launched(k, b), j)
      <4> HIDE DEF k
      <4>1. QED
        BY <3>3, <3>4
    <3> HIDE DEF k, over
    <3>6. CASE jobs' = jobs \ {j}
      BY <3>1, <3>6
    <3>7. ASSUME NEW b, jobs' = (jobs \ {j}) \cup
                           {IF b = {} /\ k.flying = {} THEN over ELSE Launched(k, b)}
          PROVE  \A i \in jobs' : \E h \in jobs : Like(i, h)
      <4> HIDE DEF Like
      <4>1. QED
        BY <2>3, <3>3, <3>5, <3>7
    <3>8. QED
      BY <3>1, <3>2, <3>6, <3>7
  <2>7. QED
    BY <2>4, <2>5, <2>6
<1>2. GoneInv'
  BY <1>1 DEF RowsInv, GoneInv
<1>3. Kept' \in SUBSET Kept /\ Here' = Here
  BY <1>1 DEF Kept, Here
<1>4. NothingLost => NothingLost'
  <2>1. SUFFICES ASSUME NothingLost PROVE NothingLost'
    OBVIOUS
  <2>2. Whole(lib', Kept') /\ (OnView(lib, Kept) => OnView(lib', Kept'))
    BY <1>1, <1>3, <2>1, FewerKept DEF NothingLost
  <2>3. ASSUME NEW k \in jobs' PROVE JobOnView(k)'
    <3>1. PICK i \in jobs : /\ k.rows = i.rows /\ k.from = i.from
                            /\ k.generation = i.generation /\ k.moved = i.moved
      BY <1>1
    <3>2. JobOnView(i)
      BY <2>1 DEF NothingLost
    <3>3. QED
      BY <1>1, <1>3, <2>2, <3>1, <3>2 DEF JobOnView
  <2>4. QED
    BY <1>1, <2>1, <2>2, <2>3 DEF NothingLost
<1>5. QED
  BY <1>1, <1>2, <1>4 DEF RowsInv, KeptInv

\* Cards go: whatever is shown loses their numbers, and the rest is cached under the view.
LEMMA CardsGoneFields ==
    ASSUME IInv, NEW j \in jobs, CardsGone(j)
    PROVE  /\ SameView(lib, lib') /\ SameCalls(lib, lib')
           /\ lib'.rendered = lib.rendered /\ lib'.generation = lib.generation
           /\ lib'.selected \subseteq lib.selected
           /\ lib'.list \subseteq lib.list
           /\ \A r \in lib.list : r \in lib'.list <=> r[2] \notin {q[2] : q \in j.rows}
           /\ \A v \in Views \ {Here} :
                lib'.memory[v] = lib.memory[v] /\ lib'.session[v] = lib.session[v]
           /\ lib.memory[Here] # None =>
                lib'.memory[Here] = lib'.list /\ lib'.session[Here] = lib'.list
           /\ lib.memory[Here] = None =>
                lib'.memory[Here] = None /\ lib'.session[Here] = lib.session[Here]
           /\ jobs' = jobs \ {j} /\ server' = server
<1> DEFINE numbers == {q[2] : q \in j.rows}
           w == Without(lib, numbers, j.kind)
<1>1. lib \in LibType /\ lib' = WriteBack(w) /\ jobs' = jobs \ {j} /\ server' = server
  BY DEF IInv, Sound, Loose, CardsGone
<1>2. w \in LibType
  BY <1>1 DEF Without, LibType
<1>3. /\ SameView(lib, w) /\ SameCaches(lib, w) /\ SameCalls(lib, w)
      /\ w.rendered = lib.rendered /\ w.generation = lib.generation
      /\ w.selected \subseteq lib.selected
      /\ w.list = {r \in lib.list : r[2] \notin numbers}
  BY <1>1, <1>2 DEF Without, LibType, SameView, SameCaches, SameCalls
<1>4. View(w) = Here /\ Here \in Views /\ w.list \in SUBSET Rows
  BY <1>2, <1>3, HereIsView DEF Here, View, SameView, LibType
<1> HIDE DEF w, numbers
<1>5. CASE lib.memory[Here] # None
  <2>1. lib' = CachePut(w, Here, w.list)
    BY <1>1, <1>3, <1>4, <1>5 DEF WriteBack, SameCaches
  <2>2. /\ SameView(w, lib') /\ SameList(w, lib') /\ SameCalls(w, lib') /\ SameChoice(w, lib')
        /\ lib'.memory[Here] = w.list /\ lib'.session[Here] = w.list
        /\ \A v \in Views \ {Here} : lib'.memory[v] = w.memory[v] /\ lib'.session[v] = w.session[v]
    BY <1>2, <1>4, <2>1, CachePutFields
  <2>3. QED
    BY <1>1, <1>3, <1>5, <2>2
       DEF SameView, SameList, SameCaches, SameCalls, SameChoice, numbers
<1>6. CASE lib.memory[Here] = None
  <2>1. lib' = w
    BY <1>1, <1>3, <1>4, <1>6 DEF WriteBack, SameCaches
  <2>2. QED
    BY <1>1, <1>3, <1>6, <2>1 DEF SameCaches, numbers
<1>7. QED
  BY <1>5, <1>6

LEMMA CardsGoneKept ==
    ASSUME RowsInv, NEW j \in jobs, CardsGone(j) PROVE GoneInv' /\ KeptInv'
<1> DEFINE numbers == {q[2] : q \in j.rows}
<1>1. /\ SameView(lib, lib') /\ SameCalls(lib, lib')
      /\ lib'.rendered = lib.rendered /\ lib'.generation = lib.generation
      /\ lib'.selected \subseteq lib.selected
      /\ lib'.list \subseteq lib.list
      /\ \A r \in lib.list : r \in lib'.list <=> r[2] \notin numbers
      /\ \A v \in Views \ {Here} :
           lib'.memory[v] = lib.memory[v] /\ lib'.session[v] = lib.session[v]
      /\ lib.memory[Here] # None =>
           lib'.memory[Here] = lib'.list /\ lib'.session[Here] = lib'.list
      /\ lib.memory[Here] = None =>
           lib'.memory[Here] = None /\ lib'.session[Here] = lib.session[Here]
      /\ jobs' = jobs \ {j} /\ server' = server
  BY CardsGoneFields DEF RowsInv
<1>2. /\ past'.tried = past.tried /\ past'.strayed = (past.strayed \/ ~Undisturbed(j))
      /\ past'.gone = IF Undisturbed(j) /\ lib.memory[Here] # None
                      THEN past.gone \cup (j.rows \ (server \cup Underway)) ELSE past.gone
  BY DEF CardsGone, RowsInv, IInv, Past
<1>3. /\ Here \in Views /\ Here' = Here /\ Kept' = Kept /\ lib'.folder = lib.folder
      /\ lib'.moved = lib.moved
  BY <1>1, <1>2, HereIsView DEF RowsInv, Here, View, SameView, Kept
<1>4. Undisturbed(j) => j.from = Here /\ j.generation = lib.generation /\ ~j.moved
                        /\ \A r \in j.rows : r[1] = Here
  BY DEF Undisturbed, RowsInv, IInv, JobOK, Ready
<1> HIDE DEF numbers
<1>5. GoneInv'
  <2>1. ASSUME NEW r, Holds(lib', r) PROVE Holds(lib, r)
    <3>1. CASE r \in lib'.list \/ \E c \in lib'.calls : r \in c.rows
      BY <1>1, <3>1 DEF Holds, SameCalls
    <3>2. ASSUME NEW v \in Views, \/ lib'.memory[v] # None /\ r \in lib'.memory[v]
                                  \/ lib'.session[v] # None /\ r \in lib'.session[v]
          PROVE  Holds(lib, r)
      BY <1>1, <1>3, <3>2 DEF Holds
    <3>3. QED
      BY <2>1, <3>1, <3>2 DEF Holds
  <2>2. ASSUME Undisturbed(j), lib.memory[Here] # None,
               NEW r \in j.rows \ (server \cup Underway)
        PROVE  ~Holds(lib', r)
    <3>1. r[1] = Here /\ r[2] \in numbers
      BY <1>4, <2>2 DEF numbers
    <3>2. r \notin lib'.list
      BY <1>1, <3>1
    <3>3. \A c \in lib'.calls : r \notin c.rows
      BY <1>1, <2>2 DEF Underway, SameCalls
    <3>4. \A v \in Views : /\ lib'.memory[v] # None => r \notin lib'.memory[v]
                           /\ lib'.session[v] # None => r \notin lib'.session[v]
      <4>1. CachesOK(lib)
        BY DEF RowsInv, IInv, Sound, Loose
      <4>2. QED
        BY <1>1, <2>2, <3>1, <3>2, <4>1 DEF CachesOK
    <3>5. QED
      BY <3>2, <3>3, <3>4 DEF Holds
  <2>3. \A r \in past'.gone : r \in past.gone \/ (/\ Undisturbed(j) /\ lib.memory[Here] # None
                                                  /\ r \in j.rows \ (server \cup Underway))
    BY <1>2
  <2>4. QED
    BY <1>1, <2>1, <2>2, <2>3 DEF RowsInv, GoneInv
<1>6. KeptInv'
  <2>1. CASE ~Undisturbed(j) \/ past.strayed
    BY <1>2, <1>3, <2>1 DEF RowsInv, KeptInv
  <2>2. CASE Undisturbed(j) /\ ~past.strayed
    <3>1. /\ NothingLost /\ JobOnView(j)
      BY <2>2 DEF RowsInv, KeptInv, NothingLost
    <3>2. /\ OnView(lib, Kept) /\ ~lib.moved /\ j.rows \subseteq past.tried
      BY <1>4, <2>2, <3>1 DEF JobOnView
    <3>3. \A r \in Kept : r[1] = Here => r[2] \notin numbers
      <4>1. ASSUME NEW r \in Kept, r[1] = Here, r[2] \in numbers PROVE FALSE
        <5>1. PICK q \in j.rows : q[2] = r[2]
          BY <4>1 DEF numbers
        <5>2. q[1] = Here /\ q \in Rows /\ r \in Rows
          BY <1>4, <2>2, KeptRows DEF RowsInv, IInv, JobOK, Ready, Job
        <5>3. q = r
          BY <4>1, <5>1, <5>2 DEF Rows
        <5>4. QED
          BY <3>2, <5>3 DEF Kept
      <4>2. QED
        BY <4>1
    <3>4. \A r \in Kept : r[1] = Here => r \in lib'.list
      BY <1>1, <3>2, <3>3 DEF OnView, Here
    <3>5. OnView(lib', Kept)
      BY <1>1, <1>3, <3>2, <3>4 DEF OnView, Here
    <3>6. Whole(lib', Kept)
      <4>1. \A r \in Kept : /\ lib'.memory[r[1]] # None => r \in lib'.memory[r[1]]
                            /\ lib'.session[r[1]] # None => r \in lib'.session[r[1]]
        <5>1. ASSUME NEW r \in Kept
              PROVE  /\ lib'.memory[r[1]] # None => r \in lib'.memory[r[1]]
                     /\ lib'.session[r[1]] # None => r \in lib'.session[r[1]]
          <6>1. r[1] \in Views
            BY KeptRows DEF RowsInv, Rows
          <6>2. CASE r[1] = Here
            BY <1>1, <3>1, <3>4, <6>2 DEF NothingLost, Whole
          <6>3. CASE r[1] # Here
            BY <1>1, <3>1, <6>1, <6>3 DEF NothingLost, Whole
          <6>4. QED
            BY <6>2, <6>3
        <5>2. QED
          BY <5>1
      <4>2. \A c \in lib'.calls : c.served => \A r \in Kept : r[1] = c.view => r \in c.rows
        BY <1>1, <3>1 DEF NothingLost, Whole, SameCalls
      <4>3. QED
        BY <3>5, <4>1, <4>2 DEF Whole, OnView
    <3>7. \A i \in jobs' : JobOnView(i)'
      <4>1. ASSUME NEW i \in jobs' PROVE JobOnView(i)'
        <5>1. JobOnView(i)
          BY <1>1, <3>1 DEF NothingLost
        <5>2. QED
          BY <1>1, <1>2, <1>3, <3>5, <5>1 DEF JobOnView
      <4>2. QED
        BY <4>1
    <3>8. NothingLost'
      BY <1>3, <3>5, <3>6, <3>7 DEF NothingLost
    <3>9. QED
      BY <1>3, <3>8 DEF RowsInv, KeptInv
  <2>3. past.strayed \in BOOLEAN /\ Undisturbed(j) \in BOOLEAN
    BY DEF RowsInv, IInv, Past, Undisturbed
  <2>4. QED
    BY <2>1, <2>2, <2>3
<1>7. QED
  BY <1>5, <1>6

----------------------------------------------------------------------------
(* The lists of the server.                                                *)

\* The lists stay: fewer messages are kept, none has left, and none that is read is gone.
LEMMA HeldStays ==
    ASSUME RowsInv, UNCHANGED <<server, held, reads>>, past'.revived = past.revived,
           past.tried \subseteq past'.tried,
           \A r \in past'.gone : r \in past.gone \/ r \notin Underway
    PROVE  HeldInv'
<1>1. Kept' \subseteq Kept
  BY DEF Kept
<1>2. \A r \in past'.gone : r \notin past.revived /\ \A p \in reads : r \notin p.rows
  BY DEF RowsInv, HeldInv, Underway
<1>3. \A v \in Views : held'[v] # None => held'[v] \subseteq server' \cup past'.revived
  BY DEF RowsInv, HeldInv
<1>4. QED
  BY <1>1, <1>2, <1>3 DEF RowsInv, HeldInv

LEMMA StartHeld ==
    ASSUME RowsInv, NEW kind, NEW rows, NEW overlay, Start(kind, rows, overlay) PROVE HeldInv'
<1>1. /\ UNCHANGED <<server, held, reads>> /\ past'.revived = past.revived
      /\ past'.gone = past.gone /\ past.tried \subseteq past'.tried
  BY DEF Start, RowsInv, IInv, Past
<1>2. QED
  BY <1>1, HeldStays

LEMMA CardsGoneHeld ==
    ASSUME RowsInv, NEW j, CardsGone(j) PROVE HeldInv'
<1>1. /\ UNCHANGED <<server, held, reads>> /\ past'.revived = past.revived
      /\ past'.tried = past.tried
      /\ past'.gone = IF Undisturbed(j) /\ lib.memory[Here] # None
                      THEN past.gone \cup (j.rows \ (server \cup Underway)) ELSE past.gone
  BY DEF CardsGone, RowsInv, IInv, Past
<1>2. QED
  BY <1>1, HeldStays

\* A message leaves the server with every list of its account.
LEMMA ServerRemovesHeld ==
    ASSUME RowsInv, NEW j \in jobs, NEW q, ServerRemoves(j, q) PROVE HeldInv'
<1> DEFINE m == <<q.target, q.row[2]>>
<1>1. /\ server' = server \ {m} /\ UNCHANGED <<reads, past>>
      /\ held' = IF m \in server
                 THEN [v \in Views |-> IF v[1] = q.target[1] THEN None ELSE held[v]] ELSE held
  BY DEF ServerRemoves
<1>2. m[1] = q.target
  OBVIOUS
<1> HIDE DEF m
<1>3. CASE m \notin server
  BY <1>1, <1>3, HeldStays
<1>4. CASE m \in server
  <2>1. Kept' \subseteq Kept
    BY <1>1 DEF Kept
  <2>2. \A v \in Views : held'[v] # None => held'[v] = held[v] /\ v # m[1]
    BY <1>1, <1>2, <1>4
  <2>3. \A v \in Views : held'[v] # None => held'[v] \subseteq server' \cup past'.revived
    <3>1. ASSUME NEW v \in Views, held'[v] # None, NEW r \in held'[v]
          PROVE  r \in server' \cup past'.revived
      <4>1. r \in server \cup past.revived /\ r[1] = v
        BY <2>2, <3>1 DEF RowsInv, HeldInv, IInv, Lists
      <4>2. r # m
        BY <2>2, <3>1, <4>1
      <4>3. QED
        BY <1>1, <4>1, <4>2
    <3>2. QED
      BY <3>1
  <2>4. \A r \in Kept : r[1] \in Views
    BY KeptRows DEF RowsInv, Rows
  <2>5. QED
    BY <1>1, <2>1, <2>2, <2>3, <2>4 DEF RowsInv, HeldInv
<1>5. QED
  BY <1>3, <1>4

\* What is read now is what the mailbox has.
LEMMA ReadMailboxHeld ==
    ASSUME RowsInv, NEW c \in lib.calls, ReadMailbox(c) PROVE HeldInv'
<1> DEFINE p == [call |-> c, rows |-> RowsOf(c.view)]
<1>1. /\ UNCHANGED <<server, past>> /\ reads' = reads \cup {p}
      /\ held' = IF c.forced THEN held ELSE [held EXCEPT ![c.view] = None]
  BY DEF ReadMailbox
<1>2. p.call = c /\ p.rows = RowsOf(c.view)
  OBVIOUS
<1> HIDE DEF p
<1>3. Kept' = Kept
  BY <1>1 DEF Kept
<1>4. \A v \in Views : held'[v] # None => held'[v] = held[v]
  BY <1>1 DEF RowsInv, IInv, Lists, Cache
<1>5. \A r \in Kept : r[1] \in Views
  BY KeptRows DEF RowsInv, Rows
<1>6. \A r \in past'.gone : r \notin past'.revived /\ \A d \in reads' : r \notin d.rows
  BY <1>1, <1>2 DEF RowsInv, HeldInv, GoneInv, RowsOf
<1>7. \A d \in reads' : \A r \in Kept : r[1] = d.call.view => r \in d.rows
  BY <1>1, <1>2 DEF RowsInv, HeldInv, RowsOf, Kept
<1>8. QED
  BY <1>1, <1>3, <1>4, <1>5, <1>6, <1>7 DEF RowsInv, HeldInv

\* What was read is cached: a row that has left the server since is noted as revived.
LEMMA PutListHeld ==
    ASSUME RowsInv, NEW p \in reads, PutList(p) PROVE HeldInv'
<1>1. /\ server' = server /\ reads' = reads \ {p} /\ held' = [held EXCEPT ![p.call.view] = p.rows]
      /\ past'.tried = past.tried /\ past'.gone = past.gone
      /\ past'.revived = past.revived \cup (p.rows \ server)
  BY DEF PutList, RowsInv, IInv, Past
<1>2. p.call.view \in Views
  BY DEF RowsInv, IInv, Lists, ListCall
<1>3. /\ held'[p.call.view] = p.rows
      /\ \A v \in Views \ {p.call.view} : held'[v] = held[v]
  BY <1>1, <1>2 DEF RowsInv, IInv, Lists, Cache
<1>4. Kept' = Kept /\ \A r \in Kept : r[1] \in Views
  BY <1>1, KeptRows DEF Kept, RowsInv, Rows
<1>5. \A v \in Views : held'[v] # None => held'[v] \subseteq server' \cup past'.revived
  BY <1>1, <1>3 DEF RowsInv, HeldInv
<1>6. \A r \in past'.gone : r \notin past'.revived /\ \A d \in reads' : r \notin d.rows
  BY <1>1 DEF RowsInv, HeldInv
<1>7. \A r \in Kept : held'[r[1]] # None => r \in held'[r[1]]
  BY <1>3, <1>4 DEF RowsInv, HeldInv
<1>8. QED
  BY <1>1, <1>4, <1>5, <1>6, <1>7 DEF RowsInv, HeldInv

LEMMA HeldNext ==
    ASSUME RowsInv, Next PROVE HeldInv'
<1>1. UNCHANGED <<server, held, reads, past>> => HeldInv'
  BY HeldStays
<1>2. CASE User
  <2>1. ASSUME NEW r \in lib.list, Remove(r) PROVE HeldInv'
    BY <2>1, StartHeld DEF Remove
  <2>2. CASE Bulk
    BY <2>2, StartHeld DEF Bulk
  <2>3. QED
    BY <1>1, <1>2, <2>1, <2>2
       DEF User, OpenLibrary, ChangeFolder, ChooseAccount, ChooseInSettings, Refresh, Select
<1>3. CASE Answers
  <2>1. ASSUME NEW c \in lib.calls, Serve(c) \/ ListAnswer(c) \/ ListFails(c) PROVE HeldInv'
    BY <1>1, <2>1 DEF Serve, ListAnswer, ListFails
  <2>2. ASSUME NEW a, AccountsAnswer(a) \/ FoldersAnswer(a) PROVE HeldInv'
    BY <1>1, <2>2 DEF AccountsAnswer, FoldersAnswer
  <2>3. QED
    BY <1>3, <2>1, <2>2, ReadMailboxHeld, PutListHeld DEF Answers
<1>4. ASSUME NEW j \in jobs, JobStep(j) PROVE HeldInv'
  <2>1. ASSUME OverlayShown(j) \/ \E q : RequestEnds(j, q) PROVE HeldInv'
    BY <1>1, <2>1 DEF OverlayShown, RequestEnds
  <2>2. QED
    BY <1>4, <2>1, CardsGoneHeld, ServerRemovesHeld DEF JobStep
<1>5. QED
  BY <1>2, <1>3, <1>4 DEF Next

LEMMA RowsInit == Init => RowsInv
<1> SUFFICES ASSUME Init PROVE RowsInv
  OBVIOUS
<1>1. IInv
  BY InitSound
<1>2. past.gone = {} /\ jobs = {} /\ lib.moved = FALSE /\ lib.calls = {} /\ lib.selected = {}
      /\ lib.list = RowsOf(Begin) /\ lib.rendered = Begin
  BY DEF Init
<1>3. Begin \in Views
  BY MailAssumption
<1>4. \A v \in Views : /\ lib.memory[v] = IF v = Begin THEN RowsOf(Begin) ELSE None
                       /\ lib.session[v] = IF v = Begin THEN RowsOf(Begin) ELSE None
  <2> DEFINE c == [NoCache EXCEPT ![Begin] = RowsOf(Begin)]
  <2>1. lib.memory = c /\ lib.session = c
    BY DEF Init
  <2>2. \A v \in Views : c[v] = IF v = Begin THEN RowsOf(Begin) ELSE None
    BY <1>3 DEF NoCache
  <2> HIDE DEF c
  <2>3. QED
    BY <2>1, <2>2
<1>5. Whole(lib, Kept)
  <2>1. \A r \in Kept : r[1] \in Views /\ (r[1] = Begin => r \in RowsOf(Begin))
    BY <1>1, KeptRows DEF Rows, RowsOf, Kept
  <2>2. QED
    BY <1>2, <1>4, <2>1 DEF Whole
<1>6. HeldInv
  <2>1. /\ reads = {} /\ past.gone = {}
        /\ \A v \in Views : held[v] = IF v = Begin THEN RowsOf(Begin) ELSE None
    <3> DEFINE c == [NoCache EXCEPT ![Begin] = RowsOf(Begin)]
    <3>1. held = c /\ reads = {} /\ past.gone = {}
      BY DEF Init
    <3>2. \A v \in Views : c[v] = IF v = Begin THEN RowsOf(Begin) ELSE None
      BY <1>3 DEF NoCache
    <3> HIDE DEF c
    <3>3. QED
      BY <3>1, <3>2
  <2>2. \A r \in Kept : r[1] \in Views /\ (r[1] = Begin => r \in RowsOf(Begin))
    BY <1>1, KeptRows DEF Rows, RowsOf, Kept
  <2>3. RowsOf(Begin) \subseteq server
    BY DEF RowsOf
  <2>4. QED
    BY <2>1, <2>2, <2>3 DEF HeldInv
<1>7. QED
  BY <1>1, <1>2, <1>5, <1>6 DEF RowsInv, GoneInv, KeptInv, NothingLost

LEMMA RowsNext == RowsInv /\ [Next]_vars => RowsInv'
<1> SUFFICES ASSUME RowsInv, [Next]_vars PROVE RowsInv'
  OBVIOUS
<1>1. IInv'
  BY NextSound DEF RowsInv
<1>2. CASE User
  <2>1. ASSUME NEW v \in Openings \cup {Here}, OpenLibrary(v) PROVE GoneInv' /\ KeptInv'
    <3>1. v \in Views
      BY HereIsView, MailAssumption DEF RowsInv
    <3>2. QED
      BY <2>1, <3>1, OpenLibraryKept
  <2>2. ASSUME NEW rows, Select(rows) PROVE GoneInv' /\ KeptInv'
    BY <2>2, SelectKept
  <2>3. GoneInv' /\ KeptInv'
    BY <1>2, <2>1, <2>2, ChangeViewKept, RefreshKept, RemovalKept DEF User
  <2>4. QED
    BY <1>1, <1>2, <2>3, HeldNext DEF RowsInv, Next
<1>3. CASE Answers
  <2>1. GoneInv' /\ KeptInv'
    BY <1>3, ListCallKept, PutListKept, AccountsAnswerKept, FoldersAnswerKept DEF Answers
  <2>2. QED
    BY <1>1, <1>3, <2>1, HeldNext DEF RowsInv, Next
<1>4. ASSUME NEW j \in jobs, JobStep(j) PROVE GoneInv' /\ KeptInv'
  BY <1>4, RequestsKept, CardsGoneKept DEF JobStep
<1>5. CASE UNCHANGED vars
  <2>1. /\ lib' = lib /\ server' = server /\ past' = past /\ jobs' = jobs
        /\ held' = held /\ reads' = reads
    BY <1>5 DEF vars
  <2>2. GoneInv'
    BY <2>1 DEF RowsInv, GoneInv
  <2>3. Kept' = Kept /\ Here' = Here
    BY <2>1 DEF Kept, Here
  <2>4. NothingLost' = NothingLost
    BY <2>1, <2>3 DEF NothingLost, JobOnView
  <2>5. KeptInv'
    BY <2>1, <2>4 DEF RowsInv, KeptInv
  <2>6. HeldInv'
    BY <2>1, HeldStays
  <2>7. QED
    BY <1>1, <2>2, <2>5, <2>6 DEF RowsInv
<1>6. QED
  BY <1>1, <1>2, <1>3, <1>4, <1>5, HeldNext DEF Next, RowsInv

\* The invariant about the rows holds in every reachable state.
THEOREM RowsInvariant == Spec => []RowsInv
BY RowsInit, RowsNext, PTL DEF Spec

\* A message that was removed while its mailbox stayed in view is never listed again, and
\* neither cache of the page holds it, nor that of the server, whatever answers come late.
THEOREM MailGone == Spec => []GoneStaysGone
<1>1. ASSUME RowsInv PROVE GoneStaysGone
  <2>1. \A r \in past.gone : r[1] \in Views
    BY <1>1 DEF RowsInv, IInv, Past, Rows
  <2>2. QED
    BY <1>1, <2>1 DEF RowsInv, GoneInv, HeldInv, Holds, GoneStaysGone
<1>2. QED
  BY <1>1, RowsInvariant, PTL

\* A cached list has every message of its mailbox that the user did not ask to remove,
\* until the cards of a removal go while another view than its own is shown.
THEOREM MailNothingHidden == Spec => []NothingHidden
<1>1. ASSUME RowsInv PROVE NothingHidden
  <2>1. CASE past.strayed
    BY <2>1 DEF NothingHidden
  <2>2. CASE NothingLost
    <3>1. ASSUME NEW v \in Mailboxes, NEW u \in Uids, <<v, u>> \in server \ past.tried
          PROVE  /\ lib.memory[v] # None => <<v, u>> \in lib.memory[v]
                 /\ lib.session[v] # None => <<v, u>> \in lib.session[v]
      BY <2>2, <3>1 DEF NothingLost, Whole, Kept
    <3>2. QED
      BY <3>1 DEF NothingHidden
  <2>3. QED
    BY <1>1, <2>1, <2>2 DEF RowsInv, KeptInv
<1>2. QED
  BY <1>1, RowsInvariant, PTL

=============================================================================
