------------------------------ MODULE MailLibrary ------------------------------
(***************************************************************************)
(* The list of the mail library in the browser                             *)
(* (src/static/js/emailLibrary.js): what it shows, what it caches, and     *)
(* which mailbox a deletion or an archiving goes to.                       *)
(*                                                                         *)
(* A UID names a message only within its account and folder, and the list, *)
(* the caches and the requests carry bare UIDs.  The account and the       *)
(* folder are read again after every await: by answers that arrive late,   *)
(* by the queue of a bulk action, and by the step that takes removed cards *)
(* off the list.  A sequence number, the account at the start and the key  *)
(* of the rendered view decide which answer still counts.                  *)
(*                                                                         *)
(* A row is a pair <<mailbox, uid>>: the program sees its uid only.  The   *)
(* filter and the attachments switch are further parts of a view that      *)
(* change as the folder does, and are left out with search, the scheduled  *)
(* folder, the prewarm and reading.  Mail only leaves a mailbox here.      *)
(***************************************************************************)
EXTENDS Naturals, FiniteSets

CONSTANTS
    Accounts,     \* configured mail accounts
    Folders,      \* names of folders
    Inbox,        \* 'INBOX'
    Mailboxes,    \* the folders each account really has, as pairs
    Begin,        \* the view at the start
    Openings,     \* views that callers open the library on
    Fallback,     \* folders the server names for an account it has not listed yet
    Uids,         \* message numbers, the same in every mailbox
    Width,        \* CONCURRENCY of a bulk action
    None,         \* null
    MaxInputs,    \* bound: inputs of the user
    MaxCalls,     \* bound: requests in flight when the user acts
    MaxReads      \* bound: mailboxes the server reads at once

Views == Accounts \X Folders
Rows == Views \X Uids

ASSUME MailAssumption ==
    /\ Mailboxes \subseteq Views /\ \A a \in Accounts : <<a, Inbox>> \in Mailboxes
    /\ Begin \in Mailboxes /\ Openings \subseteq Views
    /\ Inbox \in Fallback /\ Fallback \subseteq Folders
    /\ None \notin Views
    /\ IsFiniteSet(Accounts) /\ IsFiniteSet(Folders) /\ IsFiniteSet(Uids)
    /\ Width \in Nat \ {0} /\ MaxInputs \in Nat /\ MaxCalls \in Nat /\ MaxReads \in Nat

VARIABLES
    lib,       \* the state of the module, a record (see LibType)
    jobs,      \* removals under way
    server,    \* the messages there are
    held,      \* _LIST_CACHE of the server: the list it answered last for a view
    reads,     \* mailboxes read for a list that is not yet in there
    past,      \* history: messages the user removed, and how it went
    inputs     \* number of inputs so far

vars == <<lib, jobs, server, held, reads, past, inputs>>

Cache == [Views -> {None} \cup SUBSET Rows]
ListCall == [seq : Nat, view : Views, fast : BOOLEAN, forced : BOOLEAN, kept : BOOLEAN,
             served : BOOLEAN, rows : SUBSET Rows]

LibType ==
    [account : Accounts, folder : Folders,    \* state._libAccountId, state._libFolder
     list : SUBSET Rows,                      \* state._libEmails
     grid : {"rows", "spinner", "error"},     \* what the grid shows
     rendered : Views \cup {None},            \* _libRenderedViewKey
     selected : SUBSET Rows,                  \* state._selectedUids
     memory : Cache, session : Cache,         \* _libListCache and its copy in sessionStorage
     generation : Nat,                        \* _emailMailboxGeneration
     seq : Nat, calls : SUBSET ListCall,      \* _libLoadSeq, list requests in flight
     folderSeq : Nat,                         \* _libFolderSeq, folder requests in flight
     folderCalls : SUBSET [seq : Nat, account : Accounts, reset : BOOLEAN],
     accountCalls : SUBSET Accounts,          \* account requests, by the account at the opening
     moved : BOOLEAN]                         \* history: a folder answer moved the view off the list

Flight == [row : Rows, target : Views, done : BOOLEAN]
Job == [id : 1 .. MaxInputs, kind : {"delete", "archive", "bulk"}, rows : SUBSET Rows,
        from : Views, generation : Nat, moved : BOOLEAN,      \* history: the view at the start
        phase : {"overlay", "requests", "animation"}, todo : SUBSET Rows, flying : SUBSET Flight]

Past == [tried : SUBSET Rows, gone : SUBSET Rows, revived : SUBSET Rows, strayed : BOOLEAN]

View(s) == <<s.account, s.folder>>
Here == View(lib)

\* Type correctness.  The rows of one list come from one mailbox, the one whose key was
\* rendered; and a removal has requests to make or in flight exactly until its cards go.
TypeOK ==
    /\ lib \in LibType
    /\ \A r \in lib.list : r[1] = lib.rendered
    /\ jobs \subseteq Job
    /\ \A j \in jobs : j.phase = "requests" <=> j.flying # {}
    /\ \A j \in jobs : Cardinality(j.flying) <= Width
    /\ server \subseteq Mailboxes \X Uids
    /\ held \in Cache
    /\ reads \subseteq [call : ListCall, rows : SUBSET Rows]
    /\ past \in Past
    /\ inputs \in 0 .. MaxInputs

NoCache == [v \in Views |-> None]

RowsOf(v) == {r \in server : r[1] = v}

\* The library is open on a mailbox, and its rows have arrived
Init ==
    /\ server = Mailboxes \X Uids
    /\ LET c == [NoCache EXCEPT ![Begin] = RowsOf(Begin)]
       IN  /\ lib = [account |-> Begin[1], folder |-> Begin[2], list |-> RowsOf(Begin), grid |-> "rows",
                  rendered |-> Begin, selected |-> {}, memory |-> c, session |-> c, generation |-> 0,
                  seq |-> 0, calls |-> {}, folderSeq |-> 0, folderCalls |-> {}, accountCalls |-> {},
                  moved |-> FALSE]
           /\ held = c
    /\ reads = {} /\ jobs = {}
    /\ past = [tried |-> {}, gone |-> {}, revived |-> {}, strayed |-> FALSE]
    /\ inputs = 0

----------------------------------------------------------------------------
(* The caches and the list.  "fresh" says that a copy in sessionStorage is *)
(* within its ten minutes when it is read; an older one is dropped.        *)

Found(s, key, fresh) ==
    IF s.memory[key] # None THEN s.memory[key]
    ELSE IF fresh THEN s.session[key] ELSE None

\* A copy found in sessionStorage enters the memory cache
CacheRead(s, key, fresh) ==
    [s EXCEPT !.memory[key] = Found(s, key, fresh),
              !.session[key] = IF s.memory[key] = None /\ ~fresh THEN None ELSE @]

CachePut(s, key, rows) == [s EXCEPT !.memory[key] = rows, !.session[key] = rows]

Paint(s, key, rows) == [s EXCEPT !.list = rows, !.rendered = key, !.grid = "rows"]

Blank(s, key) == [s EXCEPT !.list = {}, !.rendered = key, !.grid = "spinner"]

\* Mutant: the selection survives a change of view.
Mutant_LeaveView_KeepsSelection(s) ==
    [s EXCEPT !.generation = @ + 1, !.seq = @ + 1, !.moved = FALSE]

\* The selection goes, and the answers under way are disowned
LeaveView(s) ==
    [s EXCEPT !.selected = {}, !.generation = @ + 1, !.seq = @ + 1, !.moved = FALSE]

\* Mutant: a list that is not empty stays until the new rows arrive.
Mutant_ResetList_KeepsList(s, useCache, fresh) ==
    LET key == View(s)
        hit == IF useCache THEN Found(s, key, fresh) ELSE None
        t == LeaveView(IF useCache THEN CacheRead(s, key, fresh) ELSE s)
    IN  IF hit \notin {None, {}} THEN Paint(t, key, hit)
        ELSE IF s.list # {} THEN [t EXCEPT !.grid = "rows"]
        ELSE Blank(t, key)

\* Before the rows of another view are asked for: cached ones are painted, and the list
\* stays only if it is that of the new view
ResetList(s, useCache, fresh) ==
    LET key == View(s)
        hit == IF useCache THEN Found(s, key, fresh) ELSE None
        t == LeaveView(IF useCache THEN CacheRead(s, key, fresh) ELSE s)
    IN  IF hit \notin {None, {}} THEN Paint(t, key, hit)
        ELSE IF s.list # {} /\ s.rendered = key THEN Paint(t, key, s.list)
        ELSE Blank(t, key)

NextLoad(s, kept) == [s EXCEPT !.seq = @ + 1, !.grid = IF kept THEN "rows" ELSE "spinner"]

Send(s, call) == [s EXCEPT !.calls = @ \cup {call}]

Done(s, call) == [s EXCEPT !.calls = @ \ {call}]

\* _loadEmails up to its first await: cached rows are painted, and asked for again only by force
Load(s, force, useCache, fresh) ==
    LET key == View(s)
        hit == IF useCache THEN Found(s, key, fresh) ELSE None
        kept == hit # None \/ s.list # {}
        t == NextLoad(IF useCache THEN CacheRead(s, key, fresh) ELSE s, kept)
        call == [seq |-> t.seq, view |-> key, fast |-> hit = None /\ ~force,
                 forced |-> force, kept |-> kept, served |-> FALSE, rows |-> {}]
        asked == IF hit # None /\ ~force THEN t ELSE Send(t, call)
    IN  IF hit # None THEN Paint(asked, key, hit) ELSE asked

LoadFolders(s, reset) ==
    [s EXCEPT !.folderSeq = @ + 1,
              !.folderCalls = @ \cup {[seq |-> s.folderSeq + 1, account |-> s.account, reset |-> reset]}]

----------------------------------------------------------------------------
(* The user goes from view to view.                                        *)

Input ==
    /\ inputs < MaxInputs /\ inputs' = inputs + 1
    /\ Cardinality(lib.calls) + Cardinality(lib.folderCalls) + Cardinality(lib.accountCalls)
         <= MaxCalls

InAccount(s, a) == [s EXCEPT !.account = a]
InFolder(s, f) == [s EXCEPT !.folder = f]

Opened(s, v) ==
    [s EXCEPT !.account = v[1], !.folder = v[2], !.list = {}, !.selected = {}, !.generation = @ + 1,
              !.moved = FALSE, !.accountCalls = @ \cup {v[1]}]

\* The library is opened, perhaps on an account and a folder of the caller's
OpenLibrary(v) ==
    /\ Input
    /\ \E fresh \in BOOLEAN : lib' = Load(Opened(lib, v), FALSE, TRUE, fresh)
    /\ UNCHANGED <<jobs, server, held, reads, past>>

\* Another folder, or another filter, is picked in the toolbar
ChangeFolder(f) ==
    /\ Input
    /\ lib' = Load(ResetList(InFolder(lib, f), FALSE, FALSE), TRUE, FALSE, FALSE)
    /\ UNCHANGED <<jobs, server, held, reads, past>>

\* The chip of an account
ChooseAccount(a) ==
    /\ Input
    /\ lib' = LoadFolders(Load(ResetList(InAccount(lib, a), FALSE, FALSE),
                               TRUE, FALSE, FALSE), TRUE)
    /\ UNCHANGED <<jobs, server, held, reads, past>>

\* The account in the settings of the library: the caches count here
ChooseInSettings(a) ==
    /\ Input
    /\ \E fresh \in BOOLEAN :
         lib' = LoadFolders(Load(ResetList(InAccount(lib, a), TRUE, fresh),
                                 FALSE, TRUE, fresh), TRUE)
    /\ UNCHANGED <<jobs, server, held, reads, past>>

Refresh ==
    /\ Input
    /\ \E fresh \in BOOLEAN : lib' = Load(lib, TRUE, TRUE, fresh)
    /\ UNCHANGED <<jobs, server, held, reads, past>>

\* Select mode: cards are ticked; numbers that are no longer listed stay selected
Select(rows) ==
    /\ rows \subseteq lib.list \cup lib.selected /\ rows # lib.selected
    /\ \A q \in rows, r \in rows : q[2] = r[2] => q = r
    /\ lib' = [lib EXCEPT !.selected = rows]
    /\ UNCHANGED <<jobs, server, held, reads, past, inputs>>

----------------------------------------------------------------------------
(* Answers.                                                                *)

Current(c) == c.seq = lib.seq /\ c.view[1] = lib.account

\* The server has not begun to read the mailbox
Asked(c) == ~c.served /\ c.view \in Mailboxes /\ \A p \in reads : p.call # c

Answered(c, rows) == Send(Done(lib, c), [c EXCEPT !.served = TRUE, !.rows = rows])

\* The server answers from its index or, unless the request forces it, from the list cache
Serve(c) ==
    /\ Asked(c)
    /\ \/ c.fast /\ lib' = Answered(c, RowsOf(c.view))
       \/ ~c.fast /\ ~c.forced /\ held[c.view] # None /\ lib' = Answered(c, held[c.view])
    /\ UNCHANGED <<jobs, server, held, reads, past, inputs>>

\* Or it reads the mailbox: an entry of the cache, if there was one, has expired
ReadMailbox(c) ==
    /\ Asked(c) /\ ~c.fast /\ Cardinality(reads) < MaxReads
    /\ reads' = reads \cup {[call |-> c, rows |-> RowsOf(c.view)]}
    /\ held' = IF c.forced THEN held ELSE [held EXCEPT ![c.view] = None]
    /\ UNCHANGED <<lib, jobs, server, past, inputs>>

\* What was read is cached, however old it is by now, and answered if the page still waits
PutList(p) ==
    /\ held' = [held EXCEPT ![p.call.view] = p.rows]
    /\ reads' = reads \ {p}
    /\ lib' = IF p.call \in lib.calls THEN Answered(p.call, p.rows) ELSE lib
    /\ past' = [past EXCEPT !.revived = @ \cup (p.rows \ server)]
    /\ UNCHANGED <<jobs, server, inputs>>

\* The full request that follows the one to the index
Full(c) == [c EXCEPT !.fast = FALSE, !.served = FALSE, !.rows = {}]

\* Mutant: the rows are cached under the view that is shown when they arrive.
Mutant_ListAnswer_CachesHere(c) ==
    /\ c.served
    /\ LET s == Done(lib, c)
       IN  lib' = IF Current(c) /\ (c.fast => c.rows # {})
                  THEN CachePut(Paint(s, c.view, c.rows), Here, c.rows)
                  ELSE IF c.fast THEN Send(s, Full(c)) ELSE s
    /\ UNCHANGED <<jobs, server, held, reads, past, inputs>>

\* Rows arrive: those of the cheap index end the call only if there are any
ListAnswer(c) ==
    /\ c.served
    /\ LET s == Done(lib, c)
       IN  lib' = IF Current(c) /\ (c.fast => c.rows # {})
                  THEN CachePut(Paint(s, c.view, c.rows), c.view, c.rows)
                  ELSE IF c.fast THEN Send(s, Full(c)) ELSE s
    /\ UNCHANGED <<jobs, server, held, reads, past, inputs>>

\* Mutant: a failure leaves the spinner.
Mutant_ListFails_Silent(c) ==
    /\ lib' = IF c.fast THEN Send(Done(lib, c), Full(c)) ELSE Done(lib, c)
    /\ UNCHANGED <<jobs, server, held, reads, past, inputs>>

\* The index misses or takes too long, or the mailbox cannot be listed
ListFails(c) ==
    /\ LET s == Done(lib, c)
       IN  lib' = IF c.fast THEN Send(s, Full(c))
                  ELSE IF Current(c) /\ ~c.kept THEN [s EXCEPT !.grid = "error"] ELSE s
    /\ UNCHANGED <<jobs, server, held, reads, past, inputs>>

GotAccounts(s, a) == [s EXCEPT !.accountCalls = @ \ {a}]
GotFolders(s, c) == [s EXCEPT !.folderCalls = @ \ {c}]

\* The accounts are known: the folders are asked for, and the list again if the account
\* is no longer that of the opening
AccountsAnswer(a) ==
    /\ \E fresh \in BOOLEAN :
         LET s == LoadFolders(GotAccounts(lib, a), FALSE)
         IN  lib' = IF a = lib.account THEN s ELSE Load(s, FALSE, TRUE, fresh)
    /\ UNCHANGED <<jobs, server, held, reads, past, inputs>>

MoveToInbox(s) ==
    [s EXCEPT !.folder = Inbox, !.memory = NoCache, !.moved = @ \/ s.folder # Inbox]

\* The folders of the account, a fallback list, or none with an error: after a change of
\* account a folder that is not among them gives way to the inbox, and the caches go.
\* The request itself may fail too.
FoldersAnswer(c) ==
    /\ \E names \in {{f \in Folders : <<c.account, f>> \in Mailboxes}, Fallback, {}}, failed \in BOOLEAN :
         LET s == GotFolders(lib, c)
             wanted == ~failed /\ c.seq = lib.folderSeq /\ c.account = lib.account
         IN  lib' = IF wanted /\ c.reset /\ lib.folder \notin names
                    THEN MoveToInbox(s) ELSE s
    /\ UNCHANGED <<jobs, server, held, reads, past, inputs>>

----------------------------------------------------------------------------
(* Removals: deleting an open or listed message, archiving or trashing it  *)
(* from a menu, and the bulk actions.                                      *)

\* Requests go out, up to the width of the job, to the mailbox that is shown now
Launched(j, batch) ==
    [j EXCEPT !.phase = "requests", !.todo = @ \ batch,
              !.flying = @ \cup {[row |-> r, target |-> Here, done |-> FALSE] : r \in batch}]

\* Mutant: one request more than the width.
Mutant_Batches_OneMore(j) ==
    {b \in SUBSET j.todo :
       Cardinality(b) = IF Cardinality(j.todo) <= Width - Cardinality(j.flying)
                        THEN Cardinality(j.todo) ELSE Width + 1 - Cardinality(j.flying)}

Batches(j) == {b \in SUBSET j.todo :
                 Cardinality(b) = IF Cardinality(j.todo) < Width - Cardinality(j.flying)
                                  THEN Cardinality(j.todo) ELSE Width - Cardinality(j.flying)}

Start(kind, rows, overlay) ==
    LET j == [id |-> inputs + 1, kind |-> kind, rows |-> rows, from |-> Here,
              generation |-> lib.generation, moved |-> lib.moved,
              phase |-> "overlay", todo |-> rows, flying |-> {}]
    IN  /\ Input
        /\ IF overlay THEN jobs' = jobs \cup {j}
           ELSE \E b \in Batches(j) : jobs' = jobs \cup {Launched(j, b)}
        /\ past' = [past EXCEPT !.tried = @ \cup rows]
        /\ UNCHANGED <<lib, server, held, reads>>

\* A deletion first asks or shows an overlay on the card; archiving from a menu asks the
\* server at once.  (A deletion from a menu differs only in what stays selected.)
Remove(r) ==
    /\ r \in lib.list
    /\ Start("delete", {r}, TRUE) \/ Start("archive", {r}, FALSE)

\* Only Delete of the bulk actions removes mail.  It asks first, and nothing keeps a second
\* one from being started, since the key for it looks at the selection alone
Bulk == lib.selected # {} /\ Start("bulk", lib.selected, TRUE)

OverlayShown(j) ==
    /\ j.phase = "overlay"
    /\ \E b \in Batches(j) : jobs' = (jobs \ {j}) \cup {Launched(j, b)}
    /\ UNCHANGED <<lib, server, held, reads, past, inputs>>

\* Mutant: the server keeps its lists.
Mutant_ServerRemoves_KeepsLists(j, q) ==
    /\ q \in j.flying /\ ~q.done
    /\ server' = server \ {<<q.target, q.row[2]>>}
    /\ jobs' = (jobs \ {j}) \cup {[j EXCEPT !.flying = (@ \ {q}) \cup {[q EXCEPT !.done = TRUE]}]}
    /\ UNCHANGED <<lib, held, reads, past, inputs>>

\* The server removes the message that has this number in the mailbox of the request, and
\* with it the cached lists of the account
ServerRemoves(j, q) ==
    /\ q \in j.flying /\ ~q.done
    /\ server' = server \ {<<q.target, q.row[2]>>}
    /\ held' = IF <<q.target, q.row[2]>> \in server
               THEN [v \in Views |-> IF v[1] = q.target[1] THEN None ELSE held[v]] ELSE held
    /\ jobs' = (jobs \ {j}) \cup {[j EXCEPT !.flying = (@ \ {q}) \cup {[q EXCEPT !.done = TRUE]}]}
    /\ UNCHANGED <<lib, reads, past, inputs>>

\* A request ends.  An answer that names an error counts as one that does not; when the
\* network failed a bulk action goes on, and the other removals are given up
RequestEnds(j, q) ==
    /\ q \in j.flying
    /\ LET k == [j EXCEPT !.flying = @ \ {q}]
       IN  \/ \E b \in Batches(k) :
                jobs' = (jobs \ {j}) \cup
                        {IF b = {} /\ k.flying = {} THEN [k EXCEPT !.phase = "animation"] ELSE Launched(k, b)}
           \/ j.kind # "bulk" /\ jobs' = jobs \ {j}
    /\ UNCHANGED <<lib, server, held, reads, past, inputs>>

\* Mutant: the caches keep the rows that were removed.
Mutant_WriteBack_Never(s) == s

WriteBack(s) == IF s.memory[View(s)] # None THEN CachePut(s, View(s), s.list) ELSE s

\* Rows of a list read before they were removed, on its way to the page or cached since
Underway == (UNION {c.rows : c \in lib.calls}) \cup (UNION {p.rows : p \in reads}) \cup past.revived

\* Since the start the user has not gone elsewhere, and the rows were those of the view
Undisturbed(j) == j.from = Here /\ j.generation = lib.generation /\ ~j.moved

\* The list and, except after archiving, the selection lose the rows with these numbers
Without(s, numbers, kind) ==
    [s EXCEPT !.list = {r \in @ : r[2] \notin numbers}, !.grid = "rows",
              !.selected = IF kind = "bulk" THEN {}
                           ELSE {r \in @ : r[2] \notin numbers \/ kind = "archive"}]

\* Mutant: a bulk action takes off what is selected when it ends.
Mutant_CardsGone_Selected(j) ==
    /\ j.phase = "animation"
    /\ LET numbers == {r[2] : r \in IF j.kind = "bulk" THEN lib.selected ELSE j.rows}
       IN  lib' = WriteBack(Without(lib, numbers, j.kind))
    /\ jobs' = jobs \ {j}
    /\ past' = [past EXCEPT !.strayed = @ \/ ~Undisturbed(j),
                            !.gone = IF Undisturbed(j) /\ lib.memory[Here] # None
                                     THEN @ \cup (j.rows \ (server \cup Underway)) ELSE @]
    /\ UNCHANGED <<server, held, reads, inputs>>

\* The cards have gone: whatever is listed now loses the rows with these numbers
CardsGone(j) ==
    /\ j.phase = "animation"
    /\ LET numbers == {r[2] : r \in j.rows}
       IN  lib' = WriteBack(Without(lib, numbers, j.kind))
    /\ jobs' = jobs \ {j}
    /\ past' = [past EXCEPT !.strayed = @ \/ ~Undisturbed(j),
                            !.gone = IF Undisturbed(j) /\ lib.memory[Here] # None
                                     THEN @ \cup (j.rows \ (server \cup Underway)) ELSE @]
    /\ UNCHANGED <<server, held, reads, inputs>>

----------------------------------------------------------------------------
Answers ==
    \/ \E c \in lib.calls : Serve(c) \/ ReadMailbox(c) \/ ListAnswer(c) \/ ListFails(c)
    \/ \E p \in reads : PutList(p)
    \/ \E a \in lib.accountCalls : AccountsAnswer(a)
    \/ \E c \in lib.folderCalls : FoldersAnswer(c)

JobStep(j) ==
    \/ OverlayShown(j) \/ CardsGone(j)
    \/ \E q \in j.flying : ServerRemoves(j, q) \/ RequestEnds(j, q)

User ==
    \/ \E v \in Openings \cup {Here} : OpenLibrary(v)
    \/ \E f \in Folders : ChangeFolder(f)
    \/ \E a \in Accounts : ChooseAccount(a) \/ ChooseInSettings(a)
    \/ Refresh
    \/ \E rows \in SUBSET (lib.list \cup lib.selected) : Select(rows)
    \/ \E r \in lib.list : Remove(r)
    \/ Bulk

Next == User \/ Answers \/ \E j \in jobs : JobStep(j)

Spec == Init /\ [][Next]_vars

----------------------------------------------------------------------------
\* The rows shown are those of the account and the folder that are chosen, whatever answers
\* arrive late; only an answer that moved the folder leaves the rows of the old one.
ListOfView == \A r \in lib.list : r[1] = Here \/ lib.moved

\* What a cache holds for a mailbox came from that mailbox.
CachesOfTheirView ==
    \A v \in Views : /\ lib.memory[v] # None => \A r \in lib.memory[v] : r[1] = v
                     /\ lib.session[v] # None => \A r \in lib.session[v] : r[1] = v

\* Rows stay with the mailbox they came from, on the screen and in both caches, however the
\* answers to _loadEmails and the write-backs of removals cross the changes of view.
RowsOfTheirMailbox == ListOfView /\ CachesOfTheirView

\* A removal reaches another message than the one that was chosen only if the view changed
\* while it waited, or a folder answer had moved the view off the list.
WrongMailboxExplained ==
    \A j \in jobs : \A q \in j.flying : q.target # q.row[1] => q.target # j.from \/ j.moved

\* A message that was removed while its mailbox stayed in view, with no list under way that
\* was read before and the mailbox in the memory cache, is never listed again, and neither
\* a cache of the page nor that of the server brings it back.
GoneStaysGone ==
    \A r \in past.gone :
        /\ r \notin lib.list
        /\ lib.memory[r[1]] # None => r \notin lib.memory[r[1]]
        /\ lib.session[r[1]] # None => r \notin lib.session[r[1]]
        /\ held[r[1]] # None => r \notin held[r[1]]

\* A cached list lacks a message of its mailbox only if the user asked to remove it, or if
\* the cards of a removal went while another view than its own was shown.
NothingHidden ==
    past.strayed \/ \A v \in Mailboxes, u \in Uids :
        <<v, u>> \in server \ past.tried =>
            /\ lib.memory[v] # None => <<v, u>> \in lib.memory[v]
            /\ lib.session[v] # None => <<v, u>> \in lib.session[v]

\* The list does not load for ever: while the grid shows the spinner a request is under
\* way whose rows will be painted and whose failure will be shown, whatever was disowned.
SpinnerHasCall ==
    lib.grid = "spinner" => \E c \in lib.calls : Current(c) /\ ~c.kept

=============================================================================
