# Telemachos: TLA+ models and proofs

Telemachos is a self-hosted assistant: a FastAPI server (`src/app.py`, one
asyncio event loop, a SQLite database, JSON files), a browser frontend and a
macOS shell that embeds the server. Most of the code moves data between a
language model, tools and the user. What is hard to get right, and hard to
test, are the parts that keep work going while requests come and go: on the
server the agent runs detached from their HTTP response, the task scheduler and
the jobs that outlive the server; in the browser the document panel, the
navigation between chats, the life of a message and the list of the mail
library, where global variables outlive the chat, document or mailbox they were
set for. This directory models those parts in TLA+, checks them with TLC and
proves properties of the runs, the scheduler, the jobs, the document panel, the
navigation, the chat client and the mail library with TLAPS.

    tlc -workers 2 -config MCAgentRunsChain.cfg MCAgentRuns     # model-check
    tlapm AgentRunsProofs.tla                                   # prove

`PROJECT.json` lists the components, the runs, the mutants, the lines each
definition translates, the findings, the hazards and the theorems. Paths in it
begin with `src/`, the root of the repository.

## 1. Inventory

| Component | State it keeps | Operations | What makes it correct |
|---|---|---|---|
| Detached agent runs (`src/agent_runs.py`) | `_RUNS`: per session one `_Run` (buffer, status, subscribers, drain task, grace timer) | `start` (replaces and cancels), `stop`, `subscribe`, `_drain`, `_publish`, `_schedule_evict` | a client sees every event once and in order, whenever it connects; a replaced run saves before its successor writes; every response ends; a finished run is freed, never one that is being read |
| Task scheduler (`src/task_scheduler.py`) | tables `scheduled_tasks`, `task_runs`; `_executing`, `_task_handles`, `_run_semaphore` | poll loop, `run_task_now`, `stop_task`, `_execute_task`, chaining, deferral for the user, restart recovery | a task is dispatched once; the model slot is never leaked; a trigger that was accepted is served; no run row stays active |
| Event bus (`src/event_bus.py`) | `trigger_counter`, `next_run` of event tasks | `fire_event`, `_handle_event` | every n-th event fires the task once |
| Background jobs (`src/bg_jobs.py`, `src/bg_monitor.py`) | `bg_jobs.json`, per job a wrapper process and an exit file | `launch`, `refresh`, `kill`, `_prune`, the monitor's tick and follow-up | a record tells the truth; the result reaches the session at least once, and twice only across a crash |
| Foreground gate (`src/interactive_gate.py`) | active requests, last activity | wait for quiet | background work yields to the user |
| Tool approvals (`src/tool_approvals.py`) | pending sealed approvals | create, consume, claim, retire, expire | an approved action runs once, as sealed |
| Session store (`core/session_manager.py`) | cached transcripts, `sessions.message_count` | load, add, truncate, delete, clean up | the cache never shows less than the database for long, and no transcript is deleted by mistake |
| Shared cache (`_cached` in the scheduler) | values and pending futures | one fetch for many callers | every caller gets an answer |
| Local runtime, model catalogue, device flow, engine controller, webhooks | one process, one download, one login, one engine, one status | start / stop / poll / cancel | the last request wins, nothing is left behind |
| Document panel (`static/js/document.js`) | `docs`, `activeDocId`, the textarea, one autosave timer, the diff review, the edit animation, the streaming tab, the dock chip; the documents' rows | type, switch, close, open, create, delete, restore, review, save; the agent's stream and updates; a session's documents | no text reaches another document; no word typed is lost on the way |
| Session navigation (`static/js/sessions.js`, `modelPicker.js`) | `currentSessionId`, `_sessionNavToken`, `_pendingChat`, its promise, the address, the list | select, new chat, fresh chat, delete, peek, materialize, reload, default model | a history is painted for the open chat alone; a deferred chat is created once; a message goes where it was written |
| Chat client (`static/js/chat.js`) | `isStreaming`, `_streamGenerations`, `_activeStreams`, `_streamRunIds`, `_pendingRunStops`, `_backgroundStreams`, `_resumingStreams` | send, Stop, leave and return, resume, timeout, watchdog, recovery | a Stop reaches its run; sends arrive in order; the registry holds what is read; the composer opens again |
| Mail library (`static/js/emailLibrary.js`) | account, folder, rows, selection, the list caches, `_libLoadSeq`, `_libFolderSeq`, `_libRenderedViewKey` | open, change account or folder, refresh, select, delete, archive, bulk actions; answers of lists, folders and accounts | rows and caches belong to their mailbox; a removal reaches the message that was chosen; removed mail stays away and nothing else disappears |
| Agent loop, tools, research, memory, mail synchronisation, calendar, other routes and views | conversations and external services | | not state machines a model checker helps with; see section 7 |

How they interact. The chat route starts a run with a generator that is the
agent loop; the tools inside it launch background jobs. The monitor of those
jobs asks `agent_runs.is_active` before it re-invokes the agent in the session.
Routes fire events at the event bus, which stores `next_run` and calls the
scheduler's `run_task_now`. A request of the user marks the foreground active
and starts a coroutine that cancels the scheduler's background tasks. All of
them write the session store.

In the browser `sessions.js` decides which chat is open, calls
`detachCurrentStream` of `chat.js` when it is left, arms the timer that makes
`document.js` load the documents of the next one, and looks for a stream of it
to resume. `handleChatSubmit` asks `sessions.js` to create the deferred chat,
posts to the route that starts a run, and learns the run's name from a header.
The stream it reads feeds the document panel. `agent_runs.py` is the other end
of Stop and resume.

Hard behaviours. Everything on the server is one event loop, so races are
between awaits: a cancellation that arrives before a task's first step, while
it waits for another task, or twice; state read before an await and used after
it (`is_active`, `next_run` as an ORM session remembers it); a set that records
"in flight" while three different coroutines add to it and remove from it.
Around the loop there are crashes between two steps, processes that run on
without the server, timers, and users who stop what has not begun. In the
browser every handler is a coroutine of one thread too, the state is global to a
module, and the user acts between any two awaits: an answer, a timer or a
`finally` comes when the document, the chat or the message it was meant for is
no longer the current one. Each hazard
is listed in `PROJECT.json` at the line where it bites, with the properties
that cover it or the reason why none does.

## 2. Modules

| Module | Role |
|---|---|
| `AgentRuns` | the runs of one session, with their drain tasks, cancellations, buffers, clients and grace timers |
| `ReplayLog` | abstract specification: a growing log and its readers |
| `AgentRunsProofs` | theorems about `AgentRuns` |
| `AgentRunsRefinement` | the proof that `AgentRuns` implements `ReplayLog` |
| `TaskScheduler` | the scheduler of one owner's tasks with the event bus, the pause and resume routes and the foreground gate |
| `TaskSchedulerProofs` | theorems about `TaskScheduler` |
| `BackgroundJobs` | the jobs of one session: wrappers, store, `refresh()`, monitor, tool, restarts |
| `BackgroundJobsProofs` | theorems about `BackgroundJobs` |
| `DocumentEditor` | the document panel, the document routes and the events of the agent |
| `DocumentEditorProofs` | theorems about `DocumentEditor` |
| `SessionNav` | which chat is open, which deferred chat is created, and where a message is sent |
| `SessionNavProofs` | theorems about `SessionNav` |
| `ChatClient` | sends of several chats from the pressed button to `finally`, their Stops and their runs on the server |
| `ChatClientProofs` | theorems about `ChatClient` |
| `MailLibrary` | the list of the mail library: views, caches, late answers and removals |
| `MailLibraryProofs` | theorems about `MailLibrary` |
| `MC...` | instances for TLC; each `.cfg` says what it holds |

Each component module has its state as variables, one action per operation or
per stretch of a coroutine between two awaits, the properties, and next to the
definitions they alter the mutants (`Mutant` in their comment): the same
definition with a plausible mistake, each of which breaks a property.

### AgentRuns

One session stands for all: `_RUNS` is keyed by session and nothing crosses
sessions. A run is a number in order of start. `pc[r]` says at which await its
`_drain` task is suspended; `cancelled[r]` is the flag `task.cancel()` raises,
which the task meets only at its next step. A task cancelled before its first
instruction never runs its body (`unborn`), as asyncio does. Events are their
sequence numbers, so order, gaps and duplicates show while content does not.

| Code | Definition |
|---|---|
| `start` | `StartFresh`, `StartReplacing` (with `Supersede`, `Register`) |
| `stop` | `Stop` |
| `_drain` | `Begin`, `PredecessorDone`, `CancelledWaiting`, `LeaveBarrier`, `StreamEvent`, `StreamEnd`, `CancelledStreaming`, `CancelledClosing`, `CloseEnd` |
| `_publish`, `_wake_run_subscribers` | `FanOut` |
| `_schedule_evict`, `_evict` | `ScheduleEvict`, `Evict` |
| `subscribe` | `Subscribe`, `Replay`, `Take`, `HeartbeatTimeout`, `Flush`, `Leave`, `Disconnect` |
| resume route | `Resume` |

Abstractions: the 180 s grace timer fires at any time; a heartbeat is not an
event; a second cancellation of a generator that is already closing is
swallowed (the agent loop's cleanup does that); a Stop does not reach a task
before its first step, because the browser learns the run's id only later.

`ReplayLog` states what `subscribe` promises with none of the mechanism. `Log`
in `AgentRuns` instantiates it with a refinement mapping, and
`DeliversReplayLog` checks that every step of the one is a step or a stutter of
the other.

### TaskScheduler

The rows are `status`, `nextRun` (none, later or due: a clock with two hands),
`counter` and `row`, the status of the run of an execution, where every final
status is `closed`. The memory is `executing`, `handle`, `slot` and `queue`
(the semaphore of one) and the coroutines `exec`. A place in `Execs` is reused
when its coroutine has ended. `seen` records that the ORM session that will
write `next_run` loaded a non-null value: writing the value it believes is
there changes nothing, which is what decides whether an event's `next_run`
survives. Every section under `_executing_lock` is free of awaits, so the lock
needs no variable.

| Code | Definition |
|---|---|
| `_check_due_tasks` | `LoopTick` |
| `_handle_event` | `HandleEvent` |
| `run_task_now` | `RunTaskNow`, `ForceTaskNow`, part of `HandleEvent` |
| `_execute_task` | `Begin`, `Acquire`, `Finish`, `CancelWaiting`, `DeferIfDue` |
| `_execute_task_locked` | `Proceed`, `StartRun`, `Complete`, `CancelRunning`, `Interrupt` |
| `_run_chained` | `AlreadyInFlight` in `Begin`, the successor in `Complete` |
| `stop_task`, `stop_background_tasks_for_foreground` | `StopTask`, `StopBackgroundTasks` |
| `start` after a crash | `Restart` |

Abstractions: one owner; the executor and the delivery are one step of unknown
length; the wait for the cancelled monitor is part of `Complete`; commits
succeed; tasks are not created, edited or deleted meanwhile; the foreground
gate is one boolean. `Budget` bounds what the environment does.

### BackgroundJobs

The server's steps between awaits are actions, except `refresh()`: it blocks
the loop (`LoopFree`), but the wrapper scripts run on while it looks at one
thing after the other, so each look is a step: the exit file, the clock, the
pid, the exit file again. The wrapper creates the exit file empty before it
writes. A dead process may look alive (a zombie nobody reaped, a reused pid).
`EndScan` saves the store once, prunes, and continues in the caller, since no
await lies between: the monitor takes its list, the tool kills. A restart loses
`scan`, `monitor` and `turn` and keeps processes, files and sessions; two more
restarts hit the two windows where a write is half done.

| Code | Definition |
|---|---|
| `launch` | `Launch`, `CrashInLaunch` |
| `refresh`, `_prune` | `StartScan`, `Probe`, `EndScan` |
| `kill`, `manage_bg_jobs` | `ListJobs`, `KillJob`, `EndScan` |
| `_loop`, `_run_followup` | `Tick`, `PassOver`, `StartFollowup`, `FinishFollowup`, `FailFollowup`, `CrashBeforeMark` |

`turn` is `agent_runs.is_active` of the session; a follow-up is a headless run
of the agent that is not registered there, so both can be at work.

### DocumentEditor

`ed` is the module's global state, and its helpers are functions from record to
record, composed as the code calls them: `discardDiff` is the call
`exitDiffMode(true)` that handlers begin with. A text is the document it was
written for (`src`, `NoDoc` for text typed into an empty panel) and the set of
edits it contains, so that a text in the wrong document and a word that is gone
both show. Requests wait in `ed.sent`; the server serves them in any order and
the answers arrive in any order. `session` is the chat that is shown.

| Code | Definition |
|---|---|
| input listener, `_autoCreateFromInput` | `Type`, `AutoCreateReply`, `AutosaveTimer` |
| `saveCurrentToMap`, `saveDocument` | the same names, `SaveNow`, `SaveReply` |
| `switchToDoc`, `closeTab`, `_detachDocFromSession` | `switchToDoc`, `SwitchTab`, `CloseTab`, `detachDocFromSession` |
| `openPanel`, `closePanel`, the dock chip | `openPanel`, `closePanel`, `ClosePanel`, `FinishClose`, `RestoreChip`, `TrashChip` |
| `createDocument`, `loadDocument`, `deleteActiveDocument`, `restoreVersion` | `NewDocument`, `CreateReply`, `OpenDocument`, `OpenReply`, `DeleteActive`, `DeleteReply`, `RestoreVersion`, `RestoreReply` |
| `loadSessionDocs`, end of `selectSession`, document button | `loadSessionDocs`, `LoadTimer`, `LoadReply`, `SelectSession`, `ToggleButton` |
| `enterDiffMode`, `_resolveChunk`, `exitDiffMode`, diff toggle | `enterDiffMode`, `ResolveChunk`, `FinishDiff`, `exitDiffMode`, `ToggleDiff`, `VersionsReply` |
| `streamDocOpen`, `streamDocDelta`, `streamDocFinalize`, `handleDocUpdate`, `_animateDocEdit` | `StreamOpen`, `StreamDelta`, `migrateStream`, `UpdateArrives`, `AnimationEnds` |
| document routes | `Serve`, `Listed` |

Abstractions: a diff has one chunk, and the interleaved lines that a review puts
into the textarea are a text with the edits of both; the version before the
latest is the original; titles only decide whether a stream matches a tab of the
session, and titles and source e-mails whether an update of a document without a
tab takes over another one, so any tab may match; an update may or may not be
shown as a review (the user's setting and the length of the change).

### SessionNav

`nav` is the state of `sessions.js` that decides where the user is. Every
request and every awaited call is a record in `nav.calls` with what the code
remembers across the await: the token, the chat, whether a timer is armed. A
deferred chat is the number of its `_pendingChat` object, since the code
compares identities. `sending` is what `_sendInFlight` waits for.

| Code | Definition |
|---|---|
| `selectSession` | `selectSession`, `Select`, `Stale`, `LoadingTimer`, `HistoryReply`, `Paint`, `HistoryFails` |
| `loadSessions` | `Reload`, `ServeList`, `FreshRoot`, `ListTarget`, `ListReply`, `ListFails`, `AutoReply` |
| `createDirectChat`, `setPendingChat`, `setCurrentSessionId` | `createDirectChat`, `NewChat`, `PickModel`, `setPendingChat`, `FreshChat` |
| `materializePendingSession` | the same name, `PreMaterialize`, `ServeCreate`, `Settle`, `Kept`, `MatReply`, `MatFails` |
| `deleteSession` and its twin in the menu, `_arcPeekOpen`, `_ensureDefaultPendingChat` | `Delete`, `DeleteReply`, `PeekArchived`, `PeekReply`, `StartPick`, `PickReply` |
| `handleChatSubmit` up to the chat it posts to | `Press`, `CatalogReply`, `Adopt`, `Submit`, `Ended`, `DefaultReply`, `Resumed`, `Proceed`, `Confirm`, `Release` |

Abstractions: the document and other views that share the address are left
out, a message is known by where it was written and where it went, and a
message that has its chat is posted at once (what follows is `ChatClient`). Two
things may hold a message back (`Hold`): what begins with a slash is looked up
among the skills first, and what looks like a key has to be confirmed. Either
ends in any way, and a message that was held back is not in `posts`: it looks
for its chat only afterwards, or goes to the one that is open by then. The page
may start with any address and any remembered chat. A chat without messages may
lose its highlighted row when it is painted. Deletion from the keyboard, which
waits for the answer before it touches the page, is left out.

### ChatClient

A send is a number, and so are its generation, its `AbortController` and its
run. `cl` holds the maps of `chat.js` by chat or by send. An abort rejects the
pending fetch or read, whose `catch` and `finally` run as microtasks: while
`Unwinding` is not empty nothing else happens. The second half of `Next` is the
server with one run a chat, as `AgentRuns` has it in detail.

| Code | Definition |
|---|---|
| `handleChatSubmit` from its commit on | `Press`, `SwitchDone`, `Preflight`, `PreflightFails`, `Headers`, `Output`, `Finish`, `Aborted`, `Lost`, `Failed`, `Cleanup` |
| `abortCurrentRequest`, `_stopExactRun` | `Stop`, `StopChat`, `CurrentCtrl`, `AbortSend` |
| `_rememberStreamRunId` | `Headers` |
| hard timeout | `Timeout`, `HardAbort` |
| `detachCurrentStream`, `_syncForegroundStreamGlobals` | `detachCurrentStream`, `Open`, `Sync` |
| `checkBackgroundStream`, `resumeStream` | `Entry`, `Poll`, `ServeResume`, `Resumed`, `ResumeEnds` |
| `_probeStaleLocalStream`, `visibilitychange` | `StartProbe`, `ProbeReply`, `TabRecovery` |
| `agent_runs.start`, `stop`, `_drain` | `ServerStart`, `ServerStop`, `ServerDone` |

Abstractions: lines of the answer matter only as far as they mark a stream as
running in the background; `[DONE]`, the last render and `finally` are one
step, since no event of another send comes between that the properties see; the
queue of further messages and the confirmation of tools are left out.

### MailLibrary

A UID names a message within its account and folder only, and the program keeps
and sends bare UIDs. A row of the model is the pair of a mailbox and a UID, of
which the actions look at the UID alone; the mailbox is there for the
properties. `lib` is the state of the page, and as in `DocumentEditor` its
helpers are functions from record to record composed as the code calls them.
Requests for lists go through two steps, `Serve` and an answer, so that mail can
disappear in between; answers come in any order. `held` is the server's cache
of lists and `reads` the mailboxes it is reading: a request that is not forced
is answered from `held` if it is there, otherwise the mailbox is read
(`ReadMailbox`), and what was read is cached and answered later (`PutList`),
even if the page has given the request up. A removal drops the lists of its account.
A job is a deletion, an archiving or a bulk deletion from the press of the button
to the cards' end; several of any kind may be under way, since nothing
keeps a second bulk deletion from being started (`3116`).

| Code | Definition |
|---|---|
| `_libCacheGet`, `_libCachePut`, `_libSessionCacheGet`, `_libCacheWriteBack` | `CacheRead`, `Found`, `CachePut`, `WriteBack` |
| `_resetEmailListForFreshLoad`, `_resetBulkSelectionForContextChange` | `ResetList`, `LeaveView` |
| `_loadEmails` | `Load` up to the first await, then `ListAnswer`, `ListFails`, `Full` |
| `openEmailLibrary`, `_loadAccounts` | `OpenLibrary`, `AccountsAnswer` |
| `_loadFolders` | `LoadFolders`, `FoldersAnswer`, `MoveToInbox` |
| toolbar, chips, settings, refresh | `ChangeFolder`, `ChooseAccount`, `ChooseInSettings`, `Refresh` |
| select mode | `Select` |
| `_deleteEmailAndAdvance`, `closeAndRemove`, the menus, `_bulkAction` | `Remove`, `Bulk`, `Start`, `OverlayShown`, `Launched`, `RequestEnds`, `Without`, `CardsGone` |
| mail routes | `Serve`, `ReadMailbox`, `PutList`, `ServerRemoves` |

Abstractions: a view is an account and a folder (the filter and the attachments
switch behave as the folder does); a list has one page; the index the fast
request asks is up to date, and mail only leaves; a failed request and an
error in its answer are told apart only where the code does; the queue of a
bulk action may go in any order; the memory cache does not reach its limit of
24 views, nor the server's its limit of 64; the server's lists expire at any
time, with the next request for them. `past` and the fields `moved` and `from` are
history: which removals ran undisturbed, which rows were cached on the server
after their removal, and whether a folder answer had moved the view.

## 3. Runs

| Run | Bounds | Shows |
|---|---|---|
| `agent_runs_chain` | 3 runs, 1 client, no event but those of errors | `TypeOK`; two runs write at once only after a breach of the chain; an inactive run has saved; responses end, finished runs are freed, a replacement proceeds |
| `agent_runs_stream` | 2 runs, 1 event, 2 clients | delivery without gap, duplicate or truncation; the timer belongs to the registered run and spares readers; refinement of `ReplayLog` |
| `scheduler_trigger` | 2 tasks chained in a circle, 2 executions, threshold 2, 4 events, restart, pause, manual run, user | an accepted trigger keeps its `next_run` and is served; nobody waits for the slot for ever |
| `scheduler_stop` | 2 tasks, 3 executions, a stop, a forced run, a manual run, user | dispatched once, slot accounted for, no phantom runs |
| `scheduler_double` | 1 task | violation, see section 4 |
| `background_jobs` | 2 jobs, 1 turn, 1 tool call, 1 mishap | records are true; results are heard at least once, and again only across a crash; every recorded job is heard of |
| `document_editor` | 2 documents (one yet to be created), 2 sessions (one without), 4 requests and events in flight, 4 inputs | no text reaches another document but by the steps named; navigation drops no word |
| `document_review` | 3 documents, 3 sessions (one without), 3 in flight, 5 inputs | violation, see section 4 |
| `session_nav` | an ordinary chat, one of the Tasks folder, one archived, two new identifiers (used in a fixed order, since nothing tells them apart), 3 calls in flight, 3 inputs | paint, list, creation and delivery; the send button comes back |
| `session_sent` | none archived, 4 inputs | violation, see section 4 |
| `chat_client` | 2 chats, 2 sends, 3 events | queued Stops fire, posts in order, the registry is exact, the composer opens again |
| `mail_library` | 2 accounts, one with a second folder, 2 messages in each mailbox (symmetric), 1 request in flight when the user acts, 2 mailboxes read at once, 3 inputs, width 1, opened where it was left | types; rows and caches belong to their mailbox, removals to the message chosen; removed mail stays away and other mail does not disappear; no spinner without a request |

Why the bounds are enough. Three runs are the least in which a task can be cut
out of the middle of the chain, and a fourth would only repeat the middle. An
error adds two events, so a buffer holds up to three with `MaxEvents` = 1 and
a client can be before, inside and after the replay. Two clients are the least
in which one leaves while another reads. Two executions of one task are the
least for a double dispatch and three for one to outlive two others; threshold
2 is the least at which the counter is ever stored. Two jobs are the least
where one is probed, killed or awaited while another waits in the monitor's
snapshot. A handler of the panel meets a document that is left and one that is
entered: one that exists and one created during the run take both roles in
turn, beside a session without documents; four requests are
two answers in either order, the save of a text and room for what a handler
sends (with three, a document could not get its tab while the answer of its own
creation was still on its way: the attempt to prove the properties found what
that hid), and four inputs are, for example, open, type, switch and an event of
the agent. The folders of two
listed chats are the cases `ListTarget` tells apart; a second new identifier is
needed when the answer of a creation is lost. Two sends are one superseded and
one superseding, in one chat or in two, and an event more than two leaves
room to go, to come back and to stop. The chats of `ChatClient` are alike, so
`MCChatClient` starts in `a`. In the mail library two accounts with a folder that
one of them lacks are the least in which a folder answer moves the view, and
two messages of the same numbers in each mailbox the least in which a UID is
ambiguous and a bulk deletion has a queue; the numbers are compared for equality
alone, so they are symmetric. Openings of the library on another view than the
last (`Openings`) would double the states: what they have in common with the
choice of an account is in the run, and the proofs cover them. Two mailboxes
read at once are a read before a removal and one after it, or those of two views.
Three inputs are a removal and two changes of view, two bulk deletions and a
change, or a choice, a change and a return. The bound on requests in
flight holds for the user's actions only; answers may ask for more.

Between them the passing runs fire every action, and every property is broken by
a mutant under the same bounds; where a property joins several named parts
(`ExactDelivery`, `RecordsTrue`, `ToldAsRecorded`, `RegistryExact`,
`RowsOfTheirMailbox`, `NothingLeaked`) each part has a mutant of its own.

`CHECK_DEADLOCK` is off everywhere because every one of these systems may
rightly come to rest: no client, nothing due, no jobs.

### Fairness

* `AgentRuns`: drain tasks, the end of a closing generator, grace timers and
  connected clients are weakly fair: the loop runs what is ready, and a cleanup
  ends. A generator that is not cancelled may stream for ever, and the heartbeat
  timeout is never relied upon.
* `TaskScheduler`: ready coroutines proceed, executors end (model and tool
  calls have timeouts), time passes, the poll loop wakes within a minute, and
  the user is not active for ever (bounded by `Budget`); a user who never rests
  may starve background work by design.
* `BackgroundJobs`: a running job's time passes, `refresh()` ends, the monitor
  goes on and a turn of the agent ends, the last strongly fair because
  `refresh()` blocks the loop now and then but a ready coroutine still runs.
  Nothing is assumed of the commands: they may hang for ever.
* `SessionNav`: some request in flight is answered or fails (`WF` of `Answer`);
  calls are finite, so all of them are. The user need not answer a question, so
  `SendSettles` ends where one is asked. `DocumentEditor` and
  `MailLibrary` state no liveness; `SpinnerHasCall` is its safety part.
* `ChatClient`: the callbacks of a send run, the server serves a request that
  was posted and ends its run, as `AgentRuns` does when it is stopped and as the
  time limits of the model calls ensure. No fairness is asked of the user, of
  timeouts, watchdogs and lost connections, nor of resumes and polls.

## 4. What the violations show

* `NoDoubleDispatch` (`task_scheduler.py:340-343`): `stop_task` takes a task out
  of `_executing` while its coroutine lives; one that has not begun is not even
  cancelled, and the end of the old one removes the membership of the new one.
* `ReviewOfActive` (`document.js:10310-10316`, `10583-10590`, issue #2467): the
  diff toggle awaits the versions of one document and opens the review over the
  one that is active by then, and the list of a restored session is shown under
  an open review. Leaving the review writes the wrong text and saves it.
* `SentWhereWritten` (`sessions.js:1843-1846`): `_ensureDefaultPendingChat` looks
  at the open chat before it awaits the default model and not after. The next
  message of a chat opened meanwhile goes to a new one.

Met while modelling, without a run.

In `agent_runs.py`: saves of replaced runs are not always sequential
(`128-131`): a task cancelled before its first step does not wait for its
predecessor, and the barrier gives way to a second cancellation.
`OverlapNeedsBreach` shows that nothing else can cause it.

In the scheduler: chained, housekeeping and forced executions do not take the
slot that a comment (`task_scheduler.py:347-350`) says serialises all of them; a
running event job cancelled for the user's sake takes the path of a user's stop
instead of being deferred (`2279-2282`); only schedules are advanced after a
failure (`1108-1109`), so a failing event task is dispatched on every tick; the
end of a forced run clears a `next_run` that an event stored, and one stored
during any other run is kept or overwritten by what the session saw when it
loaded the task; `stop_task` can
mark as aborted a row that then becomes running; a once task that is stopped
stays active with no `next_run`; a fetch in `_cached` that is cancelled leaves
its callers waiting.

In the background jobs: a job of a deleted session is retried for ever, because
`get_session` raises instead of returning a false value (`bg_monitor.py:104`);
the session is asked whether it is busy before the agent runs, and written after
(`109`); a blank exit file makes a successful job look failed.

In `document.js`: `restoreVersion`, `_autoCreateFromInput`,
`deleteActiveDocument` and the last frame of `_animateDocEdit` act on the
document that is active when they end; `loadSessionDocs` with a minimised panel
sets `activeDocId` under the old screen and review; `handleDocUpdate` looks for
the textarea before it opens the panel; `openPanel` while the panel slides out
leaves a panel that is about to be removed; closing a tab in the background
saves the active one; leaving a review discards chunks that were accepted and
saved (`8796`); the timer that ends a review (`8801`) knows no review and ends the
next one; a review fills the textarea with the lines of both texts
(`8666-8670`), which an autosave meanwhile stores. `Crossing` and `Settled` name these steps. Three more came to
light when their properties were to be proved. The list of a restored session
makes a document active that has no panel (`7363`); the chip then opens an empty
textarea (`6886`), and `switchToDoc` first saves that emptiness over the tab's
text (`4471`), although the comment above (`6882-6885`) says it re-renders the
saved content: the document comes back blank. An answer of open or create that
comes after its document got a tab replaces the tab and the words typed in it
(`7388`). A document created from what was typed becomes active under the
review of another.

In the navigation: after the open chat was deleted, the next send opens it again
(`chat.js:401`); a failed load leaves its placeholder timer armed
(`sessions.js:1963`); a created chat whose answer is lost stays behind; a message
that is held back (`chat.js:1314`, `1441`) goes to the chat that is open when the
wait is over, not to the one it was written in.

In the chat client: the late answer of a resume names the old run after a new
message was sent (`chat.js:4962`); the watchdog's answer removes the registration
of a replacement (`4806`); coming back to a chat with a stream in the background
from one without aborts its reader (`4894-4901`); a failed upload while an older
stream of the chat runs leaves the composer streaming until Stop is pressed; a
send still preparing when the chat is left makes the next press in another chat
a Stop.

In the mail library: a folder answer that moves the view to the inbox (`3481`)
leaves the rows and the selection of the old folder, although
`tests/test_email_library_bulk_actions.py` says that "stale bulk selections
must die" with a change of folder; a deletion in that state goes to the message
of the same number in the inbox, and so does the rest of a bulk action's queue
after the user has changed the view (`8281`). The history fields say when, and
`WrongMailboxExplained` that there is no other way. The same answer clears the
memory cache but not its copy in `sessionStorage`, and an answer without
folders, which stands for an error, moves the view as well. A removal that ends
while its view is being loaded again writes the rows it finds, perhaps none, to
the cache (`2444`); one that ends in another view takes rows of the same numbers
off that one's list. A cached list ends a load (`4753`) although the comment
above it (`4700`) promises to "quietly refetch behind it", and leaves
`_libLoading` set, which keeps the prewarm waiting. The folder request sent when
the accounts arrive (`3151`) displaces one that should have moved the view. The
server drops the lists of an account when a message is removed, but one that it
was reading then is cached afterwards (`email_routes.py:2399`): the message comes
back to a view that is loaded from there, for up to `_LIST_TTL`, which is
45 s although `email_routes.py:1640` and `2339` say 8. `past.revived` has these rows.

## 5. What is proved

`AgentRunsProofs` and `AgentRunsRefinement` hold for any number
of runs, events and clients, from `AgentRunsAssumption` alone.

* `TypeCorrect`: `Spec => []TypeOK`.
* `OrderInvariant`: `Spec => []OrderInv`. `TypeOK` and the wanted properties are
  not inductive. `OrderInv` adds `ChainShape` (only the newest run is registered, each run
  waits for the one before it or for none), `StrikeCount` (cancelling a waiting
  task counts, so one that leaves the barrier early has been cancelled twice)
  and `Separated` (between a run that may still write and a later one that
  writes, or waits for nobody, lies a breached run). `SavesOverlapOnlyAfterBreach`,
  `InactiveRunHasSaved`, `NoStaleTimer` and `EvictionSpares` follow from it.
* `DeliveryInvariant`: `Spec => []DeliveryInv`. Its part `Feeds` relates the
  buffer, queue and position of each subscription: every event the client still
  lacks is in its queue, in increasing order and without repetition.
  `DeliveryIsGapFree` follows.
* `LogInvariant`: `Spec => []LogInv`, which adds what the ends of responses rest
  on. `StatusInv` ties a run's status to its task: a run ends before its task
  returns, one that ended while its task goes on was replaced, and an error is
  only ever the last word. `EndInv` says that a response is told to end, by a
  sentinel or otherwise, only once its run has ended. `ClosedIsComplete`
  follows, and with `DeliveryIsGapFree` it gives `DeliveredExactly`.
* `RunsImplementLog`: `Spec => DeliversReplayLog`. Every step maps to a step of
  `ReplayLog` or to a stutter: a step of a drain task, or a start that replaces
  a run, advances that run's log alone (`OwnStep`, `RunAdvances`); a step of a
  response opens, reads, completes or goes away (`ResponseReads`). The position
  of a reader is `next` because delivery is gap-free; that a live client reads
  the event after the last one, and none beyond the log, is `Feeds`; that a
  response completes only at the end of an ended log is `EndInv`.

`TaskSchedulerProofs` holds for any tasks of any kind, any chains, any number of
executions and any budget, from the assumptions of `TaskScheduler` alone.

* `SchedulerInv`: `Spec => []IInv`. `DispatchedOnce` is inductive with the types,
  because a task that was never stopped leaves `_executing` only with its own
  execution. `NothingLeaked` is not: it says where the holder of the slot is, but
  not that every coroutine past the semaphore is the holder, so that two could
  release one slot. `Accounted` states both directions for each coroutine (in the
  queue exactly while it waits, holder of the slot exactly while it is quiet or
  running and needs one, an open row only once it waits), and `QueuedOnce` that
  the one that is taken out of the queue leaves no second place there.
* `TypesHold`, `NoDoubleEntry` and `NothingLeaks` follow.
* `TriggersKept`: `Spec /\ []Undisturbed => []AcceptedTriggerKept`, where
  `Undisturbed` says that no run was stopped by hand or forced. Without it the
  property is false: two executions of one task overlap, and the end of one
  takes back the `next_run` the trigger of the other stored (section 4). With it,
  `TriggerInv` says that no running execution belongs to a task whose trigger is
  owed, so that none is left to write its `next_run`; it needs `DispatchedOnce`.
  The run `scheduler_trigger` has neither stops nor forced runs. Hence the
  stale write of `next_run` at the end of an execution (`Written`) is modelled, but
  no property depends on it.

`BackgroundJobsProofs` holds for any set of jobs and any bound on turns, tool
calls and mishaps, from `JobsAssumption` and `BoundsAssumption`.

* `JobsTypeCorrect`: `Spec => []TypeOK`.
* `JobsInvariant`: `Spec => []JobsInv`. The five parts of `RecordsTrue`
  and `ToldAsRecorded` together are not inductive, since they say nothing of what is half done. `WrapperInv` ties the
  wrapper to what it has written; `ScanInv` says that a verdict `refresh()`
  holds but has not saved stays true, which is why the file is looked at again
  after the pid; `RecordInv` says how often a session was told of a job whose
  record is in a given state; `SnapshotInv` says that what the monitor still has
  to do is still pending. The last is the heart of the argument: a snapshot
  taken before several awaits cannot lead to a second message, because nothing
  but the follow-up itself takes a job out of `Pending`: `_prune` needs a record
  that is followed up and `kill` one that runs.
* `EndsAreTrue` (`RecordsTrue`) and `SessionsHear` (`ToldAsRecorded`) follow.

`DocumentEditorProofs` holds for any documents and sessions and any number of
requests and inputs, from `EditorAssumption` alone.

* `EditorInvariant`: `Spec => []DocInv`. `TypeOK` is not inductive: an answer is
  applied to `stored[r.doc]` or gives its document a tab, so `Shaped` says which
  requests name a document (all but a creation under way and a list) and that
  an update needs no server. `EditorTypes` follows.
* `CrossedOnly`: `Spec => CrossedOnlyBy`. `CleanEditor` is the part of `Clean`
  about the panel, and `Makes(e, f)` that a helper makes of a record another one
  of the right shape, clean if the first was. Each helper of `document.js` has
  its lemma (`SaveMakes`, `SwitchMakes`, `OpenPanelMakes`, ...), and each handler
  is a composition of helpers, so that `MakesTransitive` gives its step. What is
  left are the assignments the handlers make between the helpers, and they are
  clean exactly outside `Crossing`. In `streamDocFinalize` and `handleDocUpdate`
  the record between two helpers is not clean, since a tab has been exchanged
  under the screen; `CleanRest` (tabs and requests alone) carries over to the
  end of the handler, which shows another text or one of the same document.
* `EditsKept`: `Spec => NavigationKeepsEdits`. `InHand(e, x)` says that an edit
  is on the screen, in a tab or in a request the server has not seen, and
  `Holds(e, f)` that a helper keeps all of them in hand. The lemmas on switching
  and closing say when: the screen's text must be that of a tab, or in a save
  already sent. The attempt to prove it without `Overwrites` and the guard on
  `HasText` failed for the reasons given in section 4.

`SessionNavProofs` holds for any chats, any identifiers of new ones and any number
of inputs and requests, from the assumptions of `SessionNav` alone.

* `NavInvariant`: `Spec => []NavInv`. It is a predicate `Sound` of the record
  `nav` and a budget. `Numbered` says that only the deferred chat made last can
  be the deferred chat of now; `Creations` that a creation is alone with its chat,
  that the promise is kept while its chat is the deferred one, and that an
  answered creation is on record in `made`; `Sending` that a message waits for
  the chat it was written in or for an older one. The budget counts the deferred
  chats made and the requests that may make one more, two for a message on its
  way: at most two for each input, and the first. That bounds `chats`, which
  `TypeOK` states.
* Each helper of `sessions.js` has a lemma: from a sound record it makes a sound
  one at a known cost. Each action is a composition of them and has one lemma,
  which also says what is painted and what a list may take away. That
  `loadSessions` finds a free token is the pigeonhole principle.
* `SentHome` is the deepest: the answer of a creation settles the message that
  waits for it, and that is the message of that chat because the waiting message
  was written in no older chat than it waits for, and the answered one is the
  last there is if it is still the deferred one. `NavTypes`, `CreatedOnce`,
  `PaintsCurrent` and `ListsKeepPlace` follow from the same invariant, the last
  two as properties of its steps.

`ChatClientProofs` holds for any set of chats and any number of sends and
events, from `ClientAssumption` alone: every send that overtakes another, every
chat that is left and opened again, every answer that comes late.

* `Invariance`: `Spec => []IInv`. `QueuedStopFires` is not inductive: it says
  nothing of a Stop whose header has not come. `StopKept` adds that the queued
  Stop waits under its own send until that send is over, and that a chat whose
  latest send has a name knows a run to stop, so that none is queued too late.
  `Counted` says that what is known of a send (its chat, its place among the
  posts, its Stop) belongs to one that was committed, so that a new send starts
  with nothing inherited. The parts of `RegistryExact`, `NoDeadRegistration` and
  `LiveRegistered`, are inductive together with the typing of the entries.
* The steps are sorted by what they do to the sends: those that leave all of
  them where they are but may abort some (`Keeps`, 13 actions), those that end
  one (`Cleans`), those that queue a Stop, those that drop an entry, and `Press`,
  `SwitchDone`, `Preflight` and `Headers`.
* `TypeCorrect`, `QueuedStops`, `Registrations` and `PostOrder` follow; the last
  because only the latest send may post, and the latest is the greatest.

`MailLibraryProofs` holds for any finite sets of accounts, folders and
messages, any width and any number of inputs and requests, from
`MailAssumption` alone.

* `MailInvariant`: `Spec => []IInv`. The properties are not inductive: an answer
  is painted by its sequence number and account, not by its view, so
  `CurrentOK` has to say that a call that still counts was made for the view
  unless a folder answer moved it, and then that nothing is cached for the view
  it was moved to. `OfView` says the same of the rows: a foreign list stands
  beside no cached one, so that the write-back after a removal, which looks for
  a cached list, cannot store it. `CallsOK` adds that the sequence numbers of
  calls are distinct, so that one answer leaves no other that counts.
* The argument follows the code: `Loose` holds whenever the view has just been
  changed, `ResetOK` restores `OfView`, and `LoadOK` restores the rest (`Sound`).
  Each action is one or two of these steps; the answers are `AnswerOK`,
  `ReplaceOK` and `DoneOK`, the end of a removal `WithoutOK`. A removal's own
  invariant is `JobOK`.
* `MailTypeCorrect`, `MailRows`, `MailTargets` and `MailSpinner` follow.
* `RowsInvariant`: `Spec => []RowsInv`, which compares every place that holds
  rows with the server. `GoneInv` says that nothing holds a message that is gone:
  not the list, a cache, nor an answer under way (`Holds`). `NothingLost` says that
  every place that is filled has all the messages of its mailbox that nobody asked to
  remove (`Whole`), and that a removal still working on the view finds them in
  the list (`OnView`), since it writes that list to the cache. All but the end of
  a removal only copies rows between these places (`Reads`), which keeps both.
  Once the cards of a removal go while another view is shown
  (`past.strayed`), nothing is claimed: that is the flaw of section 4. `HeldInv`
  says the same of the lists the server has read or cached, with one difference:
  a cached row that has left the server is in `past.revived`, because a removal drops
  the lists of its account and only `PutList` can bring such a row back.
* `MailGone` and `MailNothingHidden` follow.

## 6. What is only model-checked

* Liveness: `SubscribersClose`, `FinishedRunsEvicted`, `ReplacementProceeds`,
  `TriggerServed`, `QueueDrains`, `CompletionHeard`, `SendSettles`,
  `ComposerUnlocks`. They rest on fairness, and
  TLAPS 1.4.5 proves nothing about `ENABLED`.
* The three violations, which are counterexamples and need no proof.

No module declares a `RECURSIVE` operator, so none of them is closed to proof.

## 7. What is not modelled

* The agent loop, tools, research, memory, retrieval, mail synchronisation and calendar: what
  they do is decided by a language model or by services outside the repository.
  The modules see them as steps that end, fail or yield events.
* Most routes, which are thin handlers over the components, and the views of the
  frontend that fetch, show and change rows of the server (notes, calendar,
  settings, gallery, library, tasks): much text, mostly markup, little state.
  In the modules that are modelled, rendering, layout, titles, attachments,
  research, compare and group mode, and the e-mail and PDF panes; in the mail
  library search and its pills, sorting, paging, the scheduled folder, the
  prewarm, flags and bulk marks, reading and composing.
* Accounts, uploads, rate limiter: sequential checks on one store or under one
  lock, well served by unit tests.
* `core/atomic_io.py`: the modules take the atomic rename of a saved file for
  granted.
* Inside the modelled components of the server: the texts, prompts, outputs and durations; the
  content of events; several owners and several sessions, which share nothing
  the modules keep; commits that fail; editing and deleting tasks while they
  run; reuse of process ids beyond a process that looks alive.

## 8. Plan

In this order; the more important first.

1. `Notes` and the reading of mail: optimistic edits against answers that come
   late.
2. `SharedCache`, `ToolApprovals`, `SessionStore` on the server, then the
   composition of `SessionStore` with `BackgroundJobs` and `AgentRuns`.
3. `LocalRuntime`, `ModelDownload`, `DeviceFlow`, `EngineController`: small
   modules of the same shape, a controller and a worker it believes to own.

Abstract specifications worth stating next: at-least-once delivery for
`BackgroundJobs`, single flight for `SharedCache`, a one-shot permission for
`ToolApprovals`.
