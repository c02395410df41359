# A verification of the Pi Runtime

TLA+ models of the program in this repository, the TLC runs that check them on
small instances, and the proofs, checked by TLAPS, of what holds for instances
of any size. Every definition is translated from the source; `PROJECT.json`
("map") names the lines each one stands for.

Contents: [the system](#1-the-system) · [how the modules are written](#2-how-the-modules-are-written) ·
[the modules](#3-the-modules) · [the runs](#4-the-runs) · [the proofs](#5-the-proofs) ·
[what is not modelled](#6-what-is-not-modelled) · [the plan](#7-the-plan)

## 1. The system

The program is a macOS application for working with coding agents. A SwiftUI
process (`src/macos/PiAgent`) starts and supervises one Node process, the
*Runtime* or *session daemon* (`src/src/server`, `src/src/sessiond`), and talks
to it over a private Unix socket: HTTP for commands, WebSockets for events. The
Runtime hosts the agents: *Pi* sessions inside its own process through the Pi
SDK, *OMP* sessions each in a process of its own that speaks JSON lines over
pipes. A web server stands between browsers and the daemon, and between one
machine and another.

```
  browsers ─▶ web server, other machines (Bridges, Machines, Settings)
                       │
  SwiftUI app ──HTTP, WebSockets──▶ routes ──▶ RuntimeCommandReceipts ──▶ ledger file
      │ launches, supervises          │             │
      ▼                               │             ▼
  Runtime process                     │   MultiRuntimeSessionService
                                      │     │                   │
   terminals, git, checkpoints,  ◀────┘     ▼                   ▼
   status, settings, packages,       PiSessionService     OmpSessionService ──▶ OmpRpcClient ══▶ omp
   logins, dialogs                    │    │    │
           SessionArchiveStore ◀──────┘    │    └────▶ SessionUnreadStore ──▶ catalog file
            index, session files           ▼
                              SessionNotificationStore, WorkspaceActivityService,
                              SessionEventHub ──▶ clients
```

The Runtime is one thread: between two `await`s nothing else runs. What makes
it hard is what happens *at* the `await`s (several requests for one session,
each with checks that may be out of date when they are used), its files (it may
die between any two writes, and writes fail), its clients (they lose answers
and ask again, they miss events and read snapshots), and its child processes
(they hang, break their protocol, and exit at any time).

### Components

"State" is what the component keeps from one operation to the next, "hard" the
behaviour a test hardly reaches, "correct" what the models state.

| component | state | operations | hard | correct |
|---|---|---|---|---|
| **Command receipts** `runtimeCommandReceipts.ts` | promises by commandId, persisted records, save queue, ledger file | execute a mutation under a commandId; recover the ledger on start | death between intent and outcome, failed saves, retries with another payload or to another process, retention | a mutation runs at most once per commandId; receipts never contradict one another; what began is on record |
| **Unread completions** `sessionUnreadStore.ts`, `piSessionService.ts` | catalog (identity, revision, completion order, unread sessions), activity, exclusions, pending save, publication queue, catalog file | activity changes, acknowledge, forget, reload, exclude, save worker, publication and its retries | saves that fail or coalesce, a lost file, publication during requests, batches put back | orders are never reused, clients are told only what is durable, acknowledgements are final and clear only what was seen, events go out in order and in the end |
| **Archive** `sessionArchiveStore.ts`, `sessionArchiveMigration.ts` | index file, archived files, operation queue; a staged copy of the legacy archive | archive, archive many, restore, delete, delete many, list with repair; migrate at start | a batch that fails half-way, death between file and index, a reader outside the queue | no message is lost, deleted sessions are gone, operations never block one another; the migration is one atomic move |
| **Cleanup, subtrees, pages, trees** `sessionCleanup.ts`, `sessionArchiveTree.ts`, `messagePaging.ts`, `subsessionTranscript.ts`, `sessionTreeProjection.ts` | none between requests | plan and carry out an archiving by the group; page a history; list a tree | sessions that are opened, used, archived or deleted between plan and deed; a history that grows between pages; trees with loops and doubled ids | a report says what was done; pages join without a gap; every entry is listed once |
| **Notification inboxes** `sessionNotificationStore.ts` | runtime states, inbox projections with buckets per generation, last revisions and watermarks | register, add, begin, commit and abort a replacement, dismiss, dismiss all, close, dispose | two generations in one inbox, rebinding to a session that another runtime owns, discard counts across them | deltas explain every change, discards are counted exactly, one owner per inbox, nothing is lost by an abort |
| **Dialogs** `extensionInteractionService.ts` | pending dialogs with timers and abort signals | open, answer, time out, abort, bind, rebind, close, dispose | answers, timers and aborts that race; runtimes that move from one session to another | a dialog ends once, and with its session unless its runtime left it |
| **Routes, multi-runtime service** `sessionRoutes.ts`, `multiRuntimeSessionService.ts` | the default runtime | every session route | fingerprints and owners that depend on what is listed; a restart with another default | a request reaches the runtime that owns its session; two requests under one commandId are taken for one only if they ask for the same |
| **Session access** `piSessionService.ts` | active runtimes, pending opens, tree locks, exclusive operations, prompts held back by a compaction, drain timers | prompt, read, navigate, archive, restore, reload, stop, abort | everything at each `await`; closing while opening; a navigation among prompts | one runtime per session, none orphaned, navigation alone, earlier work spared, queued prompts go out, requests end |
| **Session entries, commands** `piSessionService.ts`, `sessionCommandService.ts` | entries and their leaf, mutations under way, put-off work, pending selections | set a model, a level, a name; generate a name; navigate; fork, clone, reload, compact, import | names that take seconds, checks that are old when used | nothing is written behind a navigation, given names stay, replacements are alone |
| **Session and workspace activity** `piSessionService.ts`, `workspaceActivityService.ts` | activity by session, turns, shells, timers; a map by working directory | turns, shells, heartbeats, opening, closing; terminal commands | a closed runtime that goes on publishing | what is published is what the service holds, and in the end what sessions and terminals do |
| **Subsessions** `piSessionService.ts`, `spawnSubsessionTool.ts` | links in session files, armed children, waiting parents | spawn, track, yield, detach, recover, notify | restarts, files that cannot be read, work that ends while its end is announced | a parent hears once of each spell of work, and in the end |
| **Terminals** `terminalService.ts` | terminals, ptys, buffers, viewers, command runs | create, run, attach, write, continue, close | a pty that exits after its terminal was closed, a continued shell that does not start | the activity knows the shells that run; every viewer shows the same |
| **Git** `gitService.ts`, `gitCheckpointStore.ts` | checkpoint file, its queue; the repository | status, stage, discard, commit, revert, push; create and list checkpoints | agents, people and others at work between two git processes | history only grows; acknowledged checkpoints stay |
| **OMP runtime** `runtimes/omp/` | active and opening runtimes; per process: pending commands, failure, closing stage, identity; what frames say of the agent | open, command, change, branch, shell, start, stop, reload, dispose; read frames | a process that hangs, cannot be spawned, breaks the protocol, ignores SIGTERM, exits during a command; answers read between frames and used after them | no command waits for a dead process, one healthy runtime per session, requests end; what is shown of a process is so once all was read |
| **OMP framing** `ompRpcProtocol.ts`, `ompRpcClient.ts` | the decoder's buffers, the write queue | encode, write, decode | frames cut anywhere, or larger than the limit | frames arrive once, whole and in order |
| **Credentials** `oauthLoginFlowService.ts`, `legacyAuthMigration.ts`, `authService.ts` | login flows, keychain entries, migration journal, warnings of sessions | log in, answer, cancel, expire; migrate, roll back; tell sessions | a login committed after it was cancelled, deaths between entry and journal, an entry written whose answer is lost, overlapping changes | committed logins are shown; a user's login is never overwritten; a migration's record is true of its entries; sessions are told once |
| **Settings** `config.ts`, `configRoutes.ts`, `machineProxyRoutes.ts`, `ompConfigRoutes.ts`, `piPackageService.ts` | settings files, schema cache, mutation queue | update whole or in part, here or on another machine; install and remove packages | a change between read and write, older programs, an update of OMP | what was acknowledged is in effect; what was not named is unchanged |
| **Status and releases** `piWebStatusCache.ts`, `piWebReleaseLookupCache.ts` | two caches | read, force, invalidate | loads that overlap | no status from before a write; caches go forward |
| **Machines, bridges** `machineStore.ts`, `machineService.ts`, `*ProxyRoutes.ts` | registry file, health cache; sockets with buffers | add, change, remove, probe; bridge | overlapping changes, a torn file, sockets that open late | what was acknowledged is listed, what is cached is of the present address, no input is lost |
| **Streams and what the app shows** `sessionEventHub.ts`, `AppModel+Streaming.swift`, `AppModel+RuntimeLifecycle.swift` | sequence numbers per session; the app's transcript, stream generation, last sequence, pending recovery | publish, snapshot, load the history, open and replace a stream, recover, sleep, wake | history, snapshot and events that overlap or leave a gap, late answers of a replaced stream, restarts that begin sequences anew | what streams is shown as it was sent, no words shown go away, the stream comes up again and shows what was missed |

Not modelled, for the reasons in section 6: workspaces and files, the daemon's
composition, Docker commands, shared types, the native client's framing, the
native project migration, views and scripts.

### Interactions

- *Calls.* Clients reach every service through the routes; mutations pass the
  receipts first. `PiSessionService` calls the archive store, the unread store,
  the notification store and the dialogs, and none of them calls back. Sessions
  and terminals both write to the workspace activity.
- *Callbacks.* Runtimes call `PiSessionService` when an agent or a compaction
  starts and ends, when a runtime is replaced by another session's, and when an
  extension notifies or asks. OMP processes call through frames and their exit,
  ptys through output and exit. A change of credentials is told to the sessions
  through a listener.
- *Files.* The ledger and the catalog are each written by one worker in the
  order of the requests; the archive index by one operation at a time but read
  by anyone; session files by the agent and the archive both; the checkpoints
  through a queue; machines and settings by whoever comes.
- *Timers.* Retry of a publication, drain of held-back prompts, timeouts of OMP
  commands and of each stage of closing a process, heartbeats of activity,
  timeouts of dialogs, expiry and eviction of logins.

The hazards, each with its line and the properties that would catch it, are in
`PROJECT.json`.

## 2. How the modules are written

- One module per component, named for it; `VARIABLES` are the component's
  fields and files, each commented with the source's name. Variables marked
  *history* do not exist in the code: they record what happened so that
  properties can speak of it. No guard of a step of the program reads one, the
  counters that bound an exploration apart; a client acknowledges what it has
  `seen`.
- One action per operation, handler or step. A step is the code from one
  `await` to the next. Where the order of microtasks is certain, what follows
  is part of the same step or comes before anything else (`Settling`); where
  it is not, the continuations may come in any order.
- Data are abstracted to what the properties tell apart: a payload is a model
  value, a session file is the number of messages in it, a notification is its
  order, a timestamp is a small number.
- Bounds are constants named `Max...`, each in the guard of the action it
  limits. No other guard depends on them.
- Definitions commented *Variant*, *Mutant* or *A mutated ...* are plausible
  errors in the code. No action uses them: each property is paired in
  `PROJECT.json` ("mutants") with one or more that must break it.
- `MC<module>.tla` instantiates modules for TLC; the `.cfg` files give the
  constants their values. No definition is replaced. An MC module composes the
  components that one run checks: they either share state (Terminals and
  SessionActivity write the one WorkspaceActivity, `WorkspacesNext`) or are
  independent, and then the first state chooses which of them is at work
  (`component`) and the others rest. A run over independent components explores
  the sum of their states, never a product.
- Fairness is stated in the module, in `FairSpec` or a `...Fairness` conjunct;
  safety is stated of `Spec`.
- Where a component has one property for what several parts of the code must
  keep, it is a conjunction of named parts, each with its own comment and
  mutant.

## 3. The modules

### CommandReceipts

`RuntimeCommandReceipts` with its ledger file, the process that dies and is
started again, and the clients' view of its epoch.

| model | code |
|---|---|
| `records`, `persisted`, `queue`, `ledger` | the promises by commandId, `persistedRecords`, the chain of saves, the file |
| `Issue` | a client reads the epoch from hello and stamps a command |
| `Execute` | `execute()` up to its first await: unknown commands get a promise and a save of their intent |
| `Answer` | a promise that is settled answers, with 409 for another payload |
| `SaveSucceeds`, `SaveFails` | the write at the head of the queue; what its owner does next (run the mutation, settle) is part of the step |
| `ActionEnds` | the mutation returns or throws; its terminal receipt is requested |
| `Crash`, `Boot` | the process dies at any point; the next one reads the file and saves what it recovered |
| `Persist`, `Retentions` | the snapshot, cut to the newest `MaxRetained` by `startedAt` |

Each queued save carries the snapshot taken when it was requested. Two records
with the same time may each be the one that is cut; runs with one time
(`Times = {1}`) therefore cover clocks that step back, and `Skew` keeps
the possibility for larger instances.

Properties: `NoReplay`, `EffectsAreOnRecord`, `ReceiptsAgree` (one outcome, on
whichever side of a restart), and `NothingIsOutstanding` (a failed save does not
block the queue). All but the last are stated for commands the retention limit
never dropped; the limit is the documented end of the guarantee.

Violated: `StaleEpochsRefused`, what the documentation says of epochs, because
the native supervisor starts the next Runtime with the environment of the last.
The limit drops the intents of running commands too; after a death these are
not reported as failures, as the class comment has it, but unknown.

### UnreadCatalog

`SessionUnreadStore`, its persistence worker and file, and the publication of
mutations in `PiSessionService`, with one client whose request joins a
publication. Sessions of one working directory, since catalogs are filtered
by it and otherwise independent.

| model | code |
|---|---|
| `catalog`, `active`, `excluded`, `pending`, `saving`, `failed` | the fields of the store |
| `BecomesActive`, `Completes`, `Closes`, `Exclude`, `Forget` | activity changes, runtimes that close, sessions excluded, removals |
| `SaveSucceeds`, `SaveFails` | one turn of the worker, with its `.finally`, which starts the next |
| `publication`, `batch`, `queue`, `requested`, `retryTimer` | `unreadPublication` and the fields around it |
| `PublicationRetries`, `PublicationSends`, `PublicationFails`, `RetryFires` | the flush of the store within a publication, its result, and the timer |
| `ReadCatalog`, `Acknowledge`, `RequestRetries`, `RequestAnswered`, `RequestFails` | the routes' calls, through `flushUnreadPublications` |
| `Crash`, `FileLost`, `Boot` | deaths; a file that does not parse starts a new identity |

Properties: `OrdersNeverReused`, `ToldIsKept` (`ToldIsDurable`: what clients
were told outlives a death, and `AcknowledgedStays`), `AcknowledgesOnlySeen`,
`EventsInOrder`, and the liveness `NothingIsOutstanding` (`MutationsGoOut` and
`RequestsEnd`).

### ArchiveStore

`SessionArchiveStore` with the requests `PiSessionService` makes of it. Each
operation is a sequence of steps (`copy`, `write`, `remove`; `move`, `write`;
`discard`, `write`), every step may fail and the process may die between two. `list()` reads the
index and the directory outside the queue (`ListReadsIndex`,
`ListReadsSessions`) and has the store repair what it found (`ListHeals`). A
session goes on (`Continue`) only while it is not archived and no operation
waits for it, because `PiSessionService` closes its runtime first; what happens
in between is SessionAccess's subject.

Properties: `FilesAreKept` (`NothingLost`, `DeletedIsGone`), `OperationsEnd`.
The first two parts exempt the sessions that one
known fault reaches (`spoiled`, `leftover`), which violates
`RestoredIsComplete`: a copy left by a failed archive is taken for the session
at the next one, and the session file is removed.

### NotificationInbox

`SessionNotificationStore`, all synchronous: each action is one call of
`PiSessionService`. `Open`, `Rebind`, `Commit`, `Abort`, `Close` are the calls
around the creation, replacement and closing of runtimes; `Add` is a runtime's
notification under its generation, refused when that generation is being
replaced; `Dismiss`, `DismissAll` and `Read` are the clients'; `Dispose` ends
all. `events` are the deltas published by the last step. `catalogRevision`,
which counts all changes, is left out.

Properties: `ClientsFollow` (`DeltasExplain`, `RevisionsAdvance`),
`InboxesAreExact` (`CountsAreExact`, against the history of discards `owed` to
each bucket, and `InboxesHaveOneOwner`).

### SessionAccess

The concurrent requests for one session. A request has a place (`at`), the
await it stands at; `Begin` takes it to its first one, `Proceeds` to the
next. The shared state is what the code shares: `active`, `opening`
(`pendingSessionOpens`), the archive's index and file, the locks of tree
navigation and of tree-exclusive operations, `queued` prompts and their `timer`.

| model | code |
|---|---|
| `Writable`, `Lookup`, `Find`, `List`, `Opens` | `assertWritable`, `getOrOpen`, `getActive`, `openExistingSession`, which looks again after its reads |
| `CreationEnds`, `Opened`, `CloseResumes` | the end of a creation and the continuations of all that wait for it, in any order, before anything else |
| `Closes`, `CloseEnds` | `closeActive` |
| `Prompts`, `Drain`, `CompactionStarts`, `CompactionEnds` | prompts held back during a compaction and the timer that sends them |
| `NavigationEnds`, `HasInput` | tree navigation and the lock around it |
| `ArchiveCommits`, `ArchiveManyReads`, `ArchiveManyCloses`, `Restores` | the operations on the archive, through its queue |
| `Stop`, `Abort`, `AbortEnds` | stopping and aborting |

A read of the index or the directory counts from the step that uses its
result, which is the latest its content can be of; this leaves out results
older than that, not any order of the requests themselves. No two prompts have
the same text (equal ones are dropped by design). The SDK's session is
external: its `compaction_end` event and the reset of `isCompacting` are one step.

Properties: `RuntimesAreOwned` (`OneRuntime`, `NoneIsOrphaned`),
`NavigationIsExclusive`, `EarlierWorkIsSpared`, and `NothingIsOutstanding`
(queued prompts go out, requests end). Violated:
`ArchivedIsReadOnly`, what `assertWritable` says, by an archiving that commits
between a prompt's two looks at the index.

### OmpRuntime

`OmpSessionService`, the `OmpSessionRuntime`s it lists or opens, and
`OmpRpcClient` with its process. An action is the handling of one event: a
request (`Arrive`), a frame (`ComesUp`, `Answers`, `AnswersLast`, `Refuses`,
`RunEnds`, `Breaks`), a timer (`StartFails`, `TimesOut`, `CloseTimesOut`), the
exit (`Exits`), disposal. `Proceed` is what follows in waiting requests,
`CloseReturns` what follows in those that closed a runtime that is gone; both
come before the next event (`Settling`). `reload()` opens its runtime beside
`getOrOpen()`, whose map of openings does not know of it (`Opens(s, TRUE)`). A process can hang (`Hangs`), and then ignores
SIGTERM; nothing survives SIGKILL. It may fail to spawn (`unborn`) as long as
no executable is `installed`.

Here each frame comes in a chunk of its own, writes succeed at once and the
frames of one start are one answer (OmpFrames and Framing have what happens
inside a chunk, Framing the writes), and a session has a file as soon as its process is
up. Clients know sessions by their files.

Properties: `NothingPends`, `RuntimesServe` (`OneHealthyRuntime`,
`FailedAreUnlisted`), `NothingIsOutstanding`. Violated: `InstallingSuffices`, the
comment that OMP can be installed without a restart of the daemon.

### SessionStream

The selected session in the app, with the Runtime's side of its stream. The
transcript is joined from three sources that are not ordered with one another:
the history (`loadSelectedSession`), a snapshot of the message being streamed,
with the sequence number it was read at, and the events after it.

| model | code |
|---|---|
| `Delta`, `MessageEnds`, `Publish` | the session's events, stamped and sent by `SessionEventHub.publish` |
| `AnswersSnapshot`, `AnswersLoad` | `streamSnapshot()` and `messages()`, read at one point each |
| `streams`, with `at` | the task of `startSessionEventStream()`: connecting, asking for the snapshot, answered, streaming; `current` is whether its generation is the present one |
| `SnapshotReturns`, `EventArrives` | `applyStreamSnapshot`, `applySessionEvent` behind their checks of the generation |
| `Merged`, `Synchronized`, `Extended` | `mergeLoadedMessages`, `synchronizeStreamingMessage`, `appendAssistantDelta` |
| `StreamFails`, `RecoveryBegins`, `Reconnect`, `RefreshEnds`, `RefreshFails` | the retry loop, `scheduleOwnedRuntimeRecovery`, `refreshRuntime`, which ends in `replaceSessions` |
| `Sleep`, `Wake`, `Breaks`, `Restart` | the machine sleeps, connections break and lose a part of what was sent, the Runtime is started again and its sequences with it |

A message is the sequence of its deltas, so that a doubled or missing delta
shows. Messages have no id of their own, as in `RuntimeMessage`; rows are told
apart by whether their id is that of the placeholder, of the snapshot, or random. Pieces
tell messages apart for the properties; what the app compares is `Words(text)`, the
string, which may be that of another message too (a parameter: the run gives all
texts of a length the same words, the theorem is for any). A
replaced stream delivers at most the answer or event it had received. Other
events (tools, status, interactions) are left out: they share the sequence
and its check. `expected` and `after` say what was streamed when an event was
sent; `StreamIsInStep` compares it with what is shown. `RecoveryHeals` exempts
history requests that failed (`loadFailed`): the code shows an error and does
not repeat them.

Properties: `StreamIsInStep`, `RowsStay`, and the liveness `StreamRecovers`
(`StreamComesUp`, `RecoveryHeals`). `RowsStay` says that a message stays, and that
history which returns may take it only for another of the same words: a page read
before the second of two "Done." ended takes the second away. Violated: `NoGaps`, what the documentation asks of snapshot and
events, because the history is read independently of the snapshot: a message
that ends between the two is in neither, and its event is below the
watermark. A message that was streamed also keeps the placeholder's row beside
its own until the next one takes it.

### ArchiveMigration and ArchiveMove

`sessionArchiveMigration.ts`: the copy of the legacy archive into the configured
data directory when a daemon starts. `Attempt` is the next stage of it
(preflight, staging, checking, publication file by file, the link of the index,
the retirement of the legacy files), `Fails` a stage that throws and the
rollback that follows, `Die` the end of the daemon at any of them, `StartDaemon`
the next start. Meanwhile `ArchiveHere` archives into the destination, and
another program's `LegacyCopies` and `LegacyLists` into the source.

`ArchiveMove` is the abstract specification: one place holds the archive, and
one step moves all of it. `AtomicMove == INSTANCE ArchiveMove WITH ...` maps the
index, the published files and the retired source to it, and `MovesAtomically`
states that every behaviour of the migration is one of `ArchiveMove`, besides
that no record falls between the two places.

### SessionHistory, SessionTree, SessionCleanup

`SessionHistory` has the pages of `read_subsession`'s filtered view and those
clients load, with a session that grows between two requests; `PagesAreWhole`
joins the pages read so far and compares them with the history from where the
last began. `SessionTree` runs the walk of `projectSessionTree`
over every tree of up to `MaxNodes` entries, with doubled ids and parents that
run in circles: `TreeIsWhole` says that each entry is listed once, in pre-order,
siblings in order, and that only what must be refused is. `SessionCleanup` plans from one
look and closes, archives and deletes in the awaits after it; `ReportIsTrue`
compares its report with what it did.

### NotificationInbox's neighbours: ExtensionDialogs, SessionRoutes

`ExtensionDialogs`: `OpenDialog` under a timer and an abort signal,
`Ask` and `Respond` of any client, `TimeoutFires`, `SignalAborts`, and the
runtimes ("hosts") that serve sessions:

| model | code |
|---|---|
| `BindExtensions`, `Bound` | `create()` up to and after the binding of the extensions; `bindRuntime` |
| `BindFails` | its `catch`, before the runtime is listed or after |
| `RebindRuntime` | `setRebindSession`'s callback: a fork, a clone or an import moves the runtime to another session, or reloads it in its own |
| `BindTo` | `bindSessionExtensions`, which cancels the dialogs of the session that is bound |
| `CloseOwner`, `DisposeDialogs` | `closeActive`, which returns early when the session is not listed; `dispose` |
| `active`, `opening`, `loose` | the map of active sessions; creations between two awaits; runtimes another took the entry of, or closed while they rebind |

`DialogsEndOnce`: a dialog resolves once, with the answer of its kind
(`DialogsResolveOnce`); and while a runtime serves a session, what waits in it is of
its present binding; when none does, what waits is exactly the `strays`
(`NoneOutlivesItsSession`). A stray is what an extension opened while no runtime
served its session, and what a rebind to another session or a creation that failed
left: the code cancels the dialogs of the session that is bound, not of the one that is
left.

`SessionRoutes` lists every route with its effect on the service, whether it
runs under a command receipt, and its fingerprint, and how the multi-runtime
service finds the owner of an id and splits a batch. `RequestsAreFaithful`: a
request that is answered from a receipt asks for what the request behind that
receipt had done, and a request runs where its session is. `defaultRuntime` is what
the configuration says when the daemon starts (`Restart`); a receipt keeps, as
history, the default that it was written under. A request that names no runtime runs in
the default one; a bulk operation's reference that names none runs in Pi, whatever
the default is, and a retry that names none means what it meant under the default of
the receipt.

### Settings, OmpSettings, Packages, Machines

`Settings` is `config.ts` behind `configRoutes.ts` and another machine's
gateway: whole updates, selected ones that read, merge and write back
(`ReadSelected`, `PutSelected`, `AnswerSelected`), edits by hand, JSON or not,
environment overrides, and a machine whose program is older and keeps keys it
does not know. `UnnamedKeysStay`: a selected update changes only what it names
and no update loses unknown keys; `AcceptedIsInEffect`: success means the agent
profile was kept and the file loads. `OmpSettings` has the requests that list,
check and set OMP's settings key by key while `UpdateOmp` replaces the schema
they read (`SchemaIsCurrent`, `NoneIsSetUnchecked`). `Packages` is the queue of
package mutations (`PackagesAreKept`). `Machines` is the registry file with
its cache of health (`CachedIsPresent`, `AcknowledgedIsListed`): its changes are
not serialised, and the properties exempt those that overlapped (`lapped`).

### StatusCaches

The two caches behind `/api/pi-web/status`, with their sequence numbers: loads
that overlap, forced and ordinary, and writes that invalidate
(`StatusIsCurrent`, `CachesGoForward`, together `CachesAreCurrent`).

### Terminals, SessionActivity, WorkspaceActivity

`WorkspaceActivity` is the map of `workspaceActivityService.ts` with what its
subscribers were told; `Terminals` and `SessionActivity` extend it, and
`WorkspacesNext`, in MCCommandReceipts, composes them. `Terminals` has terminals, their ptys (which outlive
a closed terminal until the kill takes effect), command runs, output in a
bounded buffer, viewers and continued shells. `SessionActivity` has the turns, shell
commands, timers and heartbeats of sessions whose runtimes open and close; a
closed runtime (`"old"`) goes on publishing beside the new one.

Properties: `TerminalsAgree` (`ShellsAreRunning`, `AnnouncedIsCurrent`,
`ViewersAgree`), and that no session stays shown idle while it works or busy
after it ended (`WorkIsHidden`, `EndIsHidden`), in the liveness of the run. The
second exempts a session whose runtime was closed at work and opened again
(`overlapped`): section 6.

### Git, GitCheckpoints

`Git` has one repository with a submodule. A request is a chain of git
processes (`RunInWorktree` per worktree, `CommitIndex`, `RevertHead`, `Push`),
between which an agent edits, people stage and commit, and others push.
`HistoryIsKept`: the branch and its upstream only grow. `GitCheckpoints` takes
status and diffs, waits its turn, reads the whole file and renames a new one
over it, with failures and a death anywhere; `CheckpointsAreKept`: the file
holds what was acknowledged, in order. Git itself is external: it does what
`gitService.ts` relies on.

### SessionEntries, SessionCommands

`SessionEntries` is what writes into one session beside its agent: models,
thinking levels, names given or generated, work a navigation puts off.
`EntriesAreGuarded`: nothing is written behind a navigation
(`EntriesStandStill`), a generated name never replaces a given one
(`GivenNamesStay`), what was put off is done (`PutOffIsDone`). `SessionCommands`
has the commands that replace the session in a runtime or reload it; each looks
up names between its two checks. `ReplacementsAreAlone`: one of them at a time,
and no navigation beside it.

### Subsessions

One parent and its children: `SpawnCreates`, `SpawnRegisters`, `SpawnPrompts`
are the parts of a spawn, `HydrateScans`, `OpenChildScans` and `ScanRegisters`
the recovery from session files after a `Crash`, which a file that cannot be
read (`Unreadable`) interrupts. `Yield` ends the parent's turn until a notice
wakes it. `ParentIsToldOnce`: at most one notice for each spell of a child's
work, and a parent counts as recovered only when all its children are known; the
liveness of the run has the notice of an armed child arrive.

### OmpFrames, Framing

`OmpFrames` is what the daemon knows of a process from its frames: events change
it one by one, a refresh replaces it as a whole. The process speaks
(`ProcessSpeaks`), its answers are read in the order asked (`HandleAnswer`) but
what waits for them goes on only after the chunk (`Replaces`). Properties,
in `RuntimesServe`: `RestIsKnown` (a run that is over is not shown as running,
once all was read), `SnapshotsAreCurrent` (a snapshot and the events after it
add up to what a snapshot taken now has), `ShownShellsRun`.

`Framing` encodes frames into lines, large ones into chunk sequences, writes
them one at a time, cuts the stream anywhere and decodes it, `FramesArriveWhole`.
One byte of the model stands for a block of the source's limits: `MaxFrame` and
`ChunkBytes` keep the cases (a frame below, at and above the limit, a last
chunk that is full or not).

### LoginFlows, LegacyAuth, AuthWarnings

`LoginFlows`: prompts, answers of several clients, cancellation, expiry and
eviction, the storing of the credential and the resolution of the login, which
may come after the flow was given up. `LegacyAuth`: the migration of `auth.json`
into the keychain, its journal and rollback, with logins, failures and deaths
between any two steps, and writes that take effect though their answer is lost
(`WriteUnanswered`). `RecordsAreTrue` speaks of every entry that a migration wrote, marked
in its record or not: rolled back, none is left but those whose writing or reading
back failed (`unread`); verified, all are marked; and whenever the Runtime dies,
all but one. `AuthWarnings`: what sessions are told when the
credentials of their model's provider go, by listeners that run after the
change. Properties, in `CredentialsAgree`: `ShownCanBeAnswered`,
`CommittedIsComplete`, `RecordsAreTrue`, `LossesAreTold`; and
`NeverOverwrites`.

### Bridges

Session, event and terminal sockets through the web server, here and to another
machine. `InputArrives`: while a bridge stands, what a client typed since the
bridge could carry it is delivered, under way or buffered, once and in order.

## 4. The runs

Each run explores all reachable states of its instance (those of a violated
property up to the counterexample). A run of several components asks one
question of each; where they share no state the first state chooses the
component (section 2).

| run (configuration) | components and instance | states | question |
|---|---|---|---|
| `command_receipts` (CommandReceipts.cfg) | CommandReceipts: 2 commands, 2 payloads, a ledger of 1, 2 process starts. Git: 2 requests, 3 commits, 3 edits. GitCheckpoints: 2 makers, 4 checkpoints, 1 death. StatusCaches: 3 loads, 2 changes. WorkspaceActivity: 1 session, 1 terminal, 1 viewer, a buffer of 1 | 553 000 | Is a mutation run once, on record before it runs, and answered consistently, through failed saves, a death at any point, retries and retention? Does it settle? Do git and its checkpoints keep what was acknowledged? Are cached statuses current, and the activity what terminals and sessions do? |
| `command_receipts_epoch` (CommandReceiptsEpoch.cfg) | 1 command, 2 starts | – | Is a command for a dead process refused? **No.** |
| `unread_catalog` (UnreadCatalog.cfg) | 2 sessions, catalog limit 1, backlog 2, 2 completions, 2 faults, 2 identities | 766 000 | Does what clients were told survive, in order, and do their acknowledgements hold? Is every mutation sent, every request ended? |
| `archive_store` (ArchiveStore.cfg) | ArchiveStore: 2 sessions of up to 2 messages, 3 operations, 2 faults. ArchiveMigration: 3 records, 1 death, 2 errors. | 949 000 | Is a message ever lost, a deleted session left, the queue blocked? Is the migration one atomic move? |
| `archive_store_stale_copy` (ArchiveStoreStaleCopy.cfg) | 1 session, 3 operations, 1 fault | – | Does a restored session hold all its messages? **No**, after an archive that failed. |
| `notification_inbox` (NotificationInbox.cfg) | NotificationInbox: 2 symmetric sessions, inbox limit 1, 4 notifications, 3 generations, 6 of both. ExtensionDialogs: 2 dialogs, 2 sessions, 2 runtimes, 1 client. SessionRoutes: 2 ids, one of each runtime, either as the default, restarts. Settings: 1 edit. OmpSettings: 2 writers, 2 keys, 1 update. Packages: 2 mutators, 2 packages, 3 mutations. Machines: 2 machines, 2 users, 2 revisions | 1 552 000 | Do the deltas explain the inbox, and are discards counted once, through replacements, rebinding and reopening? Do dialogs end once, do requests reach their runtime, is what was acknowledged in effect? |
| `session_access` (SessionAccess.cfg) | SessionAccess: 3 requests of any kind, 1 compaction. Subsessions: 1 child, 2 spells of work, 2 faults. SessionEntries: 2 objects, 2 requests, 4 entries. SessionHistory: 3 messages, pages of up to 2. SessionTree: 3 entries. SessionCleanup: 2 sessions, one a fork of the other, 3 uses | 685 000 | Is there one runtime, none left behind, navigation alone, earlier work spared? Is a parent told once, are entries guarded? Are pages, trees and reports true? Does everything end? |
| `session_access_read_only` (SessionAccessReadOnly.cfg) | 2 requests | – | Is an archived session never written to? **No.** |
| `omp_runtime` (OmpRuntime.cfg) | OmpRuntime: 2 requests of any kind, 2 session ids, 3 runtimes. OmpFrames: 1 caller, 1 run with a message of 2 deltas, 3 frames on the way. Framing: 2 frames of 5 lengths. LoginFlows: 2 flows, 2 prompts. LegacyAuth: 2 providers, 2 migrations, 2 logins, 2 failures. AuthWarnings: 2 providers, 1 session, 4 changes. Bridges: 2 sockets, 2 messages. SessionCommands: 2 requests, 2 forks | 350 000 | Is a request ever left with a dead process, a session doubled, a state shown that is over? Do frames and input arrive, credentials agree, replacements exclude one another? |
| `omp_runtime_install` (OmpRuntimeInstall.cfg) | OmpRuntime alone | – | Does a request that comes after OMP was installed end? **No**, when one before found nothing to spawn. |
| `session_stream` (SessionStream.cfg) | 1 session, 2 deltas, of one message or two, 1 selection or reconnection, 1 fault; texts of one length have the same words | 425 000 | Is a delta ever shown twice or not at all, a row lost to an old answer but for one of the same words, the stream or what it missed never seen again? |
| `session_stream_gaps` (SessionStreamGaps.cfg) | 1 message, no fault | – | Is every message shown once nothing is on its way? **No.** |

### Why the bounds are enough

- *CommandReceipts.* Commands interact through the save queue and the ledger's
  limit, which two commands and a limit of one exhaust; one payload repeats and
  one contradicts. A second process covers recovery; recovery reads only the
  file, whose contents do not depend on how many processes there were.
- *UnreadCatalog.* With a limit of one, a second unread session is over it;
  with a backlog of two, a batch put back is trimmed. Two faults are a failed
  save and a death, or a save that fails twice. A second identity lets a stale
  acknowledgement meet a new catalog.
- *ArchiveStore.* A batch of two shows every split; three operations are an
  archive that fails, one that succeeds and a restore or deletion; two faults
  are a step that fails and a death.
- *ArchiveMigration.* Two legacy records are published in either order and a
  third is archived meanwhile; two errors are a stage that fails and a rollback
  that does.
- *NotificationInbox.* With a limit of one the second notification evicts and a
  dismissal reveals; three generations are a runtime, its replacement and a
  runtime of the other session, or one reopened.
- *ExtensionDialogs.* Two runtimes take a session from one another and move between
  two sessions, and each of them has a dialog: which session is left, closed
  and bound again are all there is. `MCFewDialogs` has one dialog take
  every kind, with a timer and a signal if it is a selection, while the other is a plain
  selection: dialogs meet only in the sessions they share.
- *SessionRoutes.* One record, and both defaults before and after it. No request that
  takes no command comes beside a record (`MCCommandsOnceReceipted`): it neither reads
  nor writes it.
- *SessionAccess.* Races of two requests need a third that shares what they left
  behind (an opening, a lock, the archive). There are four names for runtimes:
  a request creates one at most, and the timer's drain none.
- *OmpRuntime.* Two requests race for an opening, or one replaces what another
  uses; three runtimes are those of two requests and one being closed.
- *SessionStream.* Two deltas are an event before and one after each read; the
  fault or the selection replaces a stream with its events and answers under
  way, and the recovery that follows replaces it again. Sessions do not share
  streams, sequences or histories; two would add only that a history is
  shown under another session, which the code does not prevent. The two messages
  have the same words; that unlike ones stay apart is the theorem's, for any `Words`.
- *The others.* Where two requests race (git, checkpoints, packages, machines,
  OMP's settings, commands, model changes) there are two, and enough bounded
  steps for one to happen wholly inside the other. Caches have three loads, so
  that one settles after a later one and is settled over by none. Children of a
  parent are independent but for its list of links; the second spell of one
  child repeats all that is remembered of the first. Three entries make every
  shape of a tree that matters to one step of the walk: a chain, siblings, a
  circle. Frame lengths lie on each side of both limits.

### Fairness

- A file operation ends, in success or in an error (`SaveSucceeds \/ SaveFails`,
  `Operate`): Node settles each promise of `fs`.
- A mutation, a creation, an agent run, a tree navigation, a generated name and
  a compaction end. The first is an assumption on the called service (each is
  awaited by the code without a timeout); the others are the SDK's.
- A continuation whose promise is settled runs, and a timer that is set goes
  off, heartbeats among them: the event loop. Hence `WF` per request and per
  timer, never `SF`.
- Of OMP processes nothing is assumed but that SIGKILL ends them; whether they
  answer, hang or exit is open. What is fair is the code's timers. A login that
  a provider has begun resolves when its prompts are settled, and expires by
  its timer whatever the provider does.
- In the app, too, something happens as long as there is an answer, an event or
  a timer to handle (one `WF` for all of it: no order among them is assumed).
- Nothing is assumed of clients, sessions, faults, deaths and restarts.
- In a run of several components the liveness property is `[]<>~Outstanding`,
  where `Outstanding` names what waits in the component at work; each
  component brings its own fairness, and one that rests has nothing outstanding.
- `RequestsEnd` of UnreadCatalog is stated up to publications that are requested
  for ever, which is what `flushUnreadPublications` waits for.

## 5. The proofs

TLAPS checks what follows for every value of the constants that their
assumptions admit: any number of sessions, requests, processes, files, faults
and deaths. The bounds in the guards are constants as well, so nothing rests on
their being small. Eight modules hold the proofs, each beside the modules it is
about; a theorem about a component that is one of several in a run is stated of
that component's own specification (`FramesSpec`, `AuthSpec`, ...), one about the
composition of `MCSpec`.

| module of proofs | theorems | what is proved |
|---|---|---|
| `MCCommandReceiptsProofs` | `TypeCorrect`, `EffectsOnRecord`, `NeverReplayed`, `ReceiptsNeverDisagree` | `TypeOK`, `EffectsAreOnRecord`, `NoReplay`, `ReceiptsAgree` of the receipts |
| | `TerminalsAlwaysAgree`, `CachesStayCurrent`, `NothingIsEverUndone` | `TerminalsAgree`, `CachesAreCurrent`, `NothingIsUndone` of the composition |
| `UnreadCatalogProofs` | `UnreadInvariant`, `UnreadTypeCorrect`, `UnreadOrdersNeverReused`, `UnreadToldIsKept`, `UnreadEventsInOrder`, `UnreadAcknowledgesOnlySeen` | every safety property of the catalog |
| `ArchiveStoreProofs` | `ArchiveInvariant`, `ArchiveTypeCorrect`, `ArchiveKeepsFiles`, `ArchiveMovesAtomically` | `FilesAreKept`; the migration refines `ArchiveMove`, and no record falls between the places |
| `NotificationInboxProofs` | `InboxesStayExact`, `ClientsStayInStep` | `InboxesAreExact`; `ClientsFollow` of the inboxes |
| | `DialogsEndingOnce`, `RoutesAreFaithful`, `SettingsAreInEffect`, `SettingsUnnamedStay`, `OmpSettingsAreChecked`, `PackagesStay`, `MachinesStay`, `AcknowledgedStays` | dialogs, routes, settings, packages, machines; `AcknowledgedIsKept` of the composition |
| `SessionAccessProofs` | `AccessInvariant`, `AccessRuntimesAreOwned`, `AccessNavigationIsExclusive`, `AccessEarlierWorkIsSpared`, `SubsessionsTellOnce`, `EntriesGuarded` | a session's runtime, its subsessions and its entries |
| | `PagesStayWhole`, `TreesStayWhole`, `ReportsStayTrue`, `HistoryStaysTrue` | `PagesAreWhole`, `TreeIsWhole`, `ReportIsTrue`, and `HistoryIsTrue` of the composition |
| `OmpRuntimeProofs` | `NothingEverPends`, `OneRuntimeServes` | `NothingPends`; `OneHealthyRuntime`, `FailedAreUnlisted` |
| | `RestIsAlwaysKnown`, `SnapshotsStayCurrent` | `RestIsKnown`; `SnapshotsAreCurrent`, `ShownShellsRun` |
| `SessionStreamProofs` | `SessionStreamTypeOK`, `StreamStaysInStep`, `RowsStayShown` | `StreamIsInStep`, `RowsStay` of the app's stream |
| `MCOmpRuntimeProofs` | `RuntimesAlwaysServe`, `CredentialsStayAgreed`, `PartsStayApart` | `RuntimesServe`, `CredentialsAgree`, `InputArrives` and `ReplacementsAreAlone` of the composition |
| | `LoginsAreKept`, `InputIsKept`, `GateIsExclusive` | `NeverOverwrites`; `InputArrives`; `ReplacementsAreAlone`, of their components |
| | `FramesStayWhole` | `FramesArriveWhole` of the framing |

None needs fairness.

### Assumptions

All are in the modules that declare the constants, and TLC evaluates them in
every run. They say that bounds are natural numbers, that limits of the code
that must be positive are (`ConstantsAssumption`, `LimitsAssumption`,
`ArchiveBounds`, `MachinesAssumption`, `HistoryAssumption`), and that names that stand for "nothing" are
not the name of something (`NoneAssumption`, `NoneIsNoFile`,
`RecordsAreSessions`, `DialogsAssumption`, `ProvidersAssumption`, `InboxAssumption`). Four say more:
`SessionsAreFinite` (UnreadCatalog counts the unread sessions),
`OwnerAssumption` (SessionRoutes: a session id is of one runtime),
`TreeAssumption` (SessionTree: a tree may have two entries, as its second root is
another than the first) and `FramingAssumption` (the text of a frame is not empty and within the limit that
`encodeOmpRpcFrame` enforces, and the line of a chunk is within the limit of a line:
the code's chunks are 256 KiB and its lines may have 1 MiB).

### The arguments

An invariant that a run checks is seldom inductive. What each proof adds is
what the code relies on without saying so.

- **Receipts** (`IInv`). `NoReplay` depends on the code never running a command
  it has a record of, hence on no record being lost. For a command that
  retention never dropped, the places its record can be in form a chain, in
  the order information flows back after a death:

      ledger file  →  queued snapshots, oldest first  →  persistedRecords  →  records

  `ChainOK`: a record present at one link is present at every link after it, so
  a snapshot that reaches the file never takes a record out of it, and what the
  file holds the process in memory knows. `IntentOK`: a command that waits for
  its intent to be saved has not run; `JobsOK`: who owns each save, at which
  stage; `StatusOK`: an outcome is known exactly when the mutation is over. The
  only step that runs a mutation is the one that saved its intent; so it had not
  run, and is on record. `AgreeInv` has the chain carry outcomes too: what
  is to be written says what memory says (`KeptOK`), once an outcome was saved the
  file and every later snapshot have it (`SnapsOK`, `FileOK`), hence what was answered
  is read again after a death (`AnsweredOK`), and "completed" is said only of what
  completed (`TruthOK`).
- **Terminals, caches, git** (`TerminalsInv`, `CachesInv`, `GitInv`,
  `CheckpointsInv`). A terminal shown to be over has no process, so that a
  continued one cannot run two. The load to be kept has read what the last write
  left, unless its invalidation is due: an answer can be stale only if its number is not
  the latest. A checkpoint is appended to what the file still holds, as only the
  first of the line has read it (`LineIsExclusive`), and under an identity that
  the file does not hold (`IdsAreNew`).
- **Unread catalog** (`UnreadInv`). The same chain, of versions:
  `disk`, `saving` and `catalog` are ordered by revision and by completion
  order (`ChainOK`), and what a client can be told of is in one of them, in the
  events that wait, or told (`Known`, `OrdersOK`). An acknowledged completion
  is behind every version (`AcksOK`).
- **Archive** (`ArchiveInv`, `MigrationInv`). Where the running operation is says
  which copies there are (`CopiesOK`, `SourcesOK`, `DataOK`): between the steps
  of a batch a file is in one place or both. The migration: what the
  new index lists was copied whole (`IndexedAreWhole`, `CheckedAreWhole`), the plan
  of an attempt stays what the legacy index says (`PlanHolds`), and a legacy record
  whose file is gone is in the new archive (`RetiredAreMoved`). The refinement maps
  the linking of the index to `Publish`, the first removal from the legacy one to `Retire`, the
  daemon's own first archive to `BeginOwn`, and every other step to a stutter.
- **Settings, packages, machines, dialogs, routes**. A queue whose head alone
  has read what it changes (`LineOK`, `CopyOK`); a cache entry or a probe that is
  of the address listed, unless the two overlapped (`ProbeOK`); a
  receipt that is of what every request asks for that has its fingerprint, under the default
  of the receipt (`ReceiptsOK`). Dialogs: a step makes a session unserved only after it
  cancelled its dialogs, or counts them as left (`ServingKeeps`, `LeftBehindAreStrays`).
- **Notification inboxes** (`InboxesInv`). The model keeps, beside what the code
  has, every notification that was discarded and not acknowledged (`owed`).
  Buckets are merged, cut down, handed to a candidate and taken back, so what
  makes the counts right is that each bucket counts what is owed of *its*
  generation, and that of an older generation only lower numbers are owed
  (`Counts`): acknowledging the oldest first, as the code does, then takes from
  the right bucket. What a client has not acknowledged of a snapshot are the
  discards of the last watermarks (`AckOK`, `Acks`): they are as many as the watermark rose
  by, or all that are left. `HasBuckets` and `StatesOK` say which buckets an inbox
  has: those of the runtime that owns it and of its candidate. `ClientsFollow` is the
  same invariant's: an event carries the inbox that the step leaves, its revision is the
  next one, and where no event is sent nothing visible changed. Which notifications
  are retained after a dismissal is about the largest numbers of a set
  (`NewestOfLess`, `NewestOfMore`, `NewestOfLater`).
- **Session access** (`AccessInv`). `opening` and `active` exclude each other and
  own the runtime that is being created or open (`OwnedOK`); one request closes
  a runtime (`ClosersOK`); who waited for a creation finds its runtime or none
  (`WaitersOK`); what works under a tree-exclusive operation began under it
  (`ActiveOK`). `SubsessionsInv` and `EntriesInv` are smaller.
- **OMP runtimes** (`RuntimesInv`, `QuietInv`). `NothingPends` follows from what a
  request at each await implies of its runtime and from the handling of an exit
  being one step. One healthy runtime per session is harder: each runtime that has a
  session, is to have it or is on its way out of it claims it, and no two claim
  the same (`Distinct`); that rests on what is listed, being closed, waited for
  and being opened (`HealthyAreListed`, `ClosingAreListed`, `WaitedAreListed`,
  `OpeningsAreKnown`).
- **OMP frames** (`FramesInv`). That the end of a run is known in the end, although
  refreshes overlap it and write back what they read before, is a disjunction
  (`EndInv`): the end is still on the line and what follows it tells of rest; or
  the refresh it caused is under way, and all that are older are handled before it;
  or it is known and nothing older is left. `TextComes` says that reading the
  line turns the text known into the text of the process.
- **Framing** (`FramingInv`). What a writer has written is a sequence of frames, each of
  one line or of many. A place in it is a frame, the lines of it that are before, and the
  bytes of a line. The pipe holds what lies between the reader's place and the
  writer's, however it is cut (`Writes`, `Reads`, `Meets`), and a decoder at a place holds
  the chunks before it and the bytes of an unfinished line; fed along
  any path it is in step with where the path ends, and has handed out the frames
  that lie between (`FedAlong`).
- **The app's stream** (in `SessionStreamProofs`). Events on a wire follow one another
  (`IsChain`), so that a wire and what is known before it determine what is
  streamed after each of its events (`GoesOn`, `LeadsTo`); the invariant says so of
  the stream that is shown, of those that were left, and of a snapshot whose
  answer is under way, which may be older than events that came before it
  (`ViewOK` and its parts). That rows stay rests on what a merge of a late page
  returns: the words of everything in the transcript or in the page (`MergedSays`,
  `WithoutKeeps`), by whatever string a text is.
- **Credentials, bridges, commands** (`AuthInv`, `LoginInv`, `WarningsInv`,
  `BridgesInv`, `CommandsInv`). A rollback has undone what it passed, unless a
  deletion failed; an operation knows all its entries but the one it reads back or
  could not (`OwnOK`), and its record all it knows but the one it is about to mark; a credential is stored before its login resolves; a loss
  that is owed has a change to tell it; what arrived, is on the wire and is
  buffered is what was typed, in order; the gate has one holder.

- **The past** (`HistoryInv`, `TreeInv`, `CleanupInv`). *Pages.* What a reader
  holds are the messages that match from where it is at up to where it began:
  as numbers a list of that set in order (`IsListOf`), of which there is one
  (`ListsAgree`), so that a page put before it gives the one of the larger set
  (`ListsJoin`). Messages that come meanwhile are past where it began. *Trees.*
  `Walks`: what was visited and what waits is all that was met, each of it reached
  from a root. In a tree without doubled parents an entry is met once; so when
  it is visited nothing under it was met before, and what waits of it is at the
  end of the stack, before anything else (`SpansFrom`): it is listed in one piece.
  Siblings wait in reverse (`Ordered`), and the path is one of parents that
  ends at the leaf (`Climbs`). *Cleanups.* What is still to be closed was neither closed
  nor skipped, and the report is of what was done so far.

*Induction over data.* The library's induction theorems take a predicate as a parameter,
which the provers cannot instantiate. Where a fold or a sum had to be reasoned about,
the proofs do it with sets: the numbers that refute a claim have a least one
(`WFMin` on `<` over `Nat`: `Inductive`, `LeastExists`), and a fold is the value of some
function that obeys its recurrence (`MapThenFoldSet` expanded; `FoldExists`, `SumOf`).
That is how `Without`, `Merged`, `Discarded`, the largest numbers of a
set and the decoder's walk over the bytes of a cut (`Feed`) are known for every
sequence and every set.

Each action has a lemma, with one step per conjunct it can disturb; operators
that several actions use have lemmas of their own (`PersistFacts`, `WithoutFacts`,
`TrimmedFacts`, `SummaryOfTheRest`, `OneMoreIsKept`).

### What the proofs changed in the models

A proof that failed for a good reason showed where a model said less or other
than the code:

- OmpRuntime: what follows the end of a closing came in any order with other
  events. In the code it is a chain of microtasks, and comes first
  (`CloseReturns` in `Settling`). `reload()` passed by the map of openings in
  the code but not in the model. With both as in the code, `OneHealthyRuntime`
  holds for any number of requests; before, it held for two only.
- OmpRuntime, too: a request whose next command is sent waits for one answer
  (`NextCommand`), and one that opens needs a runtime that is free (`Room`).
- StatusCaches: the currency of a status is about the step that shows it
  (`[][StatusIsCurrent']_cacheVars`), not about the ages of what is cached.
- NotificationInbox: the count of a bucket is any number, not at most the
  highest notification (that it is no more is what the counts being exact says), and `None`
  is no session, generation or projection (`InboxAssumption`).
- SessionStream: taking an event's message out of the rows is an operator
  (`Without`), as it is one in the code.
- Framing and StatusCaches: `Feed`, `Consume` and `Awaited` were `CASE`s whose arms
  overlap. TLC takes the first that holds, as the code's `if`s do, but TLA+
  leaves the choice open: they are `IF` chains now. The limits of the framing
  are assumptions with a name (`FramingAssumption`).
- GitCheckpoints: the line is left by its first, and the property names the
  places of the acknowledged checkpoints and that none is there twice, in
  terms that can be proved about (`SelectSeq` is recursive).
- SessionHistory: for the same reason, what a filter leaves is a set of numbers in
  order (`Ascending`). SessionTree: the children of an entry come in any order,
  as they do in the code, not only in the order of their numbers.

### Only model-checked

Liveness (`NothingIsOutstanding`, `OperationsEnd`, `StreamRecovers`), which needs
fairness and `ENABLED`, beyond this prover. Every safety property of a passing
run, invariant or action property, has a theorem; some of them are of a
component, as the table says, and the composition's step is one of each component's or
a stutter of it.

## 6. What is not modelled

`PROJECT.json` ("components") has every part with its status.

Left out, with no state of their own to go wrong over time: views, build
scripts, Docker and plugin tools, type declarations and the validation of HTTP
input; the composition of the daemon; paths of workspaces and file suggestions,
which read the file system and are about strings; the texts that trees,
transcripts and statuses show; `browserMessageProjection`; the reading of
summaries from OMP's session files. The native project migration has a journal
of the shape of the archive migration, over bookmarks that only macOS resolves.
The native client and supervision are Swift around sockets and processes: what
they repeat is in CommandReceipts, what they stream in SessionStream.

External, and present only as the outcomes the code distinguishes: the SDK's
sessions, the file system, git, the keychain, OMP's executable and its command
line.

Within modelled components:

- SessionAccess leaves out attachments, extension loading and model registries.
- SessionStream has one transcript with one kind of message, of a Runtime the app
  owns; unread badges, interactions, the global stream and project changes are
  not in it.
- UnreadCatalog and NotificationInbox have sessions of one working directory.
- Settings has one file; Machines stands for projects too, which
  `projectStore.ts` keeps the same way.
- OmpFrames takes OMP to answer in the order it was asked.

### What the code does that no property states otherwise

Reading the code for the models showed behaviour that its authors may not have
meant. The models have it, and properties exempt it where they would say
otherwise. The five findings in `PROJECT.json` are not repeated here. Two more
items contradict `docs/macos-native-app-plan.md` and have no run of their own:
a migration "must be repeatable, interruptible and recoverable" (line 622, in
Chinese), and a rollback "only deletes what the journal confirms this migration
created" (line 633); both are marked (*).

- *Sessions.* A runtime closed at work and opened again may leave its session
  shown busy (`overlapped`). A cleanup is not exclusive with requests that open
  what it planned to archive. `list()` may take a session that is being restored
  for one left in the archive, and archive it again. A setting whose
  session object was closed while its configuration was read writes to the
  closed object, and so does a generated name.
- *Dialogs.* A runtime that is rebound to another session, and a creation that fails,
  leave the dialogs of the session they leave pending: they are cancelled when it is
  bound again, or at the daemon's end (`RebindRuntime`, `BindFails`).
  The service's comment says that pending callbacks "are cleaned up on SDK abort, timeout,
  session replacement, and daemon shutdown" (`extensionInteractionService.ts:61`): those of the
  session replaced are not. An extension may also open dialogs after its session was
  closed.
- *Routes.* References of bulk operations that name no runtime go to Pi, also when the
  default is OMP, where the single operation goes. A command retried without a runtime after a
  restart with another default is answered for the old one.
- *Subsessions.* Detaching rewrites the child's file beside whoever writes it;
  a child that is stopped or closed is disarmed and its yielded parent is not
  woken.
- *Commands.* Pending selections never expire.
- *OMP.* `reload()` unlists the runtime before the new one is listed, and a
  request between opens a second. A failed runtime may be listed under the id it
  was renamed to. A refresh answered before a frame, and resumed after it,
  writes the older state over it: a running agent may be shown idle (an abort
  of everything then skips it) until the next refresh. The first of two shells
  to end clears the flag, and an abort does not reach the second. After a
  branch, events go out under the id the runtime was opened for. A decoder that
  throws drops the frames it had decoded from the same chunk. (The model's `reload()` takes the
  identity that it opens again when the process has exited, the code when it begins to
  close: they differ if a branch is answered in between.)
- *Terminals.* Command runs are never pruned; a continued shell that cannot be
  spawned leaves a record that says it runs.
- *Credentials.* (*) A rollback deletes what a later login stored under an entry it
  created, and does not announce it, so that no session is told. An entry that was written
  and whose answer or reading back failed is not marked: it stays in the Keychain while
  the record says rolled-back (`unread`). A migration that dies leaves its record
  "writing" with at most one entry unmarked, and nothing takes it up (line 633 of the plan leaves the
  recovery of entries that cannot be told to be the migration's out of scope). A session that left
  a model while its credentials came back keeps its warning and is not
  told of the next loss.
- *Archive migration.* (*) One interrupted after its first file finds its
  destination not empty, and is not tried again.
- *The app.* A page of history that was read before the second of two messages with the
  same words ended takes its row away until the history is loaded again
  (`mergeLoadedMessages`).
- *Git.* An undo reverts whatever the head is by then, a commit answers the head
  afterwards, a discard restores what it checked before, and a checkpoint's
  status and diffs are of different moments.
- *Machines, settings.* `machines.json` and `projects.json` are read, changed and
  written whole without a queue or a rename; a selected update of another
  machine's settings overwrites one made since it read; a probe under way when an address changes
  fills the cache with the old one's health; a request's timeout ends before
  its body is read; a failed forced lookup of a release is cached; a write of
  OMP's settings that fails midway is answered 400 with some keys set.
- *Sockets.* Session bridges drop what comes before the upstream is open;
  terminal and machine sockets miss what comes, or a close, during their lookup.
- *Receipts.* The retention limit drops intents of commands that run; after a
  death these are unknown, not failed.

## 7. The plan

Done: the modules of section 3, and the proofs of section 5, which reach every safety
property of the passing runs. What is left are parts of the code, not proofs.

Should modules be added: the app's other state (badges, notifications,
projects), and the supervisor's launch lock and nonce, composed with the
receipts' epoch.
