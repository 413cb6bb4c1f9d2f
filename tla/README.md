# RoamCode in TLA+

RoamCode runs coding agents (and plain shells) in tmux on a developer's machine and shows them in
browsers. This directory holds TLA+ models of its server, the TLC runs that check them on small
instances, and proofs, checked by TLAPS, for the results that matter most. Paths below are relative
to the repository; `TM` is `packages/server/src/terminal-manager.ts`, `TR` is
`packages/server/src/transport.ts`.

## 1. Inventory

| Component | State | Operations | Hard behaviour | What makes it correct |
|---|---|---|---|---|
| `TerminalManager`, life of a session (TM, `terminal-process.ts`, `tmux-list.ts`) | record, PTY client, tmux session, subscribers, one spawn promise per record, clean-up paths | `create`, `createShell`, `attach`, `spawnForRecord`, exit listeners, `stop`, `reapIdle`, `rehydrate`, `sweepStaleMcpConfigs` | four awaits between "wanted" and "running"; `kill-session` is not awaited; server crash and restart over a live tmux server; fallback store | a stopped session never runs again; nobody watches a session without a process; work survives restarts; token files do not outlive their process |
| `TerminalManager`, activity (TM 805-1066, 1580-1671) | activity, awaiting, native evidence, detected agent | `applyRuntimeSignal`, `reportAgentState`, `write`, `refreshActivity`, `setViewing`, `detach` | four writers, one of which applies what it read before an await | provider evidence outranks the screen; a blocker is noticed, and never swallowed |
| Attention and pushes (TR 521-645, `command-center-store.ts`, `push-dispatch.ts`) | open items per session, one notification per tag | `onAwaiting`, `onActivityChanged`, `onViewed`, `onFinished`, a file shared (TR 2455-2540) | derived from callbacks in several orders; all of a session's pushes replace each other | items follow the blocker; what is dealt with comes down everywhere |
| `TerminalFlowWindow` (`terminal-flow.ts`) | queue, sent and acknowledged bytes, pressure, stall timer | `enqueueData`, `enqueueControl`, `acknowledge`, `setViewing`, `dispose` | water marks, split frames, dropped bytes of a hidden window, re-entrant callbacks | bounded backlog; no silent gap; pressure always released |
| Terminal socket route (TR 1105-1375) | attach state, last visibility, the window, the subscription | upgrade, `t:v`, `t:a`, input, close | frames that arrive before `attach` resolves | one stuck browser cannot hold the terminal for ever |
| Session store (`session-store.ts`) | rows by id; `memory-fallback` mode | `claimNew`, `setStatus`, `setProviderSessionId`, `delete` | opens empty when SQLite does not load | list and rows agree |
| Codex thread resolver, coordinator, persistence (`providers/codex-thread-*.ts`) | one process-wide lease, poison flag, provisional identities | `acquire`, `acknowledgeCancellation`, `resolveAfterSpawn` | deadlines racing acknowledgements; two sessions starting in one directory | a session never gets another's conversation |
| Codex app-server client (`providers/codex-app-server-client.ts`, `codexRpc` in `start.ts`) | generations, pending requests, write queue, shared start and stop promises | `start`, `stop`, `request`, `failGeneration` | late events of a replaced child; starts, stops and failures that race | one child at a time, asked only after the handshake; every call settled once |
| Updater, managed runtime, service, health watchdog | status file, install lock, releases, `current` and `previous`, the running server | `startUpdate`, `readStatus`, `installManagedRelease`, `acquireLock`, `roamcode install`, `restartService` | check and set separated by awaits; stale locks; the helper restarts the server that started it; two service managers | one installer at a time; always a release that boots; a status that ends, and tells the truth |
| Command centre (`command-center-store.ts`, `GET /api/v1/events/stream`, `subscribeCommandEvents`) | workspaces, placements, agents, items, a pruned event log; a browser's copy and cursor | `createWorkspace`, `ensureSession`, `removeSessionRecord`, `reconcileSessions`, `appendEvent`, the stream | a second database that a crash leaves behind; rows and their events written apart; cursors older than the log | no ghosts, no hidden session, no lost event |
| Idempotency (`transport.ts` hooks, `idempotency-store.ts`) | reservations in memory, answers in SQLite | `preHandler`, `onSend` | overlapping copies, restarts, answers not kept | carried out once; the first answer is repeated |
| Devices, tickets, rate limits, auth | pairing codes, one-time tickets | `claimPairing`, `consumeWithContext` | expiry | used once |
| Presence | leases by client, bounded in number | `heartbeat`, `release`, the sweep | expiry | lists who was here lately |
| Provider adapters, usage, metadata | caches | probes and parsers | external commands | results are inputs to the models |
| File, clipboard, service installation, CLI | none of its own | I/O | - | - |
| Browser's terminal socket (`web/src/ws/terminal-socket.ts`) | current socket, URL requests, timers, counts per socket | connect, handlers, `reconnect`, `setVisibility`, `close` | stale URL requests, stray sockets, late parses | comes back; acknowledges its own bytes |
| Shared layout (`App.tsx` 621-752, `putLayout`) | one document and its revision; per browser what is rendered, a revision, two flags, a timer | hydrate, seed, save, pull, `acceptSharedLayout` | saves that are late, refused or cancelled; a stream that breaks; rendering later than arriving | no save of a layout over one its author has not seen; every edit saved; all browsers end up with the last one |
| Split panes (`web/src/split/`, `App.tsx` 325-350, 1546-1616) | tree, focus, active session, sessions listed | split, close, pick, drag, select, reconcile | sessions end and return, layouts arrive | one pane per session; the focus is on a pane; what is selected is shown |
| Web client, the rest | dialogs, lists, caches of what the server says | rendering | - | - |

How they interact: the socket route calls `attach` and gives the manager callbacks for data, exit
and control frames; the manager calls back into the transport (`onAwaiting`, `onActivityChanged`,
`onViewed`, `onFinished`), which writes the command centre store and dispatches pushes; the flow
window calls the route's `onPressure` and `onClose`, which call the subscription, which pauses the
PTY. The browser's socket is the other end of the flow window. Every mutation of the API passes the
idempotency hooks; what it changes in the command centre reaches all browsers through the event
stream. The app-server client serves the Codex thread resolver's inventory and the metadata routes.
tmux outlives the server and is the only source of truth at boot. Browsers share one desktop layout
through the command centre: each saves the whole document, and learns of others' from the stream.

## 2. Modules

| Module | Models | Checked by | Proved in |
|---|---|---|---|
| `FlowWindow` | `TerminalFlowWindow`: a window is a record, each method an operator on it | `output_flow` | `Transport_proofs` |
| `OutputFlow` | the socket route, the subscription flags and `syncOutputPressure`, composed from one `FlowWindow` per browser | `output_flow` | `Transport_proofs` |
| `SessionLifecycle` | sessions over manager, PTY, tmux, store and crashes | `session_lifecycle`, `session_adopt` | `SessionLifecycle_proofs` |
| `AgentMonitor` | the activity of one session and what users are told | `agent_monitor` | `AgentMonitor_proofs` |
| `ThreadRegistry` | abstract: a thread is the identity of at most one session, at most once | `codex_threads` | `CodexThreads_proofs` |
| `CodexThreads` | the lease, the resolver, the provisional identity and the untracked fallback; implements `ThreadRegistry` | `codex_threads` | `CodexThreads_proofs` |
| `RpcCalls` | abstract: a call is settled once; a server that goes down takes its calls with it | `app_server` | `AppServer_proofs` |
| `AppServer` | the Codex app-server client and its children; implements `RpcCalls` | `app_server` | `AppServer_proofs` |
| `Updater` | the update: server, helpers, installs by hand, service manager, watchdog | `updater` | `Updater_proofs` |
| `TerminalSocket` | the browser's end of a terminal | `terminal_socket` | `Connections_proofs` |
| `CommandCenter` | the command centre's tables and log, the transport that writes them, the stream, a browser's copy | `command_center` | `Connections_proofs` |
| `Idempotency` | the hooks around a mutation and their records | `idempotency` | `Transport_proofs` |
| `SharedLayout` | the layout all browsers share: effects and callbacks of the client, the revision at the server, the stream | `shared_layout` | `Layout_proofs` |
| `PaneMap` | abstract: panes and what each shows, without the tree | `split_panes` | `Layout_proofs` |
| `SplitPanes` | the split tree and what one browser does with it; implements `PaneMap` | `split_panes` | `Layout_proofs` |

### FlowWindow and OutputFlow

A JavaScript method runs to completion, so a method of the window is one operator and a socket
event one action. The callbacks an event causes (`onPressure`, `onClose`, hence `detach` and
`syncOutputPressure`) happen inside it and are collected by `Settle`. Frames keep their kind and
size; their contents do not matter. `offered` is a history variable: the bytes fanned out to a
connection. A closed handler is reset to `NewWindow`, since its variables are unreachable.
`drain` has two forms, `WriteAll` and `WriteRoom`, because its loop either empties the queue or
stops inside the first frame that does not fit. `ReplayOK` in the proofs is about the replay a
joining browser is sent between two control frames.

### SessionLifecycle

`rec` is the record, `proc` the PTY client, `tmux` the sessions of the tmux server, `rows` and
`shelf` the store in use and the SQLite file behind a fallback. `AttachSpawns` starts
`spawnForRecord`; `Built`, `Checked` and `Resolved` are its continuations after `buildProcess`,
`preSpawnCheck` and the Codex resolver; each is one action because nothing else runs between two
awaits. `Settle` is what happens when the shared promise settles: it is cleared, and every call
that awaited it unsubscribes unless there is a process. A failed PTY spawn runs `kill-session`,
which stays in `killing` until tmux has done it (`KillDone`). `kept` is a history variable: sessions
whose row went to SQLite and that were neither stopped nor failed to start. `Crash` loses all
memory; `Boot` opens the store (SQLite or the fallback), and with a tmux inventory runs
`rehydrate`, then the file sweep. Of the rows whose tmux session lives `rehydrate` makes records
but of those it cannot read (no shell to be found, TM 1733; a provider that is not registered, 1763;
options it does not understand, 1777; a record that does not match, 1856): those keep row and tmux
session and are remembered in `unread`, a history variable. Which they are is a choice at each boot. The HTTP API creates shells; managed sessions come from
`TerminalManager.create` and from rows of earlier versions.

Results of provider code are choices: a build, a check or a start may fail, the resolver may
answer at any time. A boot without inventory adopts nothing, as in the code.

### AgentMonitor

One session, managed or shell. `pc` is where `refreshActivity` is: it takes the inventory, then
awaits the capture (`PaneCaptured`), then applies it (`SweepApplies` and its siblings), with every
other action in between. `Become` is what all writers do with a new activity; `OnActivityChanged`,
`OnViewed`, `OnFinished` and `OnAwaiting` are the transport's callbacks as functions of what was
told so far (`items`, `banner`). `FileShared` is an agent that shares a file: the push goes out
whether or not somebody looks, and since all of a session's pushes have one tag `banner` is a single
value that each of them replaces. The screen is a value: what the classifiers make of it, with
"plain" for idle without idle chrome and "unreadable" for a failed capture.

### CodexThreads

The sessions are those of one directory, since the resolver never matches a thread of another. A
fresh start gets a number when `resolveAfterSpawn` is called; the coordinator's queue is first in,
first out and all deadlines are equally long, so the number is also the place in the queue and the
order of expiry, and it names the thread which that start's codex will create. `pc` is where a start
stands, one value per await: in the queue, reading the snapshot, before the spawn, polling, at the
second look, waiting for the acknowledgement of a cancellation with or without a codex, or in the
check before a start without a lease. `Release` is the resolver's `finally` together with the
caller's `catch`: the lease goes to the first waiter before the caller, if it falls back, poisons the
coordinator. `PoisonAndRelease` is an unacknowledged cancellation, which poisons first. `owner`
(whose start a number was), `given` (threads that were ever exact) and `stray` (codexes started in
somebody else's window, or not listed when the server went down) are history variables.

`Crash` is a crash and the next start on the same SQLite store: codexes, their threads and exact
identities stay, provisional ones are cleared. One codex creates one thread; threads begun by hand in
the same directory, or with `/new`, are indistinguishable from it in the code and left out.

### AppServer

A generation is one child process with its pipes. A step is what the client does on one event, or
what one promise's continuation does, since anything can come between a promise's settling and its
continuation. A frame is in `inbox` once `stdin.write` was called with it and leaves `queue` when its
callback, and the drain event if asked for, have come; a response may arrive in between, and then the
call is answered by `Written`. `Failed` is `failGeneration`; a new child's first write may fail inside
`start` before its promise is shared, which is the second half of `Spawn`. `call` and `via` are the
callers behind `codexRpc`, each of which starts the client and then asks with whatever happened in
between.

`RpcCalls` is what they are promised. The refinement maps `up` to "a generation runs" and hides what a
caller waits for; its `Down` settles all calls of a generation in one step.

### Updater

The parties share files: the lock, `current` and `previous`, the releases, the status. An operation
is an update or rollback asked of the server, or `roamcode install`; `pc` follows it from the request
over the detached helper to the end, one step for each change others can see. The server's steps are
what lies between its awaits. `manager` is the service manager: systemd kills a helper with the
server it restarts, launchd does not but can lose the service (`Restart`). `Fails` is the `catch` of
`installManagedRelease` at any of its points, `HelperKilled` a death without it. `broken` and `torn` are
history variables: the lock of a helper at work was removed; a helper ended between the removal of a
release and the renaming of its replacement. `inFlight` is left out, since it never decides: it is
cleared whenever the status does not refuse. So are two ways into and out of an update: the `error` event of a
helper that could not be spawned, which comes later than `spawn` returns and marks the status failed, and the
migration of an installation from a git checkout, which happens once. Versions are ordered, and only they and whether a release
names its integrity are known of a release.

### TerminalSocket

A socket is numbered when it is opened. `urls` are requests for a ticket URL still under way,
`timers` armed timers whose name was taken by a newer one, `ws` the socket that counts. `flowEnabled`,
`received`, `parsed` and `parsedBytes` are variables of one call of `open`, hence functions of the
socket; what a closed socket's handlers knew is dropped (`Forgets`). The server's end sends chunks,
hears acknowledgements and ends connections as `OutputFlow` describes in full; here a socket that is
not current is eventually cut off by its stall timer (`Stalls`).

### CommandCenter

The store's methods are operators from tables to tables that also append events. Some are
transactions (`ensureSession`, `removeSession`, `reconcileSessions`: `Transaction`); the others commit a
row, the event about it and the pruning each on its own (`upsertAgent`, `recordAttention`, `updateWorkspace`,
and `createWorkspace` when a user calls it: `OneByOne`). A handler runs without yielding, so nothing sees the
state between two of its writes, but a crash may come there: every handler chooses for how many writes
the process lives (`left`, counted down by `Write` and `Transaction`), and at zero the rest is not done and
the server is down. Two histories say what such a crash leaves: `silent`, the topics whose
row changed and whose event was not written, and `misled`, the subscribers that were sent an event from
within a transaction that was never committed. Handlers compose the methods (`SyncAs` is `syncCommandAgent`) and
`Commits` writes the result and hands the events to every open stream. `SyncAll` takes the sessions in an order
that `CHOOSE` picks, the code in that of its map. Sessions come, report and go as the
terminal manager lets them; a crash may have removed a session from the session store and not from
the command centre. A boot without a tmux inventory changes nothing. A subscriber keeps a copy and a
cursor over its connections; `Connect` is the server's choice between the rest of the log and a
snapshot. `Keep` and `Every` stand for 10 000 and 100.

### Idempotency

All requests under one key: copies of one request and others that reuse the key by mistake. `reserved` is
the leader of `inFlightIdempotency`, `record` the stored answer, both named by the copy that ran.
`excuses` is a history variable: answers that died with the server, could not be kept, or expired.

### SharedLayout

`tab[b]` is what a browser keeps: `layout` is what is rendered and `next` what `setLayout` has queued;
`rev`, `hydrated` and `applying` are the three refs; `calls` are requests under way, with their answers
once the server has given one. `Effects` is what the two layout effects do, clean-ups first, whenever the layout
or the phase is new. A clean-up makes nobody wait for a seed or a save any more (`live`), but the request
may still arrive. `Done` is what is done with an answer. A document is the set of edits it was made with,
starting from what a browser had in its local storage: that one lacks an edit is how a save over an unseen
layout shows. `saved[n]` is the document of revision n; a revision is also the place of its event in the stream.

Layouts arrive in promise callbacks, which React 19 renders in a later task, and an edit of the user is rendered
before he can make the next or together with what else waits: `Render` is an action of its own, taken at any time after the update, and
timers, answers, announcements and edits may come first. `queued` says what waits, an edit or an arrived layout.
The code does not allow for this in three places, and the model does what it does there:

* an edit between a layout's arrival and its rendering is rendered with it; the effect sees `applyingRemoteLayoutRef`, clears it
  and arms no timer (`App.tsx:674`), so the edit is neither saved nor due;
* a timer that fires in that window saves the layout of before under the revision of the one that arrived (`:680`), and the
  server cannot tell;
* the answer to a first request or a save that comes in that window puts a revision back that the layout to be rendered is not of.

`crossed` is the history of the first and the last: something of the browser's own came in between (`Meanwhile`), and since then neither
another layout has arrived nor a save of this browser's been stored. `blind` marks a save whose timer fired in
the window or in a crossed browser, and `careless` the revisions such saves became. The properties except exactly these.

A stream that is interrupted and resumes from its cursor is only late; `Drop` is the interruption that is too long,
after which the server sends a snapshot.

Left out: the layout inside a snapshot, which the browser does not use (so one who subscribes after a save and asked
before it is not told, and `reset` does not make it ask); and a seed's or a first request's failure is not tried again in
the code until the layout or the phase changes, nor is it here. Dragging a divider and the like are edits as others.

### PaneMap and SplitPanes

A layout is a tree of leaves and the leaf in focus; direction and ratio of a split decide nothing here. The tree
operators are those of `layout.ts`, as recursive functions on the trees of depth up to `MaxPanes`, which is as deep as one with that many
panes can be. `normalize`'s loop over the leaves is a function of how many it has passed. A handler runs, is rendered and followed by its effects in
one action: `Lists` when the list of sessions is new (`normalize`), `Shows` when the active session is another.
What arrives in a callback is in truth rendered in a later task: a click in that window, whose handler was made for the
old tree, is not in the model, and neither is the drop of a session that ended while it was dragged (`onDropSession` does not look, `DropSession`
asks for `s \in sessions`). The list of sessions is whatever a poll brings. `Remote` are layouts of another browser, with up to two panes that no
session shares; `NewId` takes a number that is free where the code takes a random name. `MaxPanes` bounds splitting only.

`PaneMap` forgets the tree: a workspace is a map from panes to what they show. Dropping a session on the centre of a
pane, picking it, or dropping it on an edge is `Place` there when it was not shown, and moving a pane only `Look`s at it. A layout from
another browser (`Accept`) is any map that shows no session twice. Since any step that leaves the active session alone
could pass for such an arrival, `MapsPanes` asks of every other step of `SplitPanes` to be one of the rest (`Arrange`);
it implies `ViewSpec`.

Definitions whose name ends in `Mutant` are plausible slips of the definition they precede. Nothing
uses them; putting one in place of the original breaks the property it is listed with, which shows
that the property depends on that code.

## 3. Runs

| Run | Instance | Result |
|---|---|---|
| `output_flow` | 2 browsers, High 2, Low 1, MaxPending 2, chunks of 1 and 4 bytes, replay of 0 or 1 | all hold, about 92 000 states |
| `session_lifecycle` | 1 session of any kind, 2 attach calls, cap 1, 2 crashes | all hold, about 9 000 states |
| `session_adopt` | 1 session, 3 calls | violated: see below |
| `agent_monitor` | both kinds, 2 browsers, 1 agent | all hold, about 488 000 states |
| `codex_threads` | 2 sessions, 3 fresh starts, 1 crash | all hold, about 204 000 states |
| `updater` | 2 versions, 2 operations, 1 fault, both service managers | all hold, about 204 000 states |
| `app_server` | 3 calls, 2 stops | all hold, about 106 000 states |
| `terminal_socket` | 1 tap, 2 faults, 2 chunks, window of 1 | all hold, about 248 000 states |
| `command_center` | 2 sessions, 1 directory, 1 browser, log of 2 pruned every 2, 5 events, 1 crash, 1 drop | all hold, about 742 000 states |
| `idempotency` | 4 requests, 2 operations, 2 crashes, 1 answer not kept | holds, about 87 000 states |
| `shared_layout` | 2 browsers, 2 events: edits, or an edit and a fault | all hold, about 3 024 000 states |
| `split_panes` | 3 sessions, 3 panes | all hold, about 15 000 states |

Why the bounds are enough: in `OutputFlow` a chunk of 4 exceeds window and backlog together, one of
1 fills the window exactly, leaves room, or queues, so every branch of `enqueueData` and `drain` is
taken; `MaxOffered` lets a connection fill, catch up and fill again. In `SessionLifecycle` sessions
meet only in the cap, so one session shows everything else, with two calls to conflict, join and
leave; two crashes give a fallback boot followed by a durable one. The violation run uses the fewest
calls that reach its case. In `AgentMonitor` two browsers are needed for a first and a last
viewer. `misses` and `rechecks` count as far as the code distinguishes. In `CodexThreads` two
sessions make a holder and a waiter, and three starts a codex that got away, the start that could
take its thread, and one after it; three sessions with the same bounds (2.6 million states) hold
as well. In `Updater` the active release and one other make a new install, a reinstall, a rollback and
a downgrade by hand; two operations meet at the lock, the pointers and the status, and one fault
interrupts either. In `AppServer` three calls are a first start, one that shares or races it, and one
that meets its successor; two stops fall before and after. In `TerminalSocket` one tap makes the stray
socket and two faults a loss during a loss. In `CommandCenter` five events pass the pruning of a log
that keeps two or three of them twice, so a cursor can be just inside and just outside; one directory
shared by two sessions shows what another would repeat; one crash falls before, between and after the writes of each
handler, `Writes` being more than any handler makes. In `Idempotency` four requests are a leader,
a follower, a stranger under the same key and a late copy. In `SharedLayout` two browsers that start with layouts of
their own conflict at the seed, and two edits at a save, one after the other or from both; a fault comes
before or after the one edit it leaves. In
`SplitPanes` three sessions and panes give both shapes of a tree of three leaves, in which a leaf is moved
within its split and out of it.

Deadlock is not checked where the system may stop: a session that is gone for good, at the bound of
crashes, or one that was deleted.

Properties of `output_flow`: the PTY is paused only for a browser that can release it
(`PausedForLiveViewer`), what is sent is a prefix of what was produced until the connection is given up
(`StreamHasNoGap`), and pressure ends (`ViewerReleasesPty`).

Properties of `session_lifecycle`: `StoppedStaysStopped`, `ViewerHasProcess`, `NoLeakedFiles`,
`SessionsSurviveRestarts`, and `AttachAnswered`, each stated beside its definition. (That a surveyed boot leaves no row which
is neither listed nor one it could not read, `RowTracksRecord`, is proved.)

Properties of `agent_monitor`: `NativeOutranksScreen`, `UnseenBlockerAlerts`, `ItemFollowsBlocker`,
`AlertComesDown`, `BlockerNoticed` and `IdleNoticed`. `UnseenBlockerAlerts` is about steps: whenever a blocker is there
that nobody looks at, its alert is up from that moment on, and the one step that may take it away is a file shared while it stands.

Properties of `codex_threads`: an exact
identity is the session's own thread unless a codex got away (`OwnThread`), a provisional thread is
seen by its own second look only (`ProvisionalHidden`), no thread is given twice (`GivenOnce`, the
refinement of `ThreadRegistry`), and every start ends (`StartSettles`).

Properties of `updater`: one installer works at a time and owns the lock, unless the lock of one at
work was half an hour old and removed (`OneInstaller`); `current` always leads to an installed release,
but for a release replaced by itself (`CurrentBoots`); a failure makes active again what was, or, if that was the
version being installed, leaves it active or makes active what `previous` remembers from before it, since that is all the failure
path can read (`managed-runtime.ts:507`) (`FailureRestores`); "done" is said only of what is active and runs (`DoneIsRunning`); no status stays
in progress for ever (`StatusSettles`).

Properties of `app_server`: no child is left behind (`NoOrphan`), none is asked before the handshake
(`HandshakeFirst`), calls are settled once and together with their generation (`CallsKept`, the refinement of
`RpcCalls`), and all are settled (`CallSettles`).

Properties of `terminal_socket`: what is acknowledged on a socket is what was parsed of its bytes
(`AcksOwnBytes`); an open view always has something that will connect it (`NeverStranded`); the current
socket knows whether the page is looked at (`VisibilityTold`); a lost connection comes back
(`ComesBack`).

Properties of `command_center`: a workspace made for sessions is shown exactly while it has one
(`SessionWorkspaces`); what a crash left apart is put together at the boot that can ask tmux
(`NoGhosts`); a browser that has received everything knows everything (`MirrorExact`), but for a topic in `silent` and, until
its next snapshot, a browser in `misled`: what a crash between a row and its event leaves untold, and what it told too early.

Property of `idempotency`: a request is carried out once, and again only for an answer that was lost
(`CarriedOutOnce`).

Properties of `shared_layout`: no layout is saved over one its author has not seen, but by a blind save
(`SavesBuildOnEachOther`); an edit is saved, due, or under way with somebody waiting for the answer, unless the browser is crossed
(`EditsAreSaved`); who was told of the last layout, has nothing under way and has not been crossed since, shows it (`ToldMeansShown`).

Properties of `split_panes`: a pane that is moved lands beside its target on the side asked for, sweeping the panes of sessions
that ended keeps exactly the rest, and neither loses, repeats or reorders another pane (`OthersStay`, which speaks of every
move and sweep in every tree that comes up, and of the order in which panes are read); and every step does to what the panes
show what `PaneMap` does to a map (`MapsPanes`), so that a session is in one pane at most.

Each module also defines its type invariant `TypeOK`. The standing runs leave it to the proofs where
there are some; for the other modules it was checked on the same instances.

Fairness. `OutputFlow`: the stall timer fires and the close event of a dead socket comes. An
acknowledgement re-arms the timer, but acknowledgements are bounded by the bytes sent and the PTY is
paused meanwhile, so it cannot be re-armed for ever. `SessionLifecycle`: the awaits of a spawn end,
because builds and checks read files and run probes under timeouts and the resolver has a deadline.
`AgentMonitor`: the 2.5 s timer and the bounded child processes a sweep awaits. `CodexThreads`: the
deadline and the acknowledgement's own timer fire, and `preSpawnCheck` ends; nothing is assumed of
the inventory, nor that a start's answer comes before its deadline. `Updater`: somebody polls the
status, as the update panel does every few seconds; the watchdog probes; the service manager restarts
what has exited; nothing is assumed of helpers and npm. `TerminalSocket`: timers fire, a request for a
URL ends, a connection nobody breaks is accepted, and close events come. `AppServer`: timers fire and continuations
run; nothing is assumed of the child. `CommandCenter`, `Idempotency`,
`SharedLayout` and `SplitPanes` state safety only. Browsers, agents, users, crashes
and tmux have no fairness.

What the violation run shows (PROJECT.json quotes the line):

* `session_adopt`: the first attach to a session adopted at boot kills its tmux session if the PTY
  client cannot be spawned, since the failure path does not know it was only to join.

Other places where the code and its documents part, met while modelling. The models do what the
code does, and no run restates them:

* A file the agent shares replaces the alert of a blocker nobody looks at, since all of a session's pushes share one tag, and may
  dismiss itself while the blocker stands (TR 2534, `push-dispatch.ts:150-178`); `push-dispatch.ts:39` says that
  `requireInteraction` "keeps a "needs-you" alert sticky". It is `UnseenBlockerAlerts`' one exception.
* A sweep in progress when a session ends leaves it awaiting, and alerts for it: `refreshActivity` checks
  the status before its await and not after (TM 1055); `test/terminal-manager.test.ts:749` says "an ended session is not
  awaiting". `NativeOutranksScreen` and the attention properties hold all the same.
* A holder whose resolution fails before the spawn gives the lease to the waiter, and only then poisons the
  coordinator and starts codex untracked (TM 1516). The waiter goes on, and the thread it finds may be the untracked
  one: poisoning does not stop a holder that was granted the lease before, although
  `codex-thread-coordinator.ts:65` says "later discovery is permanently unsafe". It is `OwnThread`'s exception.
* What comes between a layout's arrival and its rendering (section 2, `SharedLayout`) loses edits and lets saves go out
  under a revision they were not made from (`App.tsx:622`, `:674`, `:680`). No document of the repository promises
  otherwise; the properties except it.
* A crash between a row of the command centre and its event (`command-center-store.ts:993`, `:1104`, `:1131`) leaves a change that no event tells;
  listeners are told of events before their transaction is committed (`:955`), and a crash gives their ids out again.
* An edit made while the browser's own save is under way cancels noting the revision that save makes (`App.tsx:684`). Unless the
  stream brings it first, the next save is refused, and the browser takes its own older layout back: the edit is gone, with nobody else
  connected. `EditsAreSaved` is about each layout as it is rendered, and does not promise that it stays.
* Selecting the session that is active already does nothing (`App.tsx:350`), although the pane in focus may be empty;
  the comment at `:337` says every path that activates a session is mirrored into the workspace.
* A boot without a tmux inventory, or with the fallback store, deletes the integration files of
  sessions that run on (TM 737); `start.ts:384` says "whose session no longer exists".
* Reopening an ended session is not counted against `ROAMCODE_MAX_SESSIONS` (TM 1223), the "concurrent
  live terminal cap" of `docs/configuration.md:39`.
* The exit listener forgets who was looking before it announces the end (TM 1382), so "finished" is
  pushed for a session that was watched; TR 577 says "with nobody watching".
* Reinstalling the active version deletes the release a rollback needs, since the clean-up spares the
  target and what was active before (`managed-runtime.ts:491`), which is then the same. `fromVersion` is
  read before the lock is taken (`:384`), so an install that waited can spare the wrong one too.
* `roamcode install` records no integrity, so an update to the same version replaces a release that
  may be running, by removing it first (`:451`); this is `CurrentBoots`'s exception.
* An error after "done", in the clean-up, still restores the previous pointer (`:507`). A reinstall of the active version that
  fails after the switch makes the older `previous` active: nothing remembers what was active but `previous`.
* Two helpers that find one stale lock can each remove the other's fresh one (`managed-runtime.ts:200`). This is `OneInstaller`'s
  exception (`broken`), so it is not shown to be harmless; nor is the window of `CurrentBoots`'s exception below.
* A launchd service is taken out and put in again; if the second half fails it stays out
  (`service-install.ts:105`). This is `StatusSettles`'s exception.
* A stray terminal socket was told the page is in front and is never told otherwise; until it stalls,
  the server holds notifications back for it. Its `onopen` also reports "open" for a view whose
  current socket is not.
* With the in-memory command centre, or another database in its place, event ids start anew; after a
  reset the browser keeps the larger cursor (`client.ts:688`) and may later miss events. `GET /events`
  (TR 2014), unlike the stream, does not notice a gap.
* DELETE of a session that is stored but not listed, as after a boot without a tmux inventory or one that could not read
  the row, answers 204 and leaves the row (TR 667).
* A browser that asked for the layout before a save and subscribes after it has no event to learn of it from; the
  snapshot that would tell has the layout in it, and is not read for it (`App.tsx:741`).
* The memory store of idempotency keys replaces a first answer by a second and is empty after a
  restart; a follower of a handler that never ends waits for ever.

## 4. Proofs

`Transport_proofs` is about two parts of the transport that share no state, `OutputFlow` and
`Idempotency`; the latter's specification has names of its own (`KeyInit`, `KeyNext`, `KeySpec`) so that one
module can extend both.

For every set of browsers, every pair of water marks and every chunk
size allowed by `FlowAssumption` and `SizesAssumption` it proves that `FlowInv` is an invariant, and from it
`PausedForLiveViewer`, `FullViewerPauses` and `QueuedOnlyUnderPressure`. None of the three is
inductive. `WindowOK` is the invariant of one window: the stall timer is armed exactly under
pressure, pressure implies a viewer that is behind, a full window of a viewer is under pressure, and
a queue means a full window. In the middle of a method only `WindowSound` holds; `UpdatePressureOK`
and `DrainOK` restore the rest, and there is one lemma per method. `FlowInv` adds that the record's
copies of viewing and pressure agree with the handlers' and that the PTY is paused exactly when some
subscription says so; `SettleOK` shows that the callbacks of an event keep it, and `NextFlowInv`
has one step per action.

`StreamHasNoGap` counts bytes, and needs to know what `DataIn`, a recursive sum, is for every queue. A sum over
a queue is a function given by one equation. `SumExists` shows that there is one and `DataUpToIs` that its values
are numbers, both by looking at the least place where they would not be (`LeastNumber`); `SumsMoveTogether` says
that two sums that take the same steps stay equally far apart. From these come the three facts about queues: a
frame appended adds its bytes (`DataInAppend`), an empty queue has none, and what `WriteRoom` leaves is what was
there less what there was room for (`CutSum`). `Fed(x, w, n)` then says of a method what it does to the stream: from `w` to `x`, the bytes
sent and queued grew by n, unless the window closed or owes a replay. `StreamInv` follows action by action. `pending`,
the window's own count, is left out: it decides when a window overflows, and nothing proved here depends on when that is.

For any finite set of requests and any number of crashes it proves `KeyTypeOK` and
`CarriedOutOnce`. `Accounted` says that while a reservation is held exactly its leader runs or has run and
there is no record, that followers share its fingerprint, that what is recorded or answered ran, and
counts: what ran is at most the answers lost, and one more if there is a record or a copy not yet
answered.

`SessionLifecycle_proofs` proves, for any number of sessions, attach calls and crashes and any cap,
six invariants: `TypeOK`, `StoppedStaysStopped`, `ViewerHasProcess`,
`RowTracksRecord`, `NoLeakedFiles` and `SessionsSurviveRestarts`. They are proved together because
none is inductive: that a stopped session stays stopped needs that whoever holds a process is in the
table; that a viewer has a process needs to know where each spawn stands; that work survives a
restart needs the row to follow the record and the store to be the durable one. `Sound(id)` says all
of this of one session:

* a session not yet made, or gone, has left nothing behind, but a tmux session being killed;
* a record implies a server that is up and a row, and a process implies a record;
* while the integration files are built or the capability is checked there is no process yet, and
  files marked ours belong to such a spawn or to a process;
* a session that is kept is in the durable store and nobody is killing its tmux session;
* after a boot that saw the tmux inventory, a row without a record is one that boot could not read (`unread`).

`LifeInv` is `TypeOK` and `Sound` of every session. Sessions share only the server's state, so
`Others` reduces an action to its own session, and each action has one lemma of three steps: its
types, the other sessions, its own. `Crash` and `Boot` change every session and are done directly.
Whether an attach is answered (`AttachAnswered`) is liveness and stays with TLC.

`CodexThreads_proofs` proves, for any number of sessions, starts and crashes, `TypeOK`,
`OneDiscovery`, `OwnThread` and `ProvisionalHidden`, and that the specification implements
`ThreadRegistry` (`GivenOnce`). `OwnThread` speaks of the end of a discovery and says nothing of how
it came about, so `ThreadInv` adds: starts are numbered, and a codex is where its number says
(`Numbered`); whoever is in the fallback has poisoned the coordinator (`Coordinated`); whatever was
given was listed, and is in the snapshot of whoever discovers now (`Remembered`), which is why it is
not given again; and without strays an unlisted codex is the holder's or the coordinator is poisoned,
so a holder's candidates are its own thread at most (`Clean`). That a queue which is not empty has a
first member, who gets the lease, is `LeastNumber`. `StartSettles` stays with TLC.

`AppServer_proofs` proves, for any number of calls and stops, `TypeOK`, `NoOrphan`, `HandshakeFirst`, and
that the specification implements `RpcCalls` (`CallsKept`). `Lives` says which generations there are:
at most one lives, it is `active`, its child is alive or just gone, and a shared start is its own.
`Shakes` follows the handshake: what was handed to the child and what is still queued together are
`initialize`, then the notification, then calls, and calls only for a generation that runs. `Sends` ties
the callers to it: who was sent waits for an open generation that has its request or its frame. The
refinement needs `Sends`, or a generation could go down without settling a call it was sent.

`Connections_proofs` is about the two ways a browser stays connected, `TerminalSocket` and `CommandCenter`. They share
no state; the former's specification has names of its own (`SocketInit`, `SocketNext`, `SocketSpec`).

For any number of taps, losses and chunks it proves `SocketTypeOK`, `AcksOwnBytes`,
`NeverStranded` and `VisibilityTold`. They are inductive given `Handlers`: the current socket has been
opened; a socket not yet open has no link up, has sent and received nothing; and nothing is handed to
the view before the server offered flow control.

For any finite set of sessions, any directories and subscribers, any `Keep` and `Every`, and any number of crashes (each between any two
writes) and lost connections it proves `TypeOK`, `SessionWorkspaces`, `NoGhosts` and `MirrorExact`. It assumes what the code
grants: `None` is a value of its own, no session is a directory, and there are finitely many sessions. A handler is followed
operation by operation: `Sound(T, V)` says of the tables T in the middle of one that began when V was what the log told that a
workspace made for sessions is archived exactly when nobody is in it, that needs belong to agents and agents to workspaces, and that
the events noted so far take V to what the tables show, but for the topics in `silent` (`Narrates`). Since a topic that is silent may be shown in
any way, V is a set of views. Each of the store's methods has a lemma that keeps it, whether it is cut short or not. What a boot or an
inventory does is a fold over a set of sessions, in an order the prover is not told. `FoldExists` shows
that such a function exists, `FoldSound` that it keeps `Sound` after each session; both look at the least number of sessions for which
it would be otherwise. `MirrorExact` needs a history that no variable keeps: `MirrorOK` says that there is one, a set of views for each event
id, whose last entries the log explains (`Explains`), and that every subscriber not `misled` is `Informed` by it, which is to say that it
knows a view of the entry at its cursor, and that its wire carries the events since, or a snapshot and the events since that snapshot. A commit
extends the history, a pruning keeps the end of the log (`PrunedSuffix`), and a connection finds the rest of the log or a snapshot.

`AgentMonitor_proofs` proves, for any browsers and agents, `TypeOK`, `NativeOutranksScreen`,
`UnseenBlockerAlerts`, `ItemFollowsBlocker` and `AlertComesDown`. The alert of a blocker is followed by step
(`NoticeStep`) and needs more than it says: a session that is awaiting and unseen must have its alert or a file's up, ended
or not, since an attach makes it run again (`Alerted`), and whoever watches a listed session watches one that runs (`Attached`), or the last viewer
would leave without a word. What is done with items relies on `awaiting` and `activity` agreeing
(`Paired`), on a managed session always having an agent and a shell never having native evidence
(`Kin`), and on the items of a managed session following its activity (`Itemised`). The transport's
callbacks are functions of what was told, so lemmas say of each what it does to the items and the
alert; `Becoming` joins them for the writers that announce a change.

`Updater_proofs` proves, for any number of versions, operations and faults and both service managers,
`TypeOK`, `OneInstaller`, `CurrentBoots`, `FailureRestores` and `DoneIsRunning`. `OneInstaller` is inductive
almost as it stands (`Unowned`: a lock nobody owns is no lock). The others need to know what a helper
has done at each place, which is `Stage`: while it switches, `was` is where `current` still leads, and
`previous` too; after the switch `current` is its target, an installed release, and `previous` leads
back, unless it reinstalls what was active (`Returnable`), and after a failure `Undone` says where it led; when it finishes beside a server, that server runs the target. Nobody else undoes any of this,
because of `OneInstaller`: `Apart` is that argument, `Writer` the part of it all steps of a helper
share, and `Survives` the same for a server that goes down and takes its helpers with it. `broken` and
`torn` are premises and not assumptions: the proofs hold of every behaviour and say nothing of what comes after
such a fault.

`Layout_proofs` proves, for any browsers, edits and faults, `SavesBuildOnEachOther`, `EditsAreSaved` and
`ToldMeansShown`. The invariant is about one browser and the list S of saved documents, which
only grows (`Extends`). `Known` and `Carries` say what a browser that is not crossed and its requests know of S: the document of its revision is
contained in what it will show, and in what it shows unless a layout waits to be rendered; a save that is not blind contains the document
of the revision it names, an answer "stored" means that S has the document sent. `Settled` says what can be under way together: besides pulls one
request that somebody waits for, or the timer, and none while signed out. `Timely` ties them: such a request carries what is on the screen, so
noting the revision of its answer keeps `Known` true. `Hydrating` and `EditKept` hold as long as no call failed. `Loose` is what remains
of this when something comes between a layout's arrival and its rendering: `LooseAnswered` and `LooseEdited` show that an answer and an edit keep it, and
`CrossedOK` that it is enough for a crossed browser. Every action changes one browser
(`OneBrowser`) or appends to S (`AppendExtends`); each effect, clean-up and callback has a lemma saying which of these parts it keeps.
TLC finds this invariant true on the instance of `shared_layout`.

Of the panes it proves `ViewInv` for any number of panes and sessions, and so that no session is in two of them
(`EachSessionOnce`). There is a lemma for each way a map is made from another (`PutOK`, `OnlyOK`, `ExchangeOK`, `BlankOK`),
and `CommitOK` for the effect that follows, which changes a pane only for a session that no pane shows. The clause of `normalize`
that empties a second pane of a session is not in `PaneMap`, so the proof shows that the handlers do not need it; the
layouts accepted from other browsers are assumed to show no session twice, as theirs are made by the same handlers.

Of the tree it proves, for any finite number of panes and any sessions, that `SplitPanes` implements `PaneMap`
(`TreeIsMap`) and `OthersStay` (`PanesStay`). `PanesAssumption` says that there is room for two panes, as a layout of another
browser may have, and that `Nothing` is neither a session nor a tree. The argument has four layers:

* Trees. `DepthInduction` looks at the least depth at which something would fail; from it come which sets `Trees` are, that they
  grow, and `TreeInduction`: what holds of leaves, and of a split when it does of both parts, holds of all trees.
  `RecursionExists` shows once that a recursion over trees has a function, and each operator takes its equation from it (`SetSessionIs`,
  `SplitLeafIs`, `RemoveLeafIs`, `LeavesAre`).
* What is read. Of a split, the panes are those of both parts, and one is read before another if it is so within a part, or is in the
  first and the other in the second (`PanesOfSplit`). `SetSessionReads`, `SplitLeafReads`, `RemoveLeafReads` and then `MoveLeafLands` say of each
  operator which panes its tree has, and in which order; nothing above this layer looks inside a tree. A tree is no deeper than it
  has leaves (`Shallow`), which is why what is split while there is room stays among the trees.
* The sweep. `SweepStep` follows it leaf by leaf with `Remains`: while something is left, the panes are the ones not
  yet passed and those kept (`NextGone` is what one more leaf closes), in the old order. While something is kept the last pane is never reached, so no
  pane is emptied in vain; if nothing is, the last leaf is emptied (`NormalizeReads`).
* The map. `ShownBy` turns panes into the map they are, and one lemma for each operator says which map that is after it (`AfterSet`,
  `AfterSplit`, `AfterClosing`, `AfterMove`, `AfterSwap`, `AfterEmptying`, `AfterNormalize`). `ShowsCommits` is the effect that follows a handler, and one
  lemma for each handler joins the two to a step of `PaneMap`.

The inductive invariant is `PanesInv`: the panes of the tree can be told apart, they are at most `MaxPanes`, each session is in one of them at
most, and one is in focus. `MapsPanes` is about steps and `OthersStay` about moves and sweeps not taken yet; both
need it. That each session is in one pane is what makes `findLeafBySession` mean something and keeps `normalize` from emptying a second
pane. TLC finds `PanesInv` true on the instance of `split_panes`.

With this every safety property a passing run checks is a theorem. What runs check and no theorem states is liveness:
`ViewerReleasesPty`, `AttachAnswered`, `BlockerNoticed`, `IdleNoticed`, `StartSettles`, `StatusSettles`, `CallSettles` and `ComesBack`.

## 5. Not modelled, and why

* Text: titles, drafts, models, effort, usage figures, key bindings, the bytes of the replay ring.
  No property here depends on what they say; the classifiers of a pane are patterns on wording, and
  enter as the verdicts they can give.
* Files, clipboard, service units, web rendering: input and output with no state of their own.
* Codex thread resolution is a choice inside `SessionLifecycle` (the resolver answers, late or
  never) and detailed in `CodexThreads`; the two are not composed.
* Device pairing, tickets, presence, rate limits: maps and rows changed by synchronous calls, one per
  request. Nothing can come between their check and their change, and no other component's state
  depends on theirs.
* The rest of the user interface, which is half of the code: `packages/web/src` is React components, styles and
  tests of them. What they show is a function of state modelled here, and of dialogs nothing else depends on.
* Provider adapters, metadata and usage: command lines and parsers around external programs, whose
  results enter the models as choices.
* Scripts, acceptance checks and the public site.
* Time. Timers are events that may come at any moment they are armed; lengths are not compared.
* Liveness under fairness and `ENABLED` are beyond the prover. So are the library's induction theorems, which take an operator;
  where a proof needs induction (sums, folds, trees, the sweep) it looks at a least counterexample instead.

## 6. Plan

1. `OutputFlow` as an implementation of a bounded lossless stream, with `TerminalSocket` as its
   environment.
2. `CodexThreads` as the resolver of `SessionLifecycle`.
