# Verification of rmcp-mux

rmcp-mux lets several MCP clients share one MCP server: a daemon owns the server as a
child process, accepts clients on a Unix socket, rewrites the ids of their JSON-RPC
requests, and routes the responses back. Around it are a stdio proxy, a status file and
a status socket, a tray icon, and tools that rewire the configuration files of host
applications. These modules model them in TLA+. TLC checks the modules on small
instances and TLAPS proves the central results for all values of the constants. Paths
below are relative to the repository; `src/src/...` is the crate's source directory.

## 1. Inventory

| Component | Source | State it keeps | Operations | Modules |
|---|---|---|---|---|
| Shared state | `state.rs`, `runtime/types.rs` | `MuxState` under one tokio mutex: clients, handshakes, pending, cached initialize, flags, id counter, status | register, unregister, complete handshake, buffer, next id, reset, snapshot | MuxState, StatusBoard |
| Client handler | `runtime/client.rs` | one task per connection, its permit, its writer task | read a frame; initialize, initialized, notification, request; forward; handshake timeout; leave | ClientHandler |
| Event router | `runtime/mod.rs`, `runtime/server.rs` | the event it has taken | route a response, cache it, deliver it, reset | EventRouter |
| Reaper | `runtime/mod.rs` | the expired requests it has taken | expire, answer | EventRouter |
| Server manager | `runtime/server.rs` | restart count, backoff, message in hand, the child | lazy start, spawn, write, select, clean up, back off, give up | ChildManager, ServerManager |
| Heartbeat inspector | `runtime/heartbeat.rs` | outstanding probe, failures | tick, send, wait, record, receive answers | Heartbeat |
| Wiring | `runtime/mod.rs` | channels, cancellation token, accept loop, the socket file | spawn tasks, accept, bind, shut down | Mux, Supervision, Daemon |
| Proxy | `runtime/proxy.rs` | count of pending requests, stdin closed | read stdin, read socket, leave | Proxy |
| Status | `state.rs`, `runtime/status.rs` | watch channel, status file, list of muxes, status socket | publish, write and rename, register, collect, answer | StatusBoard, Daemon |
| Tray icon | `tray.rs` | a channel of one snapshot, what is shown | forward, show, quit | StatusBoard |
| Library, daemon of several muxes | `lib.rs`, `multi.rs` | a handle or a task per mux, one token | start, register, fail, shut down, wait | Daemon |
| Configuration and command line | `config.rs`, `bin/rmcp_mux.rs`, `lib.rs` | none | load, choose the mode, resolve parameters, health check | Launch |
| Scan and rewire | `scan.rs`, `config.rs` | the hosts' files, the mux's file, their backups | find hosts, write a manifest, rewire | HostFiles, Setup |
| Wizard | `wizard/` | step, panel, form, services, clients, dialog | every key, load, save | Wizard, Setup |
| Wizard drawing, dashboards | `wizard/ui.rs`, `multi_tui.rs`, `tray_dashboard.rs` | none | draw | not modelled |
| Installers | `tools/` | none | install | not modelled |

How they interact. The handlers put requests on `to_server` (bounded, 1024); the manager
takes them and writes them to the child; a reader task copies the child's output to
`server_events` (unbounded), where the manager also puts a `Reset` when a child ends;
the router takes events in order, updates `MuxState` and sends answers on one unbounded
channel per client. The reaper removes old entries every 500 ms. The inspector puts its
pings on the same `to_server`, gets answers from the router on its own channel, and asks
the manager for restarts on another. All of them lock the one mutex around `MuxState`,
and each publishes a snapshot of it afterwards, which the status writer and the tray
pick up. In a daemon of several muxes a status query walks over all of them under the
mutex of the list. Scan, rewire and wizard share nothing with a running mux but the
files: what they write is the configuration of its next start.

What is hard here:

* **Interleaving and atomicity.** Router and reaper take an entry out of `pending` under
  one lock and answer under another; the handler inserts under one and sends after it; a
  disconnect, a reset or a restart may come between. A snapshot is taken under the lock
  and sent after it.
* **Ordering.** `Reset` is queued behind the responses of the dead child, while the
  manager clears the cache directly and starts the next child; requests wait in
  `to_server` over a restart; snapshots overtake each other.
* **Stale state.** Flags of the handshake and of the server outlive the child they
  describe; heartbeat signals outlive the child they accuse; the wizard's form is a copy
  of one service.
* **Limits.** Permits, the bounded queue, the pending table, `max_restarts` with 0 as no
  limit, the capped backoff, the tray's channel of one.
* **Liveness and deadlock.** A mutex locked twice by one task, a write outside the
  `select!`, a oneshot awaited by the task that fires it, a query that holds one mutex
  while it waits for another.
* **Crashes.** Socket files, a status file and half-written configurations outlive the
  process.
* **Partial failure.** One mux of several cannot bind, one file of several cannot be
  written, one service of several is incomplete.
* **Rules written twice.** Parameters are resolved by two functions and a builder;
  socket paths are computed for the mux and for its hosts; the wizard saves from two
  places.

`PROJECT.json` lists each at its line, with the properties that would notice it.

## 2. Modules

```
MuxState -- ClientHandler --\
        \-- EventRouter -----+-- Mux -- MCMux -- MuxClaims
        \-- ChildManager ---/      \
                                     MuxProofs -- MuxAnswerProofs
ChildLifecycle  <== implemented by Mux and by Supervision
RequestService  <== implemented by Mux

SupervisionState -- ServerManager --\
                \-- Heartbeat -------+-- Supervision -- SupervisionClaims
                                                   \-- SupervisionProofs
Proxy -- ProxyProofs

StatusBoard -- MCStatusBoard,  StatusBoardProofs
Daemon -- MCDaemon,  DaemonProofs
Launch -- MCLaunch,  LaunchProofs
HostFiles -- Wizard -- Setup -- MCSetup,  SetupProofs
```

The running daemon is modelled several times, each time with what the others leave out,
because the questions are nearly independent and their product is far too large:

* **Mux** asks what happens to *requests*. Of the manager it keeps every branch that
  takes a message, loses one, sends a Reset or keeps the mutex: the first message of a
  lazy start and its write, which may fail without leaving the loop; the restart limit,
  where the mutex is never released; a command that cannot be started, which drops the
  queue; a write that fails, a restart, and the return at shutdown.
* **Supervision** asks what happens to the *child*: lazy start, limit, backoff, blocking
  writes, heartbeat, shutdown. The requests are only load on the queue.
* **StatusBoard** asks what those who *look at* a mux see: of its state only what a
  snapshot shows is kept, and of its tasks when they change it and publish.
* **Daemon** asks how several muxes *start and end* in one process: sockets,
  registration, the status socket, shutdown, crashes and the next start.

**ChildLifecycle** ties the first two together. It is what the manager promises everyone
else: one child at a time, and before the next starts the Reset that tells of the last
is on its way and the cache was cleared. Both models implement it
(`MuxImplementsLifecycle`, `ManagerImplementsLifecycle`): nothing but a Reset separates
the answers of two children. For what is said about requests the other direction counts,
that the short manager can do to them whatever the long one can, and that is by
construction, not by a proof: what ServerManager adds, the waits in a write, the
backoff, the signals and the processes left behind, only delays the steps of
ChildManager or chooses among them. The pings of the heartbeat fill slots of the queue
as notifications do.

**RequestService** is what the mux promises its clients, with no queue, child, restart
or timeout in it: while a connection is served, each request read from it is open until
it gets one answer, its own, and only the end of that connection closes a request
without one. Mux implements it (`MuxImplementsService`): `Session` says which
connections are served, and `Owed` collects the requests of registered clients from
wherever the code keeps them, the handler's work, its buffer, `init_waiting`, `pending`,
and what router and reaper have taken out of it and not yet answered. The other two
places a request passes through, the queue and the child, do not count, because only
`pending` leads from them to an answer.

Before a mux runs there are two more questions:

* **Launch** asks what parameters a command line and a configuration file *resolve* to,
  in the single and in the multi-service mode, in the library and for a health check.
* **Setup** composes **HostFiles**, the commands scan and rewire with every step of a
  write, and **Wizard**, every key of the wizard; both act on the same files, and either
  may be killed and started again.

### Correspondence with the code

A step of a task is what it does between two points where another task can change what
it reads next: a lock, a send on a bounded channel, a receive, an await.

| Model | Code |
|---|---|
| *Mux* `clients`, `complete`, `buffer` | `MuxState.clients`, `client_handshakes` |
| `pending`, a set of requests | `MuxState.pending`; `SameKey` is equality of its string key `c<client>:<id>` |
| `cached` | `cached_initialize`, named by the child that sent it |
| `pc[c]`, `work[c]`, `hand[c]` | where the handler of connection c is, the requests it is to forward, the one it is sending |
| `routing`, `reaped` | local variables of the router and the reaper while they hold no lock |
| `Session`, `Owed` | for RequestService: `clients` before, during and after a connection; the requests held by any of the structures above |
| `inbox[c][l]` | all answers ever sent to request l of client c, so that a second one shows |
| `mgr`, `first` | where the manager is: waiting for the first message, about to start a child, to write that message, in its loop, cleaning up; "gone" once it has returned and its receiver is dropped (`QueueOpen`), "stuck" at the limit with the mutex in its hands (`LockFree`) |
| `atChild` | what the child, or a reader task not yet stopped, may still answer |
| *Supervision* `mpc`, `hpc`, `rpc` | where manager, inspector and reaper are |
| `lock` | the mutex, when a task keeps it while it waits: only the manager at its limit does |
| `child`, `earlier` | the process the manager waits for, and those it no longer does: `child_wait.abort()` (`server.rs:308`) kills nothing |
| `greeted` | whether the running child was sent an initialized notification |
| `fired` | whether the oneshot of the outstanding probe was fired |
| *StatusBoard* `mux`, `pc`, `taken` | the displayed part of `MuxState`, where each task is, the snapshot it took and has not sent |
| `board` | the watch channel with the seen marks of its two receivers |
| `writer`, `tmp`, `file` | `spawn_status_writer` with its snapshot, before, inside and after `fs::write`; the .tmp, which is a part while it is filled and stays one after a failure or a crash; the file, which gets what the .tmp is when it is renamed |
| `tray` | its thread, the `sync_channel(1)` filled with `try_send`, the menu |
| *Daemon* `place[m]` | where `run_mux_internal_with_status` is: remove, bind, register, open the accept loop, serve, clean up |
| `socket[p]` | the file at a path: none, dead (its listener is gone), or the mux behind it |
| `main` | `run_mux_multi`: its select, then its `join_all`; "application" is a program with `MuxHandle`s |
| `holder`, `todo`, `query` | the mutex of `StatusState`, and `collect_status` on its way through the list under it |
| `stuck` | the muxes at their restart limit, whose state is never released (`server.rs:186`) |
| *Launch* `command`, `config`, `stage` | `Cli`, what `load_config` finds, where `async_main` is |
| `left`, `results` | the entries of the hash map that `resolve_params_multi` has not visited, the `ResolvedParams` |
| *HostFiles* `phase` | `write_with_backup` between truncation and end of `fs::copy` and `fs::write` |
| `toml` | the paths in TOML or YAML, of which a part may parse |
| `queue` | the paths a tool has still to write |
| *Wizard* `app` | `AppState` |
| `saving` | the save under way: from the dialog, or with or without the hosts after the client selection |

Abstractions, by kind:

* A message is its method, its client, the client's id and the global id. Clients number
  their own requests from 1, so the ids of different clients always collide: the case id
  rewriting is for.
* Time is not measured. A request may expire at any moment (older entries before newer
  ones, since `started_at` is taken under the lock that hands out ids), a handshake may
  time out while it is open, and a probe times out whenever it was not answered. A tick
  that finds nothing to do is no step.
* Broadcasts and queue_depth change nothing that is read again. The error a handshake
  timeout sends has a null id and answers no request.
* `initializing` and `initWaiting` are modelled as the code has them. Nothing in the
  program sets `initializing`, so its branch is never taken.
* A frame that is not JSON, a client that stops reading, an oversized request, a
  notification, a timeout and a duplicate answer are the members of `Environment`; a
  configuration names those that may happen.
* A child is "up", "mute" (reads, does not answer), "deaf" (does not even read) or
  "exited"; `ChildFaults` names those it may become.
* `consecutive_failures` is only compared with `max_failures` and saturates there.
* A snapshot is the state of the server, the clients connected and those active: the
  fields that change and that somebody displays. `Scenes` says whether a status file or
  a tray is configured, and whether clients come or a child is started.
* A parameter resolves to where its value is from (command line, file, key, the stem of
  the socket) and to the value itself only when it is a default. Log levels parse.
* A file is absent, partial, or a map from service names to entries. An entry keeps what
  decides who starts and where it is found: its command, its socket, and whether the
  other settings are still those somebody wrote. "Partial" is a file that does not
  parse. When a write breaks off, JSON is left so; TOML (Codex's `config.toml`, the
  wizard's default `mcp-mux.toml`) and YAML may be left so or as any of the `Parts` that
  parse: fewer services, and in the mux's file, whose entries start with the socket and
  the command and need neither, the last one without its end.
* Of the wizard's form the name stands for the text fields and the tray switch for those
  that are toggled. A space cannot be typed in a text field, by the code.
* Names and hosts have ranks, which stand for the alphabetical order of services and the
  order in which `discover_hosts` lists the hosts.
* The files of hosts are changed by the tools alone, one tool at a time.

## 3. Properties and runs

| Run | Instance | Properties |
|---|---|---|
| `mux_routing` | 2 clients, 2 requests each, queue 2, pending 2, one child, malformed frames | `AnswersMatchRequests`, `FifoPerClient`, `HandshakeGatesRequests` |
| `mux_restart` | 2 clients, 1 request each, queue 1, two children, timeouts, duplicate answers | `AtMostOneAnswer`, `StaleCacheIsDoomed`, `IdsNameRequests` |
| `mux_clients` | 2 clients for 1 permit, pending 1, lazy start, limit 2, every fault but malformed frames and duplicates: failing writes and spawns, oversized requests, clients that stop reading, shutdown | `TypeOK`, `NoOrphanPending`, `MuxImplementsService` |
| `mux_live` | 1 client, 2 requests, queue 1, lazy start, limit 2, timeouts, failing spawns and first writes, fairness | `RequestsAccountedFor`, `EveryRequestAnswered`, `MuxImplementsLifecycle` |
| `supervision` | limit 2, lazy start, backoff 1 capped at 3, 2 failures, 3 probes, children that hang, stop reading or exit | `SpawnsWithinLimit`, `SignalsNeedProbes`, `ManagerImplementsLifecycle` |
| `supervision_live` | limit 2, lazy start, 2 failures, 2 probes, children that hang or stop reading, fairness | `HungChildReplaced`, `ManagerStops`, `ShutdownStopsChild` |
| `proxy` | 4 requests, 2 notifications, 2 null ids, breaking connections, fairness | `PendingExact`, `AnsweredAtExit`, `ExitsAfterResponses` |
| `status_board` | 2 clients for 1 permit or a child with one start, file or tray, 1 failing write, 2 lives of the process with a child, fairness | `FileIsWhole`, `ConnectedWithinActive`, `FileCatchesUp`, `TrayCatchesUp`, `QuitEndsProcess` |
| `daemon` | 2 muxes, 2 status queries, daemon or handles, stuck muxes, failing binds, 2 lives of the process, fairness | `ReachableWhileServing`, `ReplyCoversServing`, `ExitRemovesSockets`, `ShutdownEnds`, `QueriesAnswered` |
| `launch` | 2 services; command lines and entries that set almost nothing, what is required, or almost all | `AllOrNothing`, `ModesAgree`, `HealthReachesService` |
| `setup` | 2 hosts for the commands, 1 for the wizard, each in JSON and in TOML, a dry run where there is no configuration, 2 names, lists of 2, 1 edit (none with TOML), kills and full disks, 1 write cut to a part that parses | `TypeOK`, `AllRecoverable`, `CommandsAgree`, `FormBelongsToSelected`, `SavesNoPendingEdit`, `HostsAfterMux` |
| `claim_mutex_released` | a limit of one start, fairness | `ReaperProceeds` is refuted, see section 5 |

What some of the properties say:

* **Service.** Requests move between seven places, and tasks take them from one and
  bring them to the next under different locks. `MuxImplementsService` says that no such
  move loses a request, brings back one that was answered, or answers in another's name,
  and that whatever ends one connection leaves the others' requests as they are. It
  covers `AtMostOneAnswer` and adds the other half, that a request is only dropped with
  its connection.
* **Requests.** Three things the code does lose, and the properties say so.
  `RequestsAccountedFor` excepts the one request whose write at a lazy start failed
  (`server.rs:252`, a warning), while that child runs, and everything once the manager
  has returned because the command could not be started: the queue is dropped without a
  Reset (`server.rs:202`), and a handler that finds it closed leaves its entry in
  `pending` (`client.rs:287`, `client.rs:364`). `EveryRequestAnswered` has no exception
  for these, since the reaper ends them, but one for the restart limit, where neither
  the reaper nor anybody else gets the mutex. The shutdown is left out of `mux_live`,
  where it would only end every handler.
* **Supervision.** `SignalsNeedProbes` counts: n restarts the manager has yet to make
  cost n + max_failures - 1 probes, so a signal is neither early nor sent twice.
  `HungChildReplaced`, `ManagerStops` and `ShutdownStopsChild` are stated with a child
  that may stop reading and with a limit, and name what they except: a manager in a
  write to such a child (`WritesToDeaf`), which no `select!` covers, the limit, and
  processes that do not read. `ShutdownStopsChild` speaks of every process that was
  started: those the manager replaced live on (`server.rs:308`) until they read the end
  of their stdin.
* **StatusBoard.** Snapshots may overtake each other, since they are sent after the lock
  they were taken under; the tray's channel drops the newest; writes fail; the process
  dies. Still the file is whole at any time (`FileIsWhole`), although the .tmp is a part
  of a snapshot each time it is filled and stays one when that fails or the process dies
  there, because nothing but a write that came to its end leads to the rename. And file
  and tray end up at the truth when clients and child rest (`FileCatchesUp`,
  `TrayCatchesUp`: because the reaper publishes on each tick and the writer writes again
  what it could not write when the next snapshot comes). `ConnectedWithinActive` relates
  two numbers that no common lock protects: it holds because a handler takes its permit
  before it registers and gives it back after, and it is exact up to the clients a
  malformed frame has left registered.
* **Daemon.** `ReachableWhileServing`: nothing a crashed run or a stopping mux does to a
  path takes the socket from the mux that serves there. `ReplyCoversServing`: a mux
  registers before it accepts. `ShutdownEnds` and `QueriesAnswered` hold although a
  query holds the mutex of the list while it waits for the mutex of a mux that may never
  be released: an orderly end needs neither, except for a mux that has still to
  register, and the statement excludes just that.
* **Launch.** The order of the hash map decides nothing (`AllOrNothing`), the two
  resolutions differ only where the code means them to (`ModesAgree`), and a health
  check looks where the run listens (`HealthReachesService`).
* **Setup.** A kill at any step leaves every file in JSON whole, or its backup, also
  after further attempts (`AllRecoverable`). It says nothing of TOML: there the part may
  parse, the next attempt copies it over the backup, and services are gone from both
  (`ServicesKept` of section 5). The other properties hold for both formats. Scan and
  rewire compute the same socket for a service that no other host could have named
  (`CommandsAgree`); no order of keys saves past an edit or stores it in another service
  (`SavesNoPendingEdit`, `FormBelongsToSelected`); a host is touched only when the
  configuration it will need is on disk (`HostsAfterMux`). `TypeOK` matters in this
  module: the cursors stay inside lists that become shorter.

**Why the bounds are enough.** Two clients give every pair of colliding ids and every
race for a permit, a slot or an entry; a third adds no new kind of pair. Two requests of
one client give an order that can be broken. Two children give one restart with answers
of the first arriving in the life of the second; the properties speak of one earlier
child at a time. A queue of one or two slots makes "full" the normal case. In
Supervision, a limit of two makes the limit reachable by every mixture of exits and
signals, and a cap of three is met by the second doubling. Two failures and two probes
distinguish the first failure from the last. The proxy's counts only move by one. In
StatusBoard file and tray never meet, so one viewer at a time loses nothing; two tasks
with a snapshot each are what it takes to overtake. In Daemon two muxes are one that
fails or is stuck and one that does not; two queries are one that holds the mutex and
one that waits. The sets of settings in `launch` put each parameter alone and leave out
each alone, which is where resolutions differ; two services are one that is complete or
selected and one that is not. In Setup two hosts may define the same service, and two
entries give a cursor something to move over. Deadlock is not checked, since each of
these systems may stop: all clients gone, the bound on children or lives reached, the
proxy or the manager returned, no tool started again.

The remaining bounds are `MaxReqs`, `MaxEpoch`, `MaxSpawns`, `MaxProbes`, `MaxRequests`,
`MaxNotices`, `MaxFaults`, `MaxRuns`, `MaxServices`, `MaxEdits`, `MaxCuts` and `Scenes`;
each appears as a guard of what it bounds. The last child within `MaxEpoch` or
`MaxSpawns` neither fails nor is restarted, so that the bound never looks like a lost
child; with a restart limit inside the bound it may, and the limit is what comes next.

**Symmetry** is used in `mux_routing`, `mux_restart` and `mux_clients`, which check
invariants and one refinement without fairness; nothing orders clients, in Mux or in
RequestService.

**Fairness.** Every tokio task whose future is ready is polled, so each task has weak
fairness of the steps that wait for nothing outside the mux. `tokio::select!` picks a
ready branch at random, so a branch that is ready each time the loop comes round is
picked in the end: `SelectExit` and `SelectSignal` get strong fairness, and so do the
inspector's `Tick`, a branch of another such loop, and `SendProbe`, since a tokio
channel serves waiting senders in order. In Daemon and StatusBoard weak fairness of each
task is enough. Nothing is assumed of clients, and no write need succeed. Of the child
it is assumed that it reads its stdin unless it is "deaf", and exits at its end, also
when the manager no longer waits for it, and in `mux_live` not even that it answers: the
reaper does, which is why `timeout` is among its events. In `proxy` the mux answers what
it was asked, and the proxy reads what arrived. The tray's thread runs and reads its
menu each time it comes round. Nobody need press a key, interrupt or crash.

**Mutants.** A definition whose name ends in `Wrong` is a plausible mistake in the
definition next to it: a dropped reset, an off-by-one, a missing branch, a swapped
order. Every property of every passing run is violated when the mistake replaces the
code's form.

## 4. Proofs

| Theorem | Module | Statement |
|---|---|---|
| `TypeCorrect` | MuxProofs | `Spec => []TypeOK` |
| `IdsCorrect` | MuxProofs | `Spec => []IdsNameRequests` |
| `AnswersCorrect` | MuxProofs | `Spec => []AnswersMatchRequests` |
| `CacheCorrect` | MuxProofs | `Spec => []StaleCacheIsDoomed` |
| `PendingCorrect` | MuxProofs | `Spec => []PendingBounded` |
| `ServedCorrect` | MuxProofs | `Spec => []ServedWithinLimit` |
| `HandshakeCorrect` | MuxProofs | `Spec => []HandshakeGatesRequests` |
| `NoOrphanCorrect` | MuxProofs | `OneFault`: `Spec => []NoOrphanPending` |
| `FifoCorrect` | MuxAnswerProofs | `Spec => []FifoPerClient` |
| `AnswersOnce` | MuxAnswerProofs | `Spec => []AtMostOneAnswer` |
| `AccountsCorrect` | MuxAnswerProofs | `Spec => []RequestsAccountedFor` |
| `MuxLifecycle` | MuxAnswerProofs | `Spec => MuxImplementsLifecycle` |
| `ServiceCorrect` | MuxAnswerProofs | `Spec => MuxImplementsService` |
| `NothingForgottenCorrect` | MuxAnswerProofs | `Spec => []NothingForgotten` |
| `SupervisionTypeCorrect` | SupervisionProofs | `Spec => []TypeOK` |
| `SpawnLimit` | SupervisionProofs | `Spec => []SpawnsWithinLimit` |
| `BackoffBounded` | SupervisionProofs | `Spec => []BackoffWithinCap` |
| `SignalsJustified` | SupervisionProofs | `Spec => []SignalsNeedProbes` |
| `ManagerLifecycle` | SupervisionProofs | `Spec => ManagerImplementsLifecycle` |
| `ProxyTypeCorrect` | ProxyProofs | `Spec => []TypeOK` |
| `ProxyCountExact` | ProxyProofs | `Spec => []PendingExact` |
| `ProxyAnswersAll` | ProxyProofs | `Spec => []AnsweredAtExit` |
| `LaunchTypeCorrect` | LaunchProofs | `Spec => []TypeOK` |
| `AllOrNothingCorrect` | LaunchProofs | `Spec => []AllOrNothing` |
| `ModesAgreeCorrect` | LaunchProofs | `Spec => []ModesAgree` |
| `LibraryAgreesCorrect` | LaunchProofs | `Spec => []LibraryAgrees` |
| `HealthCorrect` | LaunchProofs | `Spec => []HealthReachesService` |
| `StatusTypeCorrect` | StatusBoardProofs | `Spec => []TypeOK` |
| `FileCorrect` | StatusBoardProofs | `MarksAreMarks`: `Spec => []FileIsWhole` |
| `ConnectedCorrect` | StatusBoardProofs | `MarksAreMarks`: `Spec => []ConnectedWithinActive` |
| `DaemonTypeCorrect` | DaemonProofs | `Spec => []TypeOK` |
| `ReachableCorrect` | DaemonProofs | `OwnPaths`: `Spec => []ReachableWhileServing` |
| `ReplyCorrect` | DaemonProofs | `Spec => []ReplyCoversServing` |
| `ExitRemovesSocketsCorrect` | DaemonProofs | `Spec => ExitRemovesSockets` |
| `BackedUpCorrect` | SetupProofs | `Spec => BackedUp` |
| `DryRunCorrect` | SetupProofs | `Spec => DryRunWritesNothing` |
| `RecoverableCorrect` | SetupProofs | `ContentsAreWhole`: `Spec => []AllRecoverable` |
| `SavesNoPendingEditCorrect` | SetupProofs | `Spec => SavesNoPendingEdit` |
| `SetupTypeCorrect` | SetupProofs | `Spec => []TypeOK` |
| `FormCorrect` | SetupProofs | `Spec => []FormBelongsToSelected` |
| `HostsAfterMuxCorrect` | SetupProofs | `Spec => HostsAfterMux` |
| `CommandsAgreeCorrect` | SetupProofs | `NothingConfigured`: `Spec => []CommandsAgree` |

They hold for any finite set of clients, any services, muxes, hosts, names and keys, any
bounds and any set of environment events. The assumptions are the named ones about the
constants (`BoundsAssumption`, `ClientsAssumption`, `EnvironmentAssumption`,
`LimitsAssumption`, `FaultsAssumption`, `SizesAssumption`, `CommandsAssumption`,
`NamesAssumption`, `ConfigsAssumption`, `RunsAssumption`, `NobodyAssumption`,
`FilesAssumption`, `WizardAssumption`, `ScenesAssumption`), which TLC evaluates in the
runs, and five that a theorem states itself: `OwnPaths`, that no two services share a
socket path; `NothingConfigured`, that the commands find no configuration of the mux
that somebody else wrote, which might say anything about the hosts; `ContentsAreWhole`
and `MarksAreMarks`, that the model values which mark a missing and a partial file are
not contents or snapshots; and `OneFault`, that clients do not both stop reading and
send malformed frames. With both faults, TLC finds an entry that outlives its
connection: the writer unregisters the client, its handler forwards one more request,
and a malformed frame ends the handler before it would unregister it again.

* **Types.** `TypeOK` is inductive as it stands, component by component. In Mux and
  Supervision it has two conjuncts a type does not need, a handler that forwards has
  something to forward and a probe that is being sent has a number; without them the
  induction fails. In Launch it needs what the inputs may be (`TypeInv`).
* **Ids.** `IdsNameRequests` speaks of all *tickets*, the requests found anywhere: in a
  handler's hand, the queue, the child, an event, the router, `pending`. Their ids are
  below the counter and determine the request. Every action but the admission of a
  request only moves tickets or drops them, so the invariant is inductive with `TypeOK`.
  Each module's actions need one lemma on where their tickets come from.
* **Answers.** With ids unique among tickets, the entry the router finds is the request
  of the response, and the answer goes where it belongs. Uniqueness in `pending` alone
  would not do: a late response must not meet a newer entry.
* **One answer.** `AnswerInv` names seven *places* a request can be at: in the handler's
  work, its buffer, waiting for an initialize, pending, taken by the router, taken by
  the reaper, answered. No request is at two of them (`Apart`), none is twice at one
  (`Single`), and none is anywhere before it was read (`Read`). Every action moves
  requests from place to place (`Moves`) or drops them, so what is answered is nowhere
  else and no second answer can come, from whichever task.
* **Service.** `FoundInv` is the converse of `Read`: whatever was read from a registered
  client is at one of the seven places, and nothing is read before the connection is
  served. With `Apart` and `Read`, what is owed is then exactly what was read and has no
  answer (`Exact`), which is `NothingForgotten`. Under `open <- Owed` a step between two
  places is a stutter, and every other step is one of RequestService; that the two ends
  of `Exact` change together is what makes it so.
* **Cache.** `StaleCacheIsDoomed` needs `StaleResponsesAreDoomed`: an entry that a
  response of an earlier child could still find exists only while that child's Reset is
  queued. The Reset empties `pending`, so later none of its responses is routed, and
  none is cached.
* **Handshake.** `GateInv`: the handler of a registered client whose handshake is open
  is not in `forward_request`, and has nothing left to forward when it enqueues; so what
  it has pending are initializes.
* **Orphans.** With the gate, `OwnedInv`: without failing writers who is served is
  registered; without malformed frames who is over was unregistered by its own handler.
* **Order.** `OrderInv` puts what a client sent in line: queued, in the handler's hand,
  in its work, and the buffer, which is empty once the handshake is complete. Each comes
  before the next, and everything was read before what is read next.
* **Accounts.** `TracedInv` adds to the property that a handler holds one request at a
  time. With ids unique, the response that leaves the events takes along the entry it
  was for, and no other. A first write that fails excuses exactly one entry (`Excused`):
  the message was the only one taken before the loop, every other entry keeps its trace
  (`TracedBeside`), and the Reset of that child ends the excuse.
* **Capacities.** `pending` is finite and only `Admit` adds to it, under the guard. The
  permits bound those served, because a registered client was given one.
* **Restart limit.** `restarts` equals the number of children started, or is one behind
  it while a child runs; the guard of the limit then bounds both.
* **Heartbeat.** There are never more failures than probes, and fewer while one is under
  way, and each signal came with a failure of its own (`SignalInv`).
* **Life cycle.** Under `phase <- Phase`, `epoch <- spawned`, `told <- resets > 0` every
  step is `Start`, `Tell`, `Clear`, `Deliver` or a stutter. So is every step of the mux
  under `told <- ResetQueued`; in the queue of events only a Reset sent or taken changes
  whether one is there.
* **Proxy.** The count equals the unanswered requests and responses under way while it
  runs and no null id was sent; the last turn before the exit leaves it at zero.
* **Launch.** `ResolvedInv`: the services visited so far are exactly those with results,
  each is what its own resolution gives, and all of them were complete, whatever the
  order; the health check did what a single run does.
* **StatusBoard.** The type needs the capacities: at most `MaxActive` permits are out,
  and a child runs only below the limit (`LimitInv`). Of the file it matters that the
  .tmp is the writer's whole snapshot when it is about to be renamed (`FileInv`): it was
  a part before, and may be one from an earlier life. Who is registered holds a permit
  or was left behind (`PermitInv`), so what is counted is covered when it is taken; and
  it stays covered until it is shown, since nobody left behind ever comes back while the
  process lives (`CoveredLasts`).
* **Daemon.** A path leads to a mux that has bound it and not yet cleaned up
  (`FilesInv`), what was bound is still there (`KeptInv`), and whoever is past its
  registration left somebody under its name (`RegisteredInv`).
* **Setup.** A write belongs to a tool that runs (`TurnInv`), the backup is complete
  before the file is opened (`BackupInv`), and neither a partial file is copied over a
  backup nor a write begun from one (`RecoverInv`). That needs that a part does not
  parse, so it speaks of the paths outside `toml`. For the files, the keys of the wizard
  need no more than that they begin a save or leave them alone. For the edits, `TidyInv`
  follows every key: an edit is under way in the first step only, outside the dialog,
  and no save begins from there.
* **Types of Setup.** `TypeOK` is inductive with one more fact (`TypeInv`): the form
  shows what it was loaded from. That takes what every key does to the cursors, the
  lists and the form (`Good`), and that a set put in the order of its ranks becomes a
  sequence with each element once (`RankedElements`); ranks order by number as the code
  does by name.
* **Save order.** While the wizard saves, the mux is at most the first path of the
  queue, and once it is off the queue its file says what the wizard shows (`OrderInv`),
  which no key can change before the save ends.
* **Agreement.** `AgreeInv`: a host says what its backup says, or that rewired once, and
  loses no service by either; what a scan writes takes the socket of a service that one
  host alone defines from that host (`Sourced`), whether it read the file or what rewire
  had made of it. The two sides then name the same socket, since both start from what
  the host first said. A TOML host that was cut short only has fewer services, each as
  it was or as rewired (`PartSourced`); but it may then name none where another host
  does, which is why the other hosts must be in JSON.

**Only model-checked**: everything under fairness (`EveryRequestAnswered`,
`HungChildReplaced`, `ManagerStops`, `ShutdownStopsChild`, `ExitsAfterResponses`,
`FileCatchesUp`, `TrayCatchesUp`, `QuitEndsProcess`, `ShutdownEnds`, `QueriesAnswered`):
liveness and ENABLED are out of the prover's reach. Every invariant and action property
that a run checks is also a theorem, and so is every refinement. What is proved without
a run of its own (the types of Supervision, Proxy, StatusBoard, Launch and Daemon,
`PendingBounded`, `ServedWithinLimit`, `BackoffWithinCap`, `LibraryAgrees`, `BackedUp`,
`DryRunWritesNothing`, `NothingForgotten`) is not repeated in one.

## 5. Where the documentation and the code disagree

One disagreement has a run: `claim_mutex_released`. `src/README.md:382` says that
requests time out after 30 s; at the restart limit the manager awaits a mutex it holds
(`server.rs:186`), and no task gets the state again, the reaper included.

More claims are stated next to the properties of their module, or in MuxClaims and
SupervisionClaims, without a run of their own. With the constants of a neighbouring
configuration TLC refutes each of them.

The daemon:

* `OneInitializePerChild` (`src/README.md:31`, "executed once per server"): nothing sets
  `initializing` (`client.rs:260` reads it), so every initialize before the first
  response is forwarded.
* `RequestsAfterInitialize` (`client.rs:138`, buffering prevents "backend crashes"): a
  client's handshake stays complete over a restart, so its requests reach a child that
  saw no initialize (`client.rs:297`).
* `InitializeResponseIsCached` (`server.rs:100`): the response to a client that
  disconnected is dropped before it is cached.
* `FlagMeansForwarded` (`state.rs:141`): the flag is set before a `try_send` that may
  drop the notification, and outlives the child.
* `OneClientAnnounces` (`client.rs:173`): after a reset a second initialized
  notification may be queued behind the first.
* `NoRequestWithoutInitialize` (`client.rs:136`): an initialized notification alone
  completes a handshake.
* `RegisteredWithinLimit` (`src/README.md:138`): a malformed frame makes `handle_client`
  return (`client.rs:100`) without unregistering, so the permit is reused while the
  client stays registered. `ServedWithinLimit` is what does hold.
* `AnsweredProbeIsNoFailure` (`heartbeat.rs:145`): the inspector waits for a oneshot
  only its own select loop can fire (`heartbeat.rs:237`): every probe times out,
  answered or not, and a server that answers them all is restarted. No property asks for
  that.
* "Graceful shutdown (Ctrl+C) -> stop all children" (`src/README.md:388`): a child is
  never killed (`server.rs:308`), and one that does not read its stdin stays. That is
  the exception in `ShutdownStopsChild`; without it the property fails.
* `RestartsBeforeGivingUp` (`docs/dev/guidelines.md:188`): the first start counts.
* `PingsFollowInitialized` (`heartbeat.rs:204`): the flag does not speak of this child.
* "Triggering server restarts when the backend becomes unresponsive" (`heartbeat.rs:5`):
  the write to the child is outside the select (`server.rs:266`), so one that does not
  read is not replaced. That is the exception in `HungChildReplaced` and `ManagerStops`.
* `LatestWaits` (`tray.rs:29`, "Keep only the latest snapshot"): a full channel drops
  the newest (`tray.rs:59`).
* `FailureIsWritten` (`src/AI_README.md:175`): the status of a server that reached its
  limit is never published, since publishing it is what waits for ever.
* `ShutdownAlwaysEnds` (`src/README.md:36`): a mux that has still to register waits for
  the mutex a query holds that waits for a stuck mux.
* `ExitRemovesStatusSocket` (`src/README.md:36`): nothing waits for the status listener,
  which removes its socket.

The proxy:

* `AllAnsweredAtExit` (`proxy.rs:4`): a null id counts as a response (`proxy.rs:72`).
* `ExitsWhenBothClosed` (`proxy.rs:23`) and `ExitsWhenNothingPends` (`proxy.rs:80`): the
  exit is decided only after a message from the socket, and with either side open.

Start and set-up:

* `CliTakesPrecedence` (`docs/dev/guidelines.md:227`): max_clients and log_level are
  taken from the file first.
* `HealthAlwaysReachesService`: the health check honours a `--socket` that the
  multi-service mode ignores.
* `ServicesKept` (`src/README.md:254`, "creates .bak backup"): a rewire of a TOML host
  that is cut short at a line end and then repeated copies the part over the backup
  (`scan.rs:374-376`), and a save of the wizard does so with `mcp-mux.toml`
  (`persist.rs:95-98`). With hosts in JSON it holds.
* `OriginalKept` (`src/README.md:254`): a second rewire overwrites the backup with the
  output of the first.
* `ManifestRunsServers`: a scan of a rewired host makes the proxy a service of the mux.
* `OnlySelectedSaved` (`wizard/types.rs:89`): every listed service is saved.
* `EditsKept`: adding a service loads its form without storing the edit of the one that
  was highlighted.
* `SaveAllRewires` (`wizard/keys.rs:375`): "Save all" of the dialog writes the same as
  "Save mux only"; a TODO there says so.

## 6. Not modelled, and what a reader should know

Components without a module draw or install: `wizard/ui.rs`, `multi_tui.rs` (whose list
nothing fills), `tray_dashboard.rs`, the installers. Of the modelled components this is
left out: parsing and printing of files, arguments and log levels; expansion of paths;
`status_all`, which asks a running mux and prints, and `restart_single`, which sends a
method no handler implements; the snippet files of a scan, which are the same writes on
other paths; `run_status_cmd`; copying to the clipboard; process ids and the health mark
of the wizard's list.

Noticed and outside the models, because nothing is promised or the instance would only
restate it:

* `--status-file` applies to every service of a daemon (`config.rs:423`); two services
  then share one .tmp file, and the rename may publish part of it. StatusBoard is one
  mux with its own file. Its crash ends the process, not the machine: a disk that
  reorders write and rename is outside.
* Two daemons on one path: the older one's clean-up removes the socket of the newer.
  Daemon is one process at a time. Services that share a path or a name are outside
  `OwnPaths`.
* If no mux of a daemon can bind, `run_mux_multi` still waits for Ctrl-C. The run
  contains it: nothing is promised before a shutdown.
* A command that cannot be spawned leaves the status at "Starting"; `Lazy` and `Backoff`
  are never set. The file keeps the last state that was written when the process ended.
* A leaked client of a malformed frame counts as connected for good. If it had stopped
  reading before, a request of it stays in `pending` until the child answers it, it
  expires or the child ends (`OneFault` of section 4).
* Two trays in one process share the global menu events, so a Quit may go to the other.
* With the default configuration file present, `--socket` and `--cmd` without
  `--service` fail: the file's services must be told apart first.
* Of the mux's own configuration scan makes no check: after a kill in the middle of its
  write the next scan copies the part over the backup. `AllRecoverable` therefore speaks
  of it only where the wizard writes it.
* The directory of sockets is one for the commands and another for the wizard, so what
  one of them rewires the other does not serve. `CommandsAgree` is about the commands.
* A service edited in the wizard loses the settings the form does not show; the manifest
  of a scan drops `env`; entries with one name collapse into the last.
* An error while the wizard saves ends it with the terminal in raw mode; errors of
  single hosts are only logged.

What could follow: two services with one status file.
