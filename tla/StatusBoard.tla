----------------------------- MODULE StatusBoard -----------------------------
(***************************************************************************)
(* How the state of one mux reaches those who look at it: publish_status   *)
(* and the watch channel (src/src/state.rs), the writer of the status file *)
(* (src/src/runtime/status.rs) and the tray (src/src/tray.rs).             *)
(*                                                                         *)
(* Every task that changes MuxState publishes a snapshot of it afterwards. *)
(* publish_status takes the snapshot under the mutex and sends it after    *)
(* the mutex is released, so two tasks may send in the opposite order.     *)
(* The process may crash between any two steps; the file outlives it.      *)
(***************************************************************************)
EXTENDS Integers, FiniteSets

CONSTANTS
    Clients,     \* the connections, each served once
    MaxActive,   \* max_active_clients
    MaxRestarts, \* max_restarts, at least 1 here: it bounds the starts
    Scenes,      \* bound: who looks on, what happens, and how many lives
                 \* the process has in one behaviour
    MaxFaults,   \* bound: how often writing the status file fails
    MaxRuns,     \* bound: how often the process is started
    None,        \* no snapshot, no file
    Partial      \* a file that is not written to its end

ASSUME ClientsAssumption == IsFiniteSet(Clients)
ASSUME ScenesAssumption ==
    Scenes \subseteq [viewers: SUBSET {"file", "tray"},
                     busy: SUBSET {"clients", "child"},
                     lives: 1..MaxRuns]
ASSUME SizesAssumption == /\ MaxActive \in Nat \ {0}
                          /\ MaxRestarts \in Nat \ {0}
                          /\ MaxFaults \in Nat
                          /\ MaxRuns \in Nat \ {0}

VARIABLES
    scene,    \* the viewers configured (status_file, tray_enabled); whether clients
              \* come and whether a child is started (lazy_start)
    up,       \* the process runs
    runs,     \* how often it was started
    shutdown, \* the cancellation token
    stuck,    \* the manager waits for the mutex it holds (server.rs:186)
    mux,      \* MuxState, who holds a permit of the semaphore, and whose handler
              \* returned without unregistering
    pc,       \* where each task is
    taken,    \* the snapshot it holds between the two steps of publish_status
    board,    \* the watch channel: its value, and who has seen it
    writer,   \* the status writer: where it is, and what it writes
    file,     \* the status file
    tmp,      \* the file of the same name ending in .tmp
    faults,   \* how often writing failed
    tray      \* the tray: its thread, its channel of one snapshot, what it shows

vars == <<scene, up, runs, shutdown, stuck, mux, pc, taken, board, writer,
          file, tmp, faults, tray>>

Handler(c) == <<"handler", c>>
Manager == <<"manager", "mux">>
Reaper == <<"reaper", "mux">>
Tasks == {Manager, Reaper} \cup {Handler(c) : c \in Clients}

Servers == {"Starting", "Running", "Failed", "Restarting", "Stopped"}
Snapshots == [server: Servers, connected: 0..Cardinality(Clients), active: 0..MaxActive]

\* snapshot_for_state, and the permits, which the mutex does not protect.
Snapshot == [server |-> mux.server, connected |-> Cardinality(mux.clients),
             active |-> Cardinality(mux.permits)]

\* A process that has just bound its socket: nothing published, no task begun.
FirstSnapshot ==
    [server |-> "Starting", connected |-> 0, active |-> 0]
FreshMux == [server |-> "Starting", restarts |-> 0, clients |-> {},
             permits |-> {}, leaked |-> {}]
FreshPc == [t \in Tasks |-> IF t = Manager THEN "start" ELSE "idle"]
FreshTaken == [t \in Tasks |-> None]
FreshBoard == [value |-> FirstSnapshot, fileSeen |-> TRUE,
               traySeen |-> "tray" \notin scene.viewers]
WriterWaits == [pc |-> "wait", current |-> None]
FreshWriter == IF "file" \in scene.viewers
               THEN [pc |-> "write", current |-> FirstSnapshot] ELSE WriterWaits
FreshTray == [pc |-> IF "tray" \in scene.viewers THEN "opening" ELSE "gone",
              slot |-> None, shown |-> None, clicked |-> FALSE]

Init ==
    /\ scene \in Scenes
    /\ up = TRUE
    /\ runs = 1
    /\ shutdown = FALSE
    /\ stuck = FALSE
    /\ mux = FreshMux
    /\ pc = FreshPc
    /\ taken = FreshTaken
    /\ board = FreshBoard
    /\ writer = FreshWriter
    /\ file = None
    /\ tmp = None
    /\ faults = 0
    /\ tray = FreshTray

Goto(t, place) == pc' = [pc EXCEPT ![t] = place]

\* What a task does that locks MuxState.
Locks == up /\ ~stuck

-----------------------------------------------------------------------------
(* publish_status.  A task publishes at the places After names, and goes on *)
(* from there.                                                              *)
After == [greeting |-> "serving", parting |-> "left", started |-> "watching",
          exited |-> "cleaning", cleaned |-> "start", tick |-> "idle"]

Take(t) ==
    /\ Locks
    /\ pc[t] \in DOMAIN After
    /\ taken[t] = None
    /\ taken' = [taken EXCEPT ![t] = Snapshot]
    /\ UNCHANGED <<scene, up, runs, shutdown, stuck, mux, pc, board, writer,
                   file, tmp, faults, tray>>

SentQuietlyWrong(s) == [board EXCEPT !.value = s]
Sent(s) == [value |-> s, fileSeen |-> "file" \notin scene.viewers,
            traySeen |-> "tray" \notin scene.viewers]

Send(t) ==
    /\ up
    /\ taken[t] # None
    /\ board' = Sent(taken[t])
    /\ taken' = [taken EXCEPT ![t] = None]
    /\ Goto(t, After[pc[t]])
    /\ UNCHANGED <<scene, up, runs, shutdown, stuck, mux, writer, file, tmp,
                   faults, tray>>

\* A reaper that publishes only after a request has expired, and none has.
TickIfExpiredWrong == FALSE
\* The tick of the reaper every 500 ms: it publishes whether or not anything
\* changed.  What it expires is in EventRouter.  The router, the inspector and
\* the writers of connections publish too; here that is one more tick.
Tick ==
    /\ Locks
    /\ ~shutdown
    /\ pc[Reaper] = "idle"
    /\ Goto(Reaper, "tick")
    /\ UNCHANGED <<scene, up, runs, shutdown, stuck, mux, taken, board,
                   writer, file, tmp, faults, tray>>

-----------------------------------------------------------------------------
(* The tasks of a connection.                                              *)
restOfConnection == <<scene, up, runs, shutdown, stuck, board, writer,
                      file, tmp, faults, tray>>

Acquire(c) ==
    /\ up
    /\ "clients" \in scene.busy
    /\ pc[Handler(c)] = "idle"
    /\ Cardinality(mux.permits) < MaxActive
    /\ mux' = [mux EXCEPT !.permits = @ \cup {c}]
    /\ Goto(Handler(c), "permitted")
    /\ UNCHANGED <<taken, restOfConnection>>

Register(c) ==
    /\ Locks
    /\ pc[Handler(c)] = "permitted"
    /\ mux' = [mux EXCEPT !.clients = @ \cup {c}]
    /\ Goto(Handler(c), "greeting")
    /\ UNCHANGED <<taken, restOfConnection>>

UnregisteredLateWrong(c) == [mux EXCEPT !.permits = @ \ {c}]
Unregistered(c) == [mux EXCEPT !.clients = @ \ {c}]

\* End of the connection, a handshake timeout, or shutdown.
Leave(c) ==
    /\ Locks
    /\ pc[Handler(c)] = "serving"
    /\ mux' = Unregistered(c)
    /\ Goto(Handler(c), "parting")
    /\ UNCHANGED <<taken, restOfConnection>>

\* A client stops reading: its writer task unregisters it, and publishes.
StopReading(c) ==
    /\ Locks
    /\ pc[Handler(c)] = "serving"
    /\ c \in mux.clients
    /\ mux' = Unregistered(c)
    /\ UNCHANGED <<pc, taken, restOfConnection>>

\* The handler aborts the writer and returns, which drops the permit.
Release(c) ==
    /\ up
    /\ pc[Handler(c)] = "left"
    /\ mux' = [mux EXCEPT !.permits = @ \ {c}]
    /\ Goto(Handler(c), "gone")
    /\ UNCHANGED <<taken, restOfConnection>>

\* A frame that does not decode: handle_client returns at once.
Malformed(c) ==
    /\ up
    /\ pc[Handler(c)] = "serving"
    /\ mux' = [mux EXCEPT !.permits = @ \ {c},
                          !.leaked = @ \cup ({c} \cap mux.clients)]
    /\ Goto(Handler(c), "gone")
    /\ UNCHANGED <<taken, restOfConnection>>

-----------------------------------------------------------------------------
(* What the server manager tells of the child.                             *)
ManagerAt(place) == pc[Manager] = place

AtLimit == mux.restarts >= MaxRestarts

\* A child that cannot be spawned ends the manager and nothing tells of it.
Spawn ==
    /\ Locks
    /\ "child" \in scene.busy
    /\ ManagerAt("start")
    /\ ~shutdown
    /\ ~AtLimit
    /\ \/ /\ mux' = [mux EXCEPT !.server = "Running"]
          /\ Goto(Manager, "started")
       \/ /\ Goto(Manager, "ended")
          /\ UNCHANGED mux
    /\ UNCHANGED <<taken, restOfConnection>>

\* At the limit the status is set and published under the same mutex.
GiveUp ==
    /\ Locks
    /\ "child" \in scene.busy
    /\ ManagerAt("start")
    /\ ~shutdown
    /\ AtLimit
    /\ mux' = [mux EXCEPT !.server = "Failed"]
    /\ stuck' = TRUE
    /\ Goto(Manager, "ended")
    /\ UNCHANGED <<scene, up, runs, shutdown, taken, board, writer, file, tmp,
                   faults, tray>>

\* The child exits, does not take a write, or a heartbeat signal comes.
LoseChild ==
    /\ Locks
    /\ ManagerAt("watching")
    /\ mux' \in {mux, [mux EXCEPT !.server = "Failed"]}
    /\ Goto(Manager, "exited")
    /\ UNCHANGED <<taken, restOfConnection>>

CleanUp ==
    /\ Locks
    /\ ManagerAt("cleaning") \/ (ManagerAt("watching") /\ shutdown)
    /\ mux' = IF shutdown THEN [mux EXCEPT !.server = "Stopped"]
              ELSE [mux EXCEPT !.server = "Restarting", !.restarts = @ + 1]
    /\ Goto(Manager, "cleaned")
    /\ UNCHANGED <<taken, restOfConnection>>

-----------------------------------------------------------------------------
(* The status file.                                                        *)
restOfFile == <<scene, up, runs, shutdown, stuck, mux, pc, taken, tray>>

WriterWakes ==
    /\ up
    /\ writer.pc = "wait"
    /\ ~board.fileSeen
    /\ board' = [board EXCEPT !.fileSeen = TRUE]
    /\ writer' = [pc |-> "write", current |-> board.value]
    /\ UNCHANGED <<file, tmp, faults, restOfFile>>

\* fs::write empties the other file, or creates it, and then fills it.
WriterEmpties ==
    /\ up
    /\ writer.pc = "write"
    /\ tmp' = Partial
    /\ writer' = [writer EXCEPT !.pc = "fill"]
    /\ UNCHANGED <<board, file, faults, restOfFile>>

WriterFills ==
    /\ up
    /\ writer.pc = "fill"
    /\ tmp' = writer.current
    /\ writer' = [writer EXCEPT !.pc = "rename"]
    /\ UNCHANGED <<board, file, faults, restOfFile>>

WriterRenames ==
    /\ up
    /\ writer.pc = "rename"
    /\ file' = tmp
    /\ tmp' = None
    /\ writer' = WriterWaits
    /\ UNCHANGED <<board, faults, restOfFile>>

\* A failed write that is only warned of, with the rename after it.
GivenUpWrong ==
    IF writer.pc = "fill" THEN [writer EXCEPT !.pc = "rename"] ELSE WriterWaits
\* A warning, and the next change is waited for.
GivenUp == WriterWaits

\* Making the directory, writing or renaming fails; what was written of the
\* other file stays.
WriterFails ==
    /\ up
    /\ writer.pc # "wait"
    /\ faults < MaxFaults
    /\ faults' = faults + 1
    /\ writer' = GivenUp
    /\ UNCHANGED <<board, file, tmp, restOfFile>>

-----------------------------------------------------------------------------
(* The tray: a task that forwards, and a thread with the menu.             *)
restOfTray == <<scene, up, runs, stuck, mux, pc, taken, writer, file, tmp, faults>>

\* send_latest drops the snapshot when the slot is taken.
Forward ==
    /\ up
    /\ ~board.traySeen
    /\ board' = [board EXCEPT !.traySeen = TRUE]
    /\ tray' = IF tray.slot = None /\ tray.pc # "gone"
               THEN [tray EXCEPT !.slot = board.value] ELSE tray
    /\ UNCHANGED <<shutdown, restOfTray>>

\* The first snapshot; build_tray may fail.
TrayOpens ==
    /\ up
    /\ tray.pc = "opening"
    /\ tray.slot # None
    /\ tray' \in {[tray EXCEPT !.pc = "loop", !.slot = None, !.shown = tray.slot],
                  [tray EXCEPT !.pc = "gone", !.slot = None]}
    /\ UNCHANGED <<shutdown, board, restOfTray>>

TrayTakes ==
    /\ up
    /\ tray.pc = "loop"
    /\ tray.slot # None
    /\ tray' = [tray EXCEPT !.slot = None, !.shown = tray.slot]
    /\ UNCHANGED <<shutdown, board, restOfTray>>

Click ==
    /\ up
    /\ tray.pc = "loop"
    /\ tray' = [tray EXCEPT !.clicked = TRUE]
    /\ UNCHANGED <<shutdown, board, restOfTray>>

OnQuitWrong == shutdown
OnQuit == TRUE

TrayQuits ==
    /\ up
    /\ tray.pc = "loop"
    /\ tray.clicked
    /\ tray' = [tray EXCEPT !.pc = "gone", !.slot = None]
    /\ shutdown' = OnQuit
    /\ UNCHANGED <<board, restOfTray>>

TrayStops ==
    /\ up
    /\ tray.pc = "loop"
    /\ shutdown
    /\ tray' = [tray EXCEPT !.pc = "gone", !.slot = None]
    /\ UNCHANGED <<shutdown, board, restOfTray>>

-----------------------------------------------------------------------------
(* The process.                                                            *)
Interrupt ==
    /\ up
    /\ shutdown' = TRUE
    /\ UNCHANGED <<board, tray, restOfTray>>

\* Memory is lost, the files stay.
Stopped ==
    /\ up' = FALSE
    /\ shutdown' = FALSE
    /\ stuck' = FALSE
    /\ mux' = FreshMux
    /\ pc' = FreshPc
    /\ taken' = FreshTaken
    /\ board' = FreshBoard
    /\ writer' = FreshWriter
    /\ tray' = FreshTray
    /\ UNCHANGED <<scene, runs, file, tmp, faults>>

Crash == up /\ Stopped

\* The accept loop is left and the tray's thread joined; nothing waits for the
\* status writer or for the tasks that publish.
Exit == up /\ shutdown /\ tray.pc = "gone" /\ Stopped

Start ==
    /\ ~up
    /\ runs < scene.lives
    /\ up' = TRUE
    /\ runs' = runs + 1
    /\ UNCHANGED <<scene, shutdown, stuck, mux, pc, taken, board, writer, file, tmp,
                   faults, tray>>

-----------------------------------------------------------------------------
Connection(c) ==
    \/ Acquire(c)
    \/ Register(c)
    \/ Leave(c)
    \/ StopReading(c)
    \/ Release(c)
    \/ Malformed(c)

ManagerStep == Spawn \/ GiveUp \/ LoseChild \/ CleanUp
FileStep == WriterWakes \/ WriterEmpties \/ WriterFills \/ WriterRenames
TrayStep == TrayOpens \/ TrayTakes \/ TrayQuits \/ TrayStops

Next ==
    \/ \E t \in Tasks : Take(t) \/ Send(t)
    \/ Tick
    \/ \E c \in Clients : Connection(c)
    \/ ManagerStep
    \/ FileStep
    \/ WriterFails
    \/ Forward
    \/ TrayStep
    \/ Click
    \/ Interrupt
    \/ Crash
    \/ Exit
    \/ Start

Spec == Init /\ [][Next]_vars

\* Every ready task is polled, and the tray's thread runs.
FairSpec ==
    /\ Spec
    /\ WF_vars(Tick)
    /\ \A t \in Tasks : WF_vars(Take(t) \/ Send(t))
    /\ WF_vars(FileStep)
    /\ WF_vars(Forward)
    /\ WF_vars(TrayTakes \/ TrayOpens)
    /\ WF_vars(TrayQuits \/ TrayStops)
    /\ WF_vars(Exit)

-----------------------------------------------------------------------------
(* Every variable keeps its type, and a snapshot is held only where one is *)
(* published.                                                              *)
TypeOK ==
    /\ up \in BOOLEAN
    /\ runs \in 1..MaxRuns
    /\ shutdown \in BOOLEAN
    /\ stuck \in BOOLEAN
    /\ mux \in [server: Servers, restarts: 0..MaxRestarts,
                clients: SUBSET Clients, permits: SUBSET Clients,
                leaked: SUBSET Clients]
    /\ pc \in [Tasks -> DOMAIN After \cup {"idle", "permitted", "serving", "left",
                                           "gone", "start", "watching",
                                           "cleaning", "ended"}]
    /\ taken \in [Tasks -> Snapshots \cup {None}]
    /\ \A t \in Tasks : taken[t] # None => pc[t] \in DOMAIN After
    /\ board \in [value: Snapshots, fileSeen: BOOLEAN, traySeen: BOOLEAN]
    /\ writer \in [pc: {"wait", "write", "fill", "rename"},
                current: Snapshots \cup {None}]
    /\ tmp \in Snapshots \cup {None, Partial}
    /\ file \in Snapshots \cup {None, Partial}
    /\ faults \in 0..MaxFaults
    /\ tray \in [pc: {"opening", "loop", "gone"}, slot: Snapshots \cup {None},
                 shown: Snapshots \cup {None}, clicked: BOOLEAN]

(* Whoever opens the status file finds none or a whole snapshot, although  *)
(* every snapshot is a part of one for a while, writing may fail there and *)
(* the process may crash there: the part is never renamed, not in a later  *)
(* life either (write_status_file).  Two services whose status files       *)
(* differ in their extension only would share the other file; here there   *)
(* is one.                                                                 *)
FileIsWhole == file # Partial

(* A snapshot never shows more clients connected than are active, although *)
(* the permits are not counted under a lock of their own, except for those *)
(* a malformed frame left behind (handle_client, publish_status).          *)
ConnectedWithinActive ==
    \A s \in {board.value, tray.shown, tray.slot} \ {None} :
        s.connected <= s.active + Cardinality(mux.leaked)

(* When clients and child have come to rest, file and tray show what the   *)
(* mux's state is, although older snapshots may overwrite newer ones, the  *)
(* tray's channel drops the newest, and writes may fail; unless the mux    *)
(* ends or its manager has stopped everything (publish_status,             *)
(* reap_timeouts, spawn_status_writer, send_latest).                       *)
Undisturbed == up /\ ~shutdown /\ ~stuck
FileCatchesUp ==
    <>[](Undisturbed /\ "file" \in scene.viewers => file = Snapshot)
TrayCatchesUp == <>[](Undisturbed /\ tray.pc = "loop" => tray.shown = Snapshot)

(* "Quit mux" ends the process, also while snapshots keep coming or the    *)
(* mutex of the state is never released (tray_loop).                       *)
QuitEndsProcess == tray.clicked ~> ~up

-----------------------------------------------------------------------------
(* "Keep only the latest snapshot" (spawn_tray): what waits for the tray   *)
(* is the newest snapshot the forwarder has seen.                          *)
LatestWaits == tray.slot # None /\ board.traySeen => tray.slot = board.value

(* "Written atomically to status_file on every state change"               *)
(* (src/AI_README.md): the end of the server is written.                   *)
FailureIsWritten ==
    (stuck /\ "file" \in scene.viewers)
        ~> (~up \/ file \in {s \in Snapshots : s.server = "Failed"})
=============================================================================
