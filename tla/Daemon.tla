-------------------------------- MODULE Daemon --------------------------------
(***************************************************************************)
(* Several muxes in one process: how they start, register, are queried and *)
(* end.  Either run_mux_multi owns them all, with one cancellation token,  *)
(* one StatusState and one status socket (src/src/lib.rs,                  *)
(* src/src/runtime/status.rs), or an application owns a MuxHandle for each *)
(* (spawn_mux_server).  What a mux does for its clients is in Mux.         *)
(*                                                                         *)
(* The files of the sockets outlive the process, which may crash between   *)
(* any two steps and be started again.                                     *)
(***************************************************************************)
EXTENDS Integers, FiniteSets

CONSTANTS
    Muxes,       \* the services of the configuration
    SocketOf,    \* their socket paths
    NameOf,      \* their service names, the keys of StatusState.servers
    Queries,     \* the connections to the status socket
    MaxRuns,     \* bound: how often the process is started
    None,        \* nobody
    Dead         \* a socket file whose listener is gone

ASSUME RunsAssumption == MaxRuns \in Nat \ {0}
ASSUME NobodyAssumption ==
    None \notin Muxes \cup Queries /\ Dead \notin Muxes \cup {None}

VARIABLES
    program,    \* "daemon": run_mux_multi; "handles": an application's MuxHandles
    up,         \* the process runs
    runs,       \* how often it was started
    main,       \* where run_mux_multi is
    cancelled,  \* the muxes whose cancellation token is cancelled
    place,      \* where each mux is in run_mux_internal_with_status
    socket,     \* the file at each path: none, dead, or the mux behind it
    servers,    \* StatusState.servers: the mux registered under each name
    holder,     \* the query that holds the mutex of StatusState
    stuck,      \* the muxes whose state mutex is never released (server.rs:186)
    listener,   \* where run_status_listener is
    statusFile, \* the file of the status socket: "absent", "live" or "dead"
    query,      \* where each status connection is
    todo,       \* the names collect_status has still to visit for it
    asked       \* the names of the muxes that served when it connected

vars == <<program, up, runs, main, cancelled, place, socket, servers, holder,
          stuck, listener, statusFile, query, todo, asked>>

Paths == {SocketOf[m] : m \in Muxes}
Names == {NameOf[m] : m \in Muxes}
Registered == {n \in Names : servers[n] # None}
Serving == {m \in Muxes : place[m] = "serving"}
Shutdown == cancelled = Muxes

FreshPlace == [m \in Muxes |-> "starting"]
FreshServers == [n \in Names |-> None]
FreshMain == IF program = "daemon" THEN "running" ELSE "application"
FreshListener == IF program = "daemon" THEN "starting" ELSE "ended"
FreshQuery == [q \in Queries |-> "idle"]
FreshNames == [q \in Queries |-> {}]

Init ==
    /\ program \in {"daemon", "handles"}
    /\ up = TRUE
    /\ runs = 1
    /\ main = FreshMain
    /\ cancelled = {}
    /\ place = FreshPlace
    /\ socket = [p \in Paths |-> None]
    /\ servers = FreshServers
    /\ holder = None
    /\ stuck = {}
    /\ listener = FreshListener
    /\ statusFile = "absent"
    /\ query = FreshQuery
    /\ todo = FreshNames
    /\ asked = FreshNames

-----------------------------------------------------------------------------
(* A mux: run_mux_internal_with_status.                                    *)
statusVars == <<holder, listener, statusFile, query, todo, asked>>
restOfMux == <<program, up, runs, main, cancelled, statusVars>>

Moves(m, from, to) ==
    /\ up
    /\ place[m] = from
    /\ place' = [place EXCEPT ![m] = to]

RemoveStale(m) ==
    /\ Moves(m, "starting", "binding")
    /\ socket' = [socket EXCEPT ![SocketOf[m]] = None]
    /\ UNCHANGED <<servers, stuck, restOfMux>>

BoundThenRemovedWrong(m) == None
\* What the path leads to once the mux has bound it.
Bound(m) == m

Bind(m) ==
    /\ Moves(m, "binding", "registering")
    /\ socket[SocketOf[m]] = None
    /\ socket' = [socket EXCEPT ![SocketOf[m]] = Bound(m)]
    /\ UNCHANGED <<servers, stuck, restOfMux>>

\* Another listener took the path, or it cannot be created.
BindFails(m) ==
    /\ Moves(m, "binding", "failed")
    /\ UNCHANGED <<socket, servers, stuck, restOfMux>>

ServersForgetWrong(m) ==
    [n \in Names |-> IF n = NameOf[m] THEN m ELSE None]
\* register_server: a second mux of the same name replaces the first.
ServersWith(m) == [servers EXCEPT ![NameOf[m]] = m]

\* The mutex of StatusState is waited for whether or not shutdown is requested.
\* Without a StatusState there is nothing to wait for.
Register(m) ==
    /\ Moves(m, "registering", "opening")
    /\ IF program = "daemon"
       THEN holder = None /\ servers' = ServersWith(m)
       ELSE UNCHANGED servers
    /\ UNCHANGED <<socket, stuck, restOfMux>>

\* The first snapshot; then the tasks are spawned.
Open(m) ==
    /\ Moves(m, "opening", "serving")
    /\ UNCHANGED <<socket, servers, stuck, restOfMux>>

\* The manager reaches its restart limit.
Stick(m) ==
    /\ up
    /\ place[m] \in {"serving", "closing", "ended"}
    /\ stuck' = stuck \cup {m}
    /\ UNCHANGED <<place, socket, servers, restOfMux>>

LeaveLoop(m) ==
    /\ Moves(m, "serving", "closing")
    /\ m \in cancelled
    /\ UNCHANGED <<socket, servers, stuck, restOfMux>>

MayCloseDeregisteringWrong(m) == holder = None
\* Closing takes no lock.
MayClose(m) == TRUE

Close(m) ==
    /\ Moves(m, "closing", "ended")
    /\ MayClose(m)
    /\ socket' = [socket EXCEPT ![SocketOf[m]] = None]
    /\ UNCHANGED <<servers, stuck, restOfMux>>

-----------------------------------------------------------------------------
(* The status socket: run_status_listener, handle_status_connection and    *)
(* collect_status.                                                         *)
restOfStatus == <<program, up, runs, main, cancelled, place, socket, servers,
                  stuck>>

Listen ==
    /\ up
    /\ listener = "starting"
    /\ \/ listener' = "serving" /\ statusFile' = "live"
       \/ listener' = "failed" /\ UNCHANGED statusFile
    /\ UNCHANGED <<holder, query, todo, asked, restOfStatus>>

Connect(q) ==
    /\ up
    /\ listener = "serving"
    /\ query[q] = "idle"
    /\ query' = [query EXCEPT ![q] = "accepted"]
    /\ asked' = [asked EXCEPT ![q] = {NameOf[m] : m \in Serving}]
    /\ UNCHANGED <<holder, listener, statusFile, todo, restOfStatus>>

Lock(q) ==
    /\ up
    /\ query[q] = "accepted"
    /\ holder = None
    /\ holder' = q
    /\ query' = [query EXCEPT ![q] = "collecting"]
    /\ todo' = [todo EXCEPT ![q] = Registered]
    /\ UNCHANGED <<listener, statusFile, asked, restOfStatus>>

\* One mux after the other, each under its own mutex.
Visit(q) ==
    /\ up
    /\ query[q] = "collecting"
    /\ \E n \in todo[q] :
         /\ servers[n] \notin stuck
         /\ todo' = [todo EXCEPT ![q] = @ \ {n}]
    /\ UNCHANGED <<holder, listener, statusFile, query, asked, restOfStatus>>

AfterAnswerWrong(q) == q
\* The guard is dropped before the answer is sent.
AfterAnswer(q) == None

Answer(q) ==
    /\ up
    /\ query[q] = "collecting"
    /\ todo[q] = {}
    /\ holder' = AfterAnswer(q)
    /\ query' = [query EXCEPT ![q] = "answered"]
    /\ UNCHANGED <<listener, statusFile, todo, asked, restOfStatus>>

ListenerCloses ==
    /\ up
    /\ listener = "serving"
    /\ Shutdown
    /\ listener' = "ended"
    /\ statusFile' = "absent"
    /\ UNCHANGED <<holder, query, todo, asked, restOfStatus>>

-----------------------------------------------------------------------------
(* The owner of the muxes.                                                 *)
restOfOwner == <<program, runs, place, socket, servers, stuck, statusVars>>

\* The token is cancelled by Ctrl-C, or by the tray of a mux ("Quit mux"); in a
\* daemon all muxes share it.  MuxHandle::shutdown cancels that of one mux.
Interrupt ==
    /\ up
    /\ main = "running"
    /\ cancelled' = Muxes
    /\ main' = "joining"
    /\ UNCHANGED <<up, restOfOwner>>

Cancel(m) ==
    /\ up
    /\ program = "daemon" => place[m] = "serving"
    /\ cancelled' = IF program = "daemon" THEN Muxes ELSE cancelled \cup {m}
    /\ UNCHANGED <<up, main, restOfOwner>>

SeeCancelled ==
    /\ up
    /\ main = "running"
    /\ Shutdown
    /\ main' = "joining"
    /\ UNCHANGED <<up, cancelled, restOfOwner>>

\* The process ends or crashes: the files stay, what listened is gone.
Gone ==
    /\ up' = FALSE
    /\ main' = FreshMain
    /\ cancelled' = {}
    /\ place' = FreshPlace
    /\ socket' = [p \in Paths |-> IF socket[p] = None THEN None ELSE Dead]
    /\ servers' = FreshServers
    /\ holder' = None
    /\ stuck' = {}
    /\ listener' = FreshListener
    /\ statusFile' = IF statusFile = "absent" THEN "absent" ELSE "dead"
    /\ query' = FreshQuery
    /\ todo' = FreshNames
    /\ asked' = FreshNames
    /\ UNCHANGED <<program, runs>>

JoinedFirstWrong(done) == done # {}
\* join_all: the daemon waits for every mux.
Joined(done) == done = Muxes

\* Nothing waits for the status listener or its connections.
Exit ==
    /\ up
    /\ main = "joining" \/ (main = "application" /\ Shutdown)
    /\ Joined({m \in Muxes : place[m] \in {"ended", "failed"}})
    /\ Gone

Crash == up /\ Gone

Start ==
    /\ ~up
    /\ runs < MaxRuns
    /\ up' = TRUE
    /\ runs' = runs + 1
    /\ UNCHANGED <<program, main, cancelled, place, socket, servers, stuck,
                   statusVars>>

-----------------------------------------------------------------------------
MuxStep(m) ==
    \/ RemoveStale(m)
    \/ Bind(m)
    \/ BindFails(m)
    \/ Register(m)
    \/ Open(m)
    \/ LeaveLoop(m)
    \/ Close(m)

QueryStep(q) == Lock(q) \/ Visit(q) \/ Answer(q)

Next ==
    \/ \E m \in Muxes : MuxStep(m) \/ Stick(m) \/ Cancel(m)
    \/ \E q \in Queries : Connect(q) \/ QueryStep(q)
    \/ Listen
    \/ ListenerCloses
    \/ Interrupt
    \/ SeeCancelled
    \/ Exit
    \/ Crash
    \/ Start

Spec == Init /\ [][Next]_vars

\* Every ready task is polled.  The queries are finitely many, so nobody finds
\* the mutex taken again and again.
FairSpec ==
    /\ Spec
    /\ \A m \in Muxes : WF_vars(MuxStep(m))
    /\ \A q \in Queries : WF_vars(QueryStep(q))
    /\ WF_vars(Listen \/ ListenerCloses)
    /\ WF_vars(SeeCancelled)
    /\ WF_vars(Exit)

-----------------------------------------------------------------------------
(* Every variable keeps its type; whoever holds the mutex of StatusState   *)
(* collects.                                                               *)
TypeOK ==
    /\ program \in {"daemon", "handles"}
    /\ up \in BOOLEAN
    /\ runs \in 1..MaxRuns
    /\ main \in {"application", "running", "joining"}
    /\ cancelled \subseteq Muxes
    /\ place \in [Muxes -> {"starting", "binding", "registering", "opening",
                            "serving", "closing", "ended", "failed"}]
    /\ socket \in [Paths -> Muxes \cup {None, Dead}]
    /\ servers \in [Names -> Muxes \cup {None}]
    /\ holder \in Queries \cup {None}
    /\ stuck \subseteq Muxes
    /\ listener \in {"starting", "serving", "ended", "failed"}
    /\ statusFile \in {"absent", "live", "dead"}
    /\ query \in [Queries -> {"idle", "accepted", "collecting", "answered"}]
    /\ todo \in [Queries -> SUBSET Names]
    /\ asked \in [Queries -> SUBSET Names]
    /\ \A q \in Queries : query[q] = "collecting" <=> holder = q

(* A mux that serves is reached through its path, whatever the last run    *)
(* left there (run_mux_internal_with_status), when no two services share a *)
(* path.                                                                   *)
ReachableWhileServing ==
    \A m \in Serving : socket[SocketOf[m]] = m

(* A status reply lists every service that was serving when the query came *)
(* (register_server, collect_status).                                      *)
ReplyCoversServing ==
    \A q \in Queries :
        query[q] = "collecting" => asked[q] \subseteq Registered

(* An orderly end leaves no socket of a mux behind (run_mux_multi): what   *)
(* is found when the process has ended was there because it crashed.       *)
ExitRemovesSockets ==
    [][Exit => \A p \in Paths : socket'[p] = None]_vars

Settled(m) == place[m] \notin {"starting", "binding", "registering"}

(* Shutdown ends the process, also when a mux never releases its state and *)
(* a query waits for it under the mutex of StatusState; only a mux that    *)
(* has still to register then waits too, and the daemon for it             *)
(* (run_mux_multi, run_mux_internal_with_status).                          *)
ShutdownEnds ==
    (up /\ Shutdown) ~> (~up \/ (stuck # {} /\ \E m \in Muxes : ~Settled(m)))

(* A status query is answered, unless the daemon ends or a mux it waits    *)
(* for never releases its state (handle_status_connection).                *)
QueriesAnswered ==
    \A q \in Queries :
        query[q] = "accepted" ~> (query[q] \in {"idle", "answered"} \/ stuck # {})

-----------------------------------------------------------------------------
(* "Graceful shutdown - Ctrl+C stops all servers, removes sockets"         *)
(* (src/README.md:36).                                                     *)
ShutdownAlwaysEnds == (up /\ Shutdown) ~> ~up
ExitRemovesStatusSocket == [][Exit => statusFile' = "absent"]_vars
=============================================================================
