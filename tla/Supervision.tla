----------------------------- MODULE Supervision -----------------------------
(***************************************************************************)
(* The manager and the heartbeat inspector together, with the router, the  *)
(* reaper, the clients and the shutdown as far as these two notice them    *)
(* (src/src/runtime/mod.rs).                                               *)
(***************************************************************************)
EXTENDS ServerManager, Heartbeat

\* The router takes a Reset from its events and runs reset_state.
RouterResets ==
    /\ resets > 0
    /\ LockFree
    /\ resets' = resets - 1
    /\ serverInitialized' = FALSE
    /\ UNCHANGED <<lock, status, shutdown, toServer, receiving, signals,
                   replies, managerVars, childVars, heartbeatVars, rpc>>

\* The reaper's tick, up to the mutex, and the section under it.
ReaperTick ==
    /\ rpc = "idle"
    /\ ~shutdown
    /\ rpc' = "tick"
    /\ UNCHANGED <<sharedVars, channelVars, managerVars, childVars,
                   heartbeatVars>>

ReaperLocks ==
    /\ rpc = "tick"
    /\ LockFree
    /\ rpc' = "idle"
    /\ UNCHANGED <<sharedVars, channelVars, managerVars, childVars,
                   heartbeatVars>>

\* The first notifications/initialized of a client: the flag is set, and the
\* notification is queued if there is room for it.
ClientInitialized ==
    /\ LockFree
    /\ ~serverInitialized
    /\ serverInitialized' = TRUE
    /\ toServer' = IF receiving /\ HasRoom THEN Append(toServer, Initialized)
                                           ELSE toServer
    /\ UNCHANGED <<lock, status, shutdown, receiving, resets, signals,
                   replies, managerVars, childVars, heartbeatVars, rpc>>

\* Any other message of a client.
ClientCalls ==
    /\ LockFree
    /\ receiving
    /\ HasRoom
    /\ toServer' = Append(toServer, Call)
    /\ UNCHANGED <<sharedVars, receiving, resets, signals, replies,
                   managerVars, childVars, heartbeatVars, rpc>>

Shutdown ==
    /\ ~shutdown
    /\ shutdown' = TRUE
    /\ UNCHANGED <<lock, status, serverInitialized, channelVars, managerVars,
                   childVars, heartbeatVars, rpc>>

Init ==
    /\ SharedInit
    /\ ManagerInit
    /\ HeartbeatInit
    /\ rpc = "idle"

Next ==
    \/ ManagerNext
    \/ ChildNext
    \/ HeartbeatNext
    \/ RouterResets
    \/ ReaperTick
    \/ ReaperLocks
    \/ ClientInitialized
    \/ ClientCalls
    \/ Shutdown

Spec == Init /\ [][Next]_vars

(***************************************************************************)
(* Fairness: every task whose future is ready runs.  tokio::select! picks  *)
(* among ready branches at random, so a branch that is ready whenever the  *)
(* loop comes round is picked in the end: strong fairness of the           *)
(* manager's select.  A child that is not deaf reads its stdin and exits   *)
(* at its end, also one that is no longer the last.                        *)
(***************************************************************************)
Fairness ==
    /\ WF_vars(ManagerProceeds)
    /\ SF_vars(SelectSignal)
    /\ SF_vars(SelectExit)
    /\ WF_vars(ChildReads)
    /\ WF_vars(ChildSeesEof)
    /\ WF_vars(EarlierExits)
    /\ SF_vars(Tick)
    /\ SF_vars(SendProbe)
    /\ WF_vars(HeartbeatNext)
    /\ WF_vars(RouterResets)
    /\ WF_vars(ReaperLocks)

FairSpec == Spec /\ Fairness

-----------------------------------------------------------------------------
SharedTypeOK ==
    /\ lock \in {"free", "manager"}
    /\ status \in {"starting", "running", "failed", "restarting", "stopped"}
    /\ serverInitialized \in BOOLEAN
    /\ shutdown \in BOOLEAN

ChannelTypeOK ==
    /\ toServer \in Seq(ToChild) /\ Len(toServer) <= MaxQueue
    /\ receiving \in BOOLEAN
    /\ resets \in Nat
    /\ signals \in Nat
    /\ replies \in Seq(1..MaxProbes)

ManagerTypeOK ==
    /\ mpc \in ManagerStates
    /\ restarts \in Nat
    /\ backoff \in Nat \ {0}
    /\ inHand \in Seq(ToChild) /\ Len(inHand) <= 1

ChildTypeOK ==
    /\ spawned \in Nat
    /\ child \in {"none", "up", "mute", "deaf", "exited"}
    /\ pipe \in Seq(ToChild) /\ Len(pipe) <= PipeSize
    /\ greeted \in BOOLEAN
    /\ earlier \subseteq [number : Nat, does : {"up", "mute", "deaf"}]

HeartbeatTypeOK ==
    /\ hpc \in InspectorStates
    /\ probe \in 0..MaxProbes
    /\ outstanding \subseteq 1..MaxProbes
    /\ fired \in BOOLEAN
    /\ failures \in 0..MaxFailures
    /\ hpc = "send" => probe # 0

(* Every variable keeps its type; the queue and the pipe keep within their *)
(* capacity.                                                               *)
TypeOK ==
    /\ SharedTypeOK
    /\ ChannelTypeOK
    /\ ManagerTypeOK
    /\ ChildTypeOK
    /\ HeartbeatTypeOK
    /\ rpc \in {"idle", "tick"}

(* A child that keeps failing is started max_restarts times in all, the    *)
(* first start included, however its runs end: crashes, write failures and *)
(* heartbeat signals all count (server_manager).                           *)
SpawnsWithinLimit == MaxRestarts > 0 => spawned <= MaxRestarts

(* The delay before a restart never exceeds the larger of the initial and  *)
(* the maximal delay, over any number of restarts.                         *)
BackoffWithinCap == backoff <= InitialBackoff \/ backoff <= BackoffCap

(* A restart is asked for only after max_failures probes, and once for     *)
(* each of the failed ones from there on: n restarts the manager has yet   *)
(* to make take n + max_failures - 1 probes.  And the first tick that may  *)
(* send a probe comes only after a child was started and a client was      *)
(* initialized: a heartbeat never restarts a server that nobody uses yet   *)
(* (spawn_heartbeat_inspector).                                            *)
SignalsNeedProbes ==
    /\ signals > 0 => signals + MaxFailures <= probe + 1
    /\ probe > 0 => spawned > 0

\* The manager waits in a write for a child that does not read.
WritesToDeaf == mpc \in {"first", "write"} /\ child = "deaf"

(* A server that hangs is restarted, as long as its status stays the same  *)
(* and nobody shuts the mux down: max_failures probes later the manager    *)
(* gets to the signal, whatever load the clients make.  The exception is a *)
(* child that does not read its stdin either: once the pipe is full the    *)
(* manager waits in a write, where it does not look at the signal          *)
(* (server_manager, spawn_heartbeat_inspector).                            *)
HungChildReplaced ==
    \A k \in 1..(MaxSpawns - 1) :
        (/\ spawned = k
         /\ child \in {"mute", "deaf"}
         /\ ProbeAllowed
         /\ probe + MaxFailures <= MaxProbes)
        ~> \/ mpc \in {"cleanup", "clear", "decide", "done"}
           \/ WritesToDeaf
           \/ shutdown
           \/ ~ProbeAllowed

(* After shutdown the manager returns from wherever it waits: for a first  *)
(* message, in the select, in a write, or asleep before a restart.  Two    *)
(* waits have no end: the write to a child that does not read, and the one *)
(* for its own mutex at the restart limit (server_manager).                *)
ManagerStops ==
    shutdown ~> mpc \in {"done", "failed", "limit"} \/ WritesToDeaf

(* After shutdown every process that was started exits, the last one and   *)
(* those it replaced, except one that does not read its stdin: the manager *)
(* closes it and kills nothing (server_manager).                           *)
ShutdownStopsChild ==
    shutdown ~> /\ child \notin {"up", "mute"}
                /\ \A p \in earlier : p.does = "deaf"

(* The reaper gets the mutex and expires requests.                         *)
ReaperProceeds == (rpc = "tick") ~> (rpc = "idle")

-----------------------------------------------------------------------------
\* The phases of the child.
Phase ==
    CASE mpc \in {"started", "first", "loop", "select", "write", "cleanup"} ->
            "up"
      [] mpc = "clear" -> "reset"
      [] OTHER -> "down"

Lifecycle == INSTANCE ChildLifecycle
    WITH phase <- Phase, epoch <- spawned, told <- resets > 0

(* The manager implements the life cycle of its children, whether they     *)
(* exit, fail a write, are restarted by the heartbeat or stopped           *)
(* (server_manager).                                                       *)
ManagerImplementsLifecycle == Lifecycle!Spec
=============================================================================
