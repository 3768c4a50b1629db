--------------------------- MODULE SupervisionState ---------------------------
(***************************************************************************)
(* What the manager of the child process shares with the heartbeat         *)
(* inspector, the router, the reaper and the clients: a part of MuxState,  *)
(* the mutex around it, and the channels between them                      *)
(* (src/src/runtime/mod.rs).  Mux.tla has the requests; here they are only *)
(* load on the queue.                                                      *)
(*                                                                         *)
(* Holding the mutex is a step like any other unless the holder waits for  *)
(* something while it holds it.  Only the manager does, at its restart     *)
(* limit, so lock says whether the manager holds the mutex between steps.  *)
(***************************************************************************)
EXTENDS Integers, Sequences

CONSTANTS
    MaxRestarts,    \* max_restarts; 0 is no limit
    LazyStart,      \* lazy_start
    InitialBackoff, \* restart_backoff
    BackoffCap,     \* restart_backoff_max
    MaxFailures,    \* max_failures of the heartbeat
    MaxQueue,       \* MAX_QUEUE, the capacity of to_server
    PipeSize,       \* the messages the pipe to the child holds
    ChildFaults,    \* what a child may do wrong
    MaxSpawns,      \* bound: the children started
    MaxProbes       \* bound: the heartbeat probes

ASSUME LimitsAssumption ==
    /\ MaxRestarts \in Nat
    /\ LazyStart \in BOOLEAN
    /\ InitialBackoff \in Nat \ {0}
    /\ BackoffCap \in Nat \ {0}
    /\ MaxFailures \in Nat \ {0}
ASSUME FaultsAssumption == ChildFaults \subseteq {"mute", "deaf", "exited"}
ASSUME SizesAssumption ==
    /\ MaxQueue \in Nat \ {0}
    /\ PipeSize \in Nat \ {0}
    /\ MaxSpawns \in Nat \ {0}
    /\ MaxProbes \in Nat \ {0}

VARIABLES
    \* MuxState, its mutex, and the cancellation token
    lock,              \* who holds the mutex between steps
    status,            \* server_status
    serverInitialized, \* server_initialized
    shutdown,          \* the token is cancelled
    \* channels
    toServer,          \* to_server, bounded
    receiving,         \* the manager still owns the receiver of to_server
    resets,            \* the Reset events the router has yet to take
    signals,           \* heartbeat_restart: restarts asked for
    replies,           \* heartbeat events: the probes that were answered
    \* the manager
    mpc, restarts, backoff, inHand,
    \* the child process
    spawned,           \* the number of children started
    child,             \* what the last of them does
    pipe,              \* its stdin
    greeted,           \* it was sent an initialized notification
    earlier,           \* the processes started before it that still live
    \* the heartbeat inspector
    hpc, probe, outstanding, fired, failures,
    \* the reaper
    rpc

sharedVars == <<lock, status, serverInitialized, shutdown>>
channelVars == <<toServer, receiving, resets, signals, replies>>
managerVars == <<mpc, restarts, backoff, inHand>>
childVars == <<spawned, child, pipe, greeted, earlier>>
heartbeatVars == <<hpc, probe, outstanding, fired, failures>>
vars == <<sharedVars, channelVars, managerVars, childVars, heartbeatVars, rpc>>

\* Messages to the child: those of clients, and probes with their number.
ToChild == [kind : {"call", "initialized"}, id : {0}]
           \cup [kind : {"ping"}, id : 1..MaxProbes]
Call == [kind |-> "call", id |-> 0]
Initialized == [kind |-> "initialized", id |-> 0]
Ping(k) == [kind |-> "ping", id |-> k]

\* The bounded channel to_server has a free slot.
HasRoom == Len(toServer) < MaxQueue
LockFree == lock = "free"

SharedInit ==
    /\ lock = "free"
    /\ status = "starting"
    /\ serverInitialized = FALSE
    /\ shutdown = FALSE
    /\ toServer = <<>>
    /\ receiving = TRUE
    /\ resets = 0
    /\ signals = 0
    /\ replies = <<>>
=============================================================================
