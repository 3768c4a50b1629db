------------------------------ MODULE MuxState ------------------------------
(***************************************************************************)
(* The state the tasks of one mux share (src/src/state.rs), the channels   *)
(* between them (src/src/runtime/mod.rs), and the operations of MuxState.  *)
(* Every operation below runs under the one tokio Mutex around MuxState,   *)
(* so it is a part of one step of the task that calls it; where a task     *)
(* releases the lock and takes it again, its module has two steps.         *)
(*                                                                         *)
(* A connection c stands for its client_id: next_client_id hands out every *)
(* id once.  The requests of a connection carry the ids 1, 2, ... chosen   *)
(* by its client, so the ids of different clients collide.  A JSON-RPC     *)
(* message is the record of its method, its client, its client's id (lid)  *)
(* and the global id the mux gave it, 0 where there is none.               *)
(***************************************************************************)
EXTENDS Integers, Sequences, FiniteSets

CONSTANTS
    Clients,     \* the connections that are made
    MaxReqs,     \* bound: the requests one client sends
    MaxClients,  \* max_active_clients, the permits of the semaphore
    MaxQueue,    \* MAX_QUEUE, the capacity of to_server
    MaxPending,  \* MAX_PENDING
    MaxRestarts, \* max_restarts, 0 for no limit
    LazyStart,   \* lazy_start
    MaxEpoch,    \* bound: the children started, one after the other
    Environment  \* the events outside the mux that may happen

EnvironmentEvents ==
    {"malformed",     \* a frame that is not JSON
     "oversized",     \* a request beyond max_request_bytes
     "notification",  \* a notification other than initialized
     "write_failure", \* a client that no longer reads its socket
     "timeout",       \* a request older than request_timeout
     "duplicate",     \* a child that answers a request twice
     "spawn_failure", \* a command that cannot be started
     "shutdown"}      \* the mux is told to shut down

ASSUME BoundsAssumption ==
    /\ MaxReqs \in Nat \ {0}
    /\ MaxClients \in Nat \ {0}
    /\ MaxQueue \in Nat \ {0}
    /\ MaxPending \in Nat \ {0}
    /\ MaxEpoch \in Nat \ {0}
ASSUME ManagerAssumption == MaxRestarts \in Nat /\ LazyStart \in BOOLEAN
ASSUME ClientsAssumption == IsFiniteSet(Clients)
ASSUME EnvironmentAssumption == Environment \subseteq EnvironmentEvents

VARIABLES
    \* MuxState
    clients,            \* the registered clients
    complete,           \* those whose handshake is complete
    buffer,             \* buffer[c]: the requests kept until then
    pending,            \* the forwarded requests that await a response
    cached,             \* the child whose initialize response is cached, or 0
    initializing,       \* the flag of that name
    initWaiting,        \* the initialize requests parked on it
    serverInitialized,  \* server_initialized
    nextId,             \* next_global_id
    \* channels
    toServer,           \* to_server: handlers to manager, bounded
    events,             \* server_events: reader task and manager to router
    inbox,              \* inbox[c][l]: the answers given to request l of c
    \* one handler task per connection
    pc,                 \* what the handler does next
    work,               \* the requests forward_request is still to run on
    hand,               \* the request whose send on to_server is under way
    sent,               \* the number of requests read from the client
    \* the router and the reaper
    routing,            \* the response the router has taken from events
    reaped,             \* the expired requests the reaper has yet to answer
    \* the manager and the child it runs
    mgr,                \* what the manager does next
    first,              \* the message a lazy start has taken off the queue
    epoch,              \* the number of children started
    atChild,            \* the requests a child may still answer
    childSaw            \* the handshake messages the running child was sent

sharedVars == <<clients, complete, buffer, pending, cached, initializing,
                initWaiting, serverInitialized, nextId>>
channelVars == <<toServer, events, inbox>>
handlerVars == <<pc, work, hand, sent>>
taskVars == <<routing, reaped>>
managerVars == <<mgr, first, epoch, atChild, childSaw>>
vars == <<sharedVars, channelVars, handlerVars, taskVars, managerVars>>

-----------------------------------------------------------------------------
Lids == 1..MaxReqs
Address == [client : Clients, lid : Lids]

Request == [method : {"request", "initialize"}, client : Clients,
            lid : Lids, id : Nat \ {0}]
Notification == [method : {"initialized", "notification"}, client : Clients,
                 lid : {0}, id : {0}]
Message == Request \cup Notification

\* An answer: what it is, and the request the child computed it for.
Answer == [kind : {"result", "initialize", "error"}, of : Address]

\* The request m of a client, as its Pending entry names it.
AddressOf(m) == [client |-> m.client, lid |-> m.lid]

-----------------------------------------------------------------------------
(* The pieces a mistake would change.  A definition whose name ends in     *)
(* Wrong is such a mistake; it is used only to show that a property        *)
(* notices it.                                                             *)
FreshIdByCountWrong == Cardinality(pending) + 1
\* next_request_id: the counter only grows, also over resets.
FreshId == nextId

HasRoomOffByOneWrong == Len(toServer) <= MaxQueue
\* The bounded channel to_server has a free slot.
HasRoom == Len(toServer) < MaxQueue

\* The receiving end of to_server lives as long as the manager.
QueueOpen == mgr # "gone"

\* A manager at its restart limit never lets go of the mutex around MuxState:
\* the guard of server.rs:182 is still held where :186 locks it again.
LockFree == mgr # "stuck"

\* The admission check of both paths that insert into pending.
Overloaded == Cardinality(pending) >= MaxPending

PendingKeptWrong(c) == pending
\* The entries unregister_client leaves in pending.
PendingWithout(c) == {p \in pending : p.client # c}

BufferedReversedWrong(c) ==
    [i \in DOMAIN buffer[c] |-> buffer[c][Len(buffer[c]) + 1 - i]]
BufferedLostWrong(c) == <<>>
\* What complete_handshake takes out of buffered_messages.
Buffered(c) == buffer[c]

RegisterClient(c) ==
    /\ clients' = clients \cup {c}
    /\ UNCHANGED <<complete, buffer, pending, cached, initializing,
                   initWaiting, serverInitialized, nextId>>

UnregisterClient(c) ==
    /\ clients' = clients \ {c}
    /\ complete' = complete \ {c}
    /\ buffer' = [buffer EXCEPT ![c] = <<>>]
    /\ pending' = PendingWithout(c)
    /\ initWaiting' = {a \in initWaiting : a.client # c}
    /\ UNCHANGED <<cached, initializing, serverInitialized, nextId>>

\* The Pending entry of request l of c, which is also the message to send.
NewRequest(c, method, l) ==
    [method |-> method, client |-> c, lid |-> l, id |-> FreshId]

\* Answers reach the unbounded channel of a client only while it is
\* registered.
SendTo(to, answer) ==
    inbox' = IF to.client \in clients
             THEN [inbox EXCEPT ![to.client][to.lid] = Append(@, answer)]
             ELSE inbox

\* One answer of this kind to every address of the set.
SendAll(addresses, kind) ==
    inbox' = [c \in Clients |-> [l \in Lids |->
        LET to == [client |-> c, lid |-> l] IN
        IF c \in clients /\ to \in addresses
        THEN Append(inbox[c][l], [kind |-> kind, of |-> to])
        ELSE inbox[c][l]]]

SendError(c, l) == SendAll({[client |-> c, lid |-> l]}, "error")

SharedInit ==
    /\ clients = {}
    /\ complete = {}
    /\ buffer = [c \in Clients |-> <<>>]
    /\ pending = {}
    /\ cached = 0
    /\ initializing = FALSE
    /\ initWaiting = {}
    /\ serverInitialized = FALSE
    /\ nextId = 1

ChannelInit ==
    /\ toServer = <<>>
    /\ events = <<>>
    /\ inbox = [c \in Clients |-> [l \in Lids |-> <<>>]]
=============================================================================
