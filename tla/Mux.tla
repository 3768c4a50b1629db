-------------------------------- MODULE Mux --------------------------------
(***************************************************************************)
(* The mux of one service: the handlers of its connections, the router,    *)
(* the reaper and the manager with its child, all on the state of          *)
(* MuxState.  run_mux_internal_with_status of src/src/runtime/mod.rs       *)
(* spawns these tasks; they interleave freely on the runtime's threads.    *)
(***************************************************************************)
EXTENDS ClientHandler, EventRouter, ChildManager

Init ==
    /\ SharedInit
    /\ ChannelInit
    /\ HandlerInit
    /\ TaskInit
    /\ ManagerInit

Next ==
    \/ \E c \in Clients : HandlerNext(c)
    \/ RouterNext
    \/ ReaperNext
    \/ ManagerNext

Spec == Init /\ [][Next]_vars

(***************************************************************************)
(* Fairness: the runtime schedules every task whose future is ready.       *)
(* Nothing is assumed of clients, and of the child only that it keeps      *)
(* reading its stdin.  Nothing makes a spawn or a write fail.              *)
(***************************************************************************)
Fairness ==
    /\ \A c \in Clients : WF_vars(HandlerProceeds(c))
    /\ WF_vars(RouterNext)
    /\ WF_vars(Expire)
    /\ WF_vars(AnswerExpired)
    /\ WF_vars(ManagerProceeds)

FairSpec == Spec /\ Fairness

-----------------------------------------------------------------------------
(* The types, part by part.                                                *)
SharedTypeOK ==
    /\ clients \subseteq Clients
    /\ complete \subseteq Clients
    /\ buffer \in [Clients -> Seq(Lids)]
    /\ pending \subseteq Request
    /\ cached \in 0..MaxEpoch
    /\ initializing \in BOOLEAN
    /\ initWaiting \subseteq Address
    /\ serverInitialized \in BOOLEAN
    /\ nextId \in Nat \ {0}

ChannelTypeOK ==
    /\ toServer \in Seq(Message)
    /\ Len(toServer) <= MaxQueue
    /\ events \in Seq(Event)
    /\ inbox \in [Clients -> [Lids -> Seq(Answer)]]

HandlerTypeOK ==
    /\ pc \in [Clients -> HandlerStates]
    /\ work \in [Clients -> Seq(Lids)]
    /\ hand \in [Clients -> SUBSET Request]
    /\ sent \in [Clients -> 0..MaxReqs]
    /\ \A c \in Clients : pc[c] = "forward" => work[c] # <<>>

TaskTypeOK ==
    /\ routing \subseteq Routed
    /\ reaped \subseteq Request

ManagerTypeOK ==
    /\ mgr \in ManagerStates
    /\ epoch \in 0..MaxEpoch
    /\ mgr \in {"run", "stopping", "clear"} => epoch # 0
    /\ first \subseteq Message
    /\ \A m, n \in first : m = n
    /\ first # {} => mgr = "first" \/ (mgr = "spawn" /\ epoch = 0)
    /\ first # {} \/ mgr \in {"lazy", "first"} => LazyStart
    /\ mgr = "lazy" => epoch = 0
    /\ mgr = "first" => epoch = 1 /\ first # {}
    /\ atChild \subseteq ChildRequest
    /\ childSaw \subseteq {"initialize", "initialized"}

(* Every variable keeps its type, the queue to the child never exceeds its *)
(* capacity, and a handler only runs forward_request on a request.         *)
TypeOK ==
    /\ SharedTypeOK
    /\ ChannelTypeOK
    /\ HandlerTypeOK
    /\ TaskTypeOK
    /\ ManagerTypeOK

\* A Reset waits for the router.
ResetQueued == \E i \in DOMAIN events : events[i].kind = "reset"

(* No request is answered twice, whichever of the router, a reset, the     *)
(* reaper and the handler gets to it, and however often the child answers: *)
(* whoever takes the entry out of pending answers (handle_server_message,  *)
(* reset_state, reap_timeouts).                                            *)
AtMostOneAnswer ==
    \A c \in Clients, l \in Lids : Len(inbox[c][l]) <= 1

(* What reaches a client under the id of its request is an error, or what  *)
(* the child computed for that very request: responses of one client,      *)
(* one request or one child are never delivered to another, although the   *)
(* clients' own ids collide (id rewriting of forward_request and           *)
(* handle_server_message).                                                 *)
AnswersMatchRequests ==
    \A c \in Clients, l \in Lids : \A i \in DOMAIN inbox[c][l] :
        inbox[c][l][i].of = [client |-> c, lid |-> l]

\* The message of a pending request is on its way to the child, at the child
\* or answered by it, or a Reset that will fail it is coming.
Accounted(p) ==
    \/ p \in hand[p.client]
    \/ p \in first
    \/ \E i \in DOMAIN toServer : toServer[i] = p
    \/ \E w \in atChild : w.req = p
    \/ \E i \in DOMAIN events : events[i].kind = "response"
                                /\ events[i].req = p
    \/ ResetQueued
    \/ mgr = "stopping"

(* A forwarded request has left a trace that still answers it: through     *)
(* restarts, failing writes and late output its entry stays in pending     *)
(* only while the request or its response is under way or a Reset that     *)
(* fails it is coming (handle_client, server_manager).  There are two      *)
(* exceptions.  While the first child of a lazily started mux runs, one    *)
(* request may be nowhere: the one whose write before the loop failed.     *)
(* Once the manager has returned, because the command could not be started *)
(* or the mux shuts down, what was queued is lost without a Reset and what *)
(* is sent later fails at the closed queue: only the reaper ends those.    *)
(* At the restart limit the trace is there and nothing acts on it.         *)
RequestsAccountedFor ==
    mgr # "gone" =>
        \A p, q \in pending :
            \/ Accounted(p)
            \/ /\ LazyStart /\ mgr = "run" /\ epoch = 1
               /\ Accounted(q) \/ p = q

(* A pending entry belongs to a registered client, or to one whose handler *)
(* is still to unregister it: unregistering leaves no entry behind for a   *)
(* connection that is over (unregister_client).  Only a client that both   *)
(* stops reading and sends a malformed frame leaves one: its writer has    *)
(* unregistered it before the request came, and the handler returns        *)
(* without doing so; a Reset, an answer or the timeout then removes it.    *)
NoOrphanPending ==
    \A p \in pending :
        p.client \in clients \/ pc[p.client] \notin {"absent", "accepted",
                                                     "gone"}

(* A cached initialize response is that of the running child, unless a     *)
(* Reset that drops it is already queued behind it: no new connection is   *)
(* served for good what a dead child said (server_manager, reset_state,    *)
(* handle_server_message).                                                 *)
StaleCacheIsDoomed ==
    cached # 0 => (cached = epoch /\ mgr \in {"run", "stopping"})
                  \/ ResetQueued

(* The requests of a client reach the queue in the order it sent them,     *)
(* those buffered before the handshake first (handle_client_message).      *)
FifoPerClient ==
    \A i, j \in DOMAIN toServer :
        /\ i < j
        /\ toServer[i].method = "request"
        /\ toServer[j].method = "request"
        /\ toServer[i].client = toServer[j].client
        => toServer[i].lid < toServer[j].lid

(* Only a client that has completed its handshake has a request other than *)
(* initialize pending: what it sends before is held back                   *)
(* (handle_client_message).                                                *)
HandshakeGatesRequests ==
    \A p \in pending :
        p.method = "request" => p.client \in complete \/ p.client \notin clients

(* The table of pending requests never outgrows MAX_PENDING.               *)
PendingBounded == Cardinality(pending) <= MaxPending

(* No more clients are registered and served than there are permits.  One  *)
(* whose handler left over a malformed frame holds no permit and stays     *)
(* registered (handle_client).                                             *)
ServedWithinLimit ==
    Cardinality({c \in clients : pc[c] # "gone"}) <= MaxClients

-----------------------------------------------------------------------------
(* What the safety properties above rest on.                               *)

\* The forwarded requests that are anywhere in the mux or at a child.
HeldRequests == UNION {hand[c] : c \in Clients}
QueuedRequests == {toServer[i] : i \in {j \in DOMAIN toServer :
                      toServer[j].method \in {"request", "initialize"}}}
FirstRequest == {m \in first : m.method \in {"request", "initialize"}}
ResponsesQueued == {events[i] : i \in {j \in DOMAIN events :
                      events[j].kind = "response"}}
Tickets ==
    HeldRequests \cup FirstRequest \cup QueuedRequests
    \cup {w.req : w \in atChild}
    \cup {e.req : e \in ResponsesQueued}
    \cup {r.entry : r \in routing} \cup {r.resp.req : r \in routing}
    \cup pending

(* A global id names one request for good: next_request_id never hands out *)
(* an id that is still somewhere, and a routed response has found the      *)
(* entry of its own request (next_request_id, handle_server_message).      *)
IdsNameRequests ==
    /\ \A s \in Tickets : s.id < nextId
    /\ \A s, t \in Tickets : s.id = t.id => s = t
    /\ \A r \in routing : r.entry = r.resp.req

\* What child number k said is current, or a Reset is on its way.
Live(k) == (k = epoch /\ mgr \in {"run", "stopping"}) \/ ResetQueued

(* A response of an earlier child only finds its entry while the Reset of  *)
(* that child is queued, and is only about to be cached then.              *)
StaleResponsesAreDoomed ==
    /\ \A r \in routing : r.stage = "cache" => Live(r.resp.child)
    /\ \A e \in ResponsesQueued : e.req \in pending => Live(e.child)
    /\ \A w \in atChild : w.req \in pending => Live(w.child)

-----------------------------------------------------------------------------
(* Every request the mux reads is answered, unless its client goes or the  *)
(* restart limit is reached: no order of crashes, resets, timeouts, full   *)
(* queues, failing first writes and failing spawns loses it.  At the limit *)
(* the manager keeps the mutex for ever, and the router, the reaper and    *)
(* the handlers wait for it (server.rs:181-188).                           *)
EveryRequestAnswered ==
    \A c \in Clients, l \in Lids :
        (sent[c] >= l) ~> (inbox[c][l] # <<>> \/ c \notin clients
                                              \/ mgr = "stuck")

-----------------------------------------------------------------------------
\* The phases of the child.
Phase ==
    CASE mgr \in {"lazy", "spawn", "stuck", "gone"} -> "down"
      [] mgr = "clear" -> "reset"
      [] OTHER -> "up"

Lifecycle == INSTANCE ChildLifecycle
    WITH phase <- Phase, told <- ResetQueued

(* In the mux the manager implements the life cycle of its children too    *)
(* (server_manager, handle_server_events_with_heartbeat).                  *)
MuxImplementsLifecycle == Lifecycle!Spec

-----------------------------------------------------------------------------
\* What a client is to the mux: a handler that has not registered it has read
\* nothing from it.
Session ==
    [c \in Clients |->
        IF c \in clients THEN "served"
        ELSE IF pc[c] \in {"absent", "accepted"} THEN "new" ELSE "closed"]

\* The requests of registered clients that something still has to answer,
\* wherever they are.
Owed ==
    {a \in Address :
        /\ a.client \in clients
        /\ \/ \E i \in DOMAIN work[a.client] : work[a.client][i] = a.lid
           \/ \E i \in DOMAIN buffer[a.client] : buffer[a.client][i] = a.lid
           \/ a \in initWaiting
           \/ \E p \in pending \cup reaped : AddressOf(p) = a
           \/ \E r \in routing : AddressOf(r.entry) = a}

Service == INSTANCE RequestService
    WITH session <- Session, asked <- sent, open <- Owed, answers <- inbox

(* To its clients the mux is that service: through buffers, queues,        *)
(* restarts, timeouts and resets a request of a connection that is still   *)
(* served is neither lost nor answered twice nor with what another asked   *)
(* for, and the end of one connection costs the others nothing             *)
(* (handle_client, handle_server_message, reset_state, reap_timeouts).     *)
MuxImplementsService == Service!Spec

(* What was read from a registered client is owed an answer or has it, and *)
(* never both: nothing is forgotten (the same).                            *)
NothingForgotten ==
    \A c \in clients : \A l \in 1..sent[c] :
        [client |-> c, lid |-> l] \in Owed <=> inbox[c][l] = <<>>
=============================================================================
