---------------------------- MODULE ClientHandler ----------------------------
(***************************************************************************)
(* One task per connection: handle_client, handle_client_message and       *)
(* forward_request of src/src/runtime/client.rs.  A step is what the task  *)
(* does between two points where another task can run: taking the lock of  *)
(* MuxState, or sending on the bounded channel to_server.  A step that     *)
(* begins with the lock waits while LockFree is false; for a frame that is *)
(* the lock handle_client takes to read max_request_bytes.                 *)
(*                                                                         *)
(* pc[c]: "absent", not connected; "accepted", waiting for a permit;       *)
(* "ready", in the select loop; "announce" and "complete", in the branch   *)
(* for notifications/initialized; "buffer", about to buffer a request;     *)
(* "forward", about to run forward_request on Head(work[c]); "enqueue",    *)
(* blocked in to_server_tx.send; "leave", out of the loop; "gone".         *)
(***************************************************************************)
EXTENDS MuxState

HandlerStates == {"absent", "accepted", "ready", "announce", "complete",
                  "buffer", "forward", "enqueue", "leave", "gone"}

HandlerInit ==
    /\ pc = [c \in Clients |-> "absent"]
    /\ work = [c \in Clients |-> <<>>]
    /\ hand = [c \in Clients |-> {}]
    /\ sent = [c \in Clients |-> 0]

\* The permit is held from its acquisition to the end of handle_client.
PermitHolders == {c \in Clients : pc[c] \notin {"absent", "accepted", "gone"}}

PermitFree == Cardinality(PermitHolders) < MaxClients

\* A notification carries no id.
NotificationOf(c, method) ==
    [method |-> method, client |-> c, lid |-> 0, id |-> 0]

\* try_send: a full or closed queue drops the message.
TrySend(m) == toServer' = IF HasRoom /\ QueueOpen THEN Append(toServer, m)
                                                  ELSE toServer

\* The client has put its next request on the socket and the handler reads it.
Reads(c) ==
    /\ pc[c] = "ready"
    /\ LockFree
    /\ sent[c] < MaxReqs
    /\ sent' = [sent EXCEPT ![c] = @ + 1]

\* Where the handler goes when forward_request returns.
After(rest) == IF rest = <<>> THEN "ready" ELSE "forward"

-----------------------------------------------------------------------------
\* The accept loop spawns the handler of a new connection.
Connect(c) ==
    /\ pc[c] = "absent"
    /\ pc' = [pc EXCEPT ![c] = "accepted"]
    /\ UNCHANGED <<work, hand, sent, sharedVars, channelVars, taskVars,
                   managerVars>>

\* The handler gets a permit, registers the client and spawns its writer.
Register(c) ==
    /\ pc[c] = "accepted"
    /\ PermitFree
    /\ LockFree
    /\ RegisterClient(c)
    /\ pc' = [pc EXCEPT ![c] = "ready"]
    /\ UNCHANGED <<work, hand, sent, channelVars, taskVars, managerVars>>

\* A request beyond max_request_bytes is answered and dropped.
RecvOversized(c) ==
    /\ "oversized" \in Environment
    /\ Reads(c)
    /\ SendError(c, sent[c] + 1)
    /\ UNCHANGED <<pc, work, hand, toServer, events, sharedVars, taskVars,
                   managerVars>>

\* Any other notification is forwarded best-effort.
RecvNotification(c) ==
    /\ "notification" \in Environment
    /\ pc[c] = "ready"
    /\ LockFree
    /\ TrySend(NotificationOf(c, "notification"))
    /\ UNCHANGED <<handlerVars, events, inbox, sharedVars, taskVars,
                   managerVars>>

\* notifications/initialized: only the first sets the flag and is forwarded.
RecvInitialized(c) ==
    /\ pc[c] = "ready"
    /\ LockFree
    /\ serverInitialized' = TRUE
    /\ pc' = [pc EXCEPT ![c] = IF serverInitialized THEN "complete"
                                                    ELSE "announce"]
    /\ UNCHANGED <<clients, complete, buffer, pending, cached, initializing,
                   initWaiting, nextId, work, hand, sent, channelVars,
                   taskVars, managerVars>>

\* try_send of the notification, after the lock was released.
Announce(c) ==
    /\ pc[c] = "announce"
    /\ TrySend(NotificationOf(c, "initialized"))
    /\ pc' = [pc EXCEPT ![c] = "complete"]
    /\ UNCHANGED <<work, hand, sent, events, inbox, sharedVars, taskVars,
                   managerVars>>

\* complete_handshake: what was buffered is to be forwarded, in order.
CompleteHandshake(c) ==
    /\ pc[c] = "complete"
    /\ LockFree
    /\ complete' = IF c \in clients THEN complete \cup {c} ELSE complete
    /\ buffer' = [buffer EXCEPT ![c] = <<>>]
    /\ work' = [work EXCEPT ![c] = Buffered(c)]
    /\ pc' = [pc EXCEPT ![c] = After(Buffered(c))]
    /\ UNCHANGED <<clients, pending, cached, initializing, initWaiting,
                   serverInitialized, nextId, hand, sent, channelVars,
                   taskVars, managerVars>>

\* The insertion into pending that initialize and forward_request share:
\* the request l of c is refused, or it gets a Pending entry and is on its
\* way to the queue.
Admit(c, method, l, rest) ==
    LET r == NewRequest(c, method, l) IN
    \/ /\ Overloaded
       /\ SendError(c, l)
       /\ pc' = [pc EXCEPT ![c] = After(rest)]
       /\ UNCHANGED <<pending, nextId, hand>>
    \/ /\ ~Overloaded
       /\ pending' = pending \cup {r}
       /\ nextId' = nextId + 1
       /\ hand' = [hand EXCEPT ![c] = {r}]
       /\ pc' = [pc EXCEPT ![c] = "enqueue"]
       /\ inbox' = inbox

\* An initialize is answered from the cache.
RecvInitializeCached(c) ==
    /\ Reads(c)
    /\ cached # 0
    /\ LET to == [client |-> c, lid |-> sent[c] + 1] IN
       SendTo(to, [kind |-> "initialize", of |-> to])
    /\ UNCHANGED <<pc, work, hand, toServer, events, sharedVars, taskVars,
                   managerVars>>

\* Without a cached response it waits for the one under way, if the flag
\* says there is one, and is forwarded otherwise.
RecvInitialize(c) ==
    /\ Reads(c)
    /\ cached = 0
    /\ IF initializing
       THEN /\ initWaiting' = initWaiting \cup
                                  {[client |-> c, lid |-> sent[c] + 1]}
            /\ UNCHANGED <<pc, hand, pending, nextId, inbox>>
       ELSE /\ Admit(c, "initialize", sent[c] + 1, <<>>)
            /\ UNCHANGED initWaiting
    /\ UNCHANGED <<clients, complete, buffer, cached, initializing,
                   serverInitialized, work, toServer, events, taskVars,
                   managerVars>>

HandshakeIgnoredWrong(c) == TRUE
IsHandshakeComplete(c) == c \in complete

\* Any other request: forwarded once the handshake is complete.
RecvRequest(c) ==
    /\ Reads(c)
    /\ pc' = [pc EXCEPT ![c] = IF IsHandshakeComplete(c) THEN "forward"
                                                         ELSE "buffer"]
    /\ work' = [work EXCEPT ![c] = <<sent[c] + 1>>]
    /\ UNCHANGED <<hand, sharedVars, channelVars, taskVars, managerVars>>

\* buffer_message, under a second lock: a client that its writer has
\* unregistered meanwhile has no buffer and its request is lost.
BufferRequest(c) ==
    /\ pc[c] = "buffer"
    /\ LockFree
    /\ buffer' = IF c \in clients
                 THEN [buffer EXCEPT ![c] = @ \o work[c]] ELSE buffer
    /\ work' = [work EXCEPT ![c] = <<>>]
    /\ pc' = [pc EXCEPT ![c] = "ready"]
    /\ UNCHANGED <<clients, complete, pending, cached, initializing,
                   initWaiting, serverInitialized, nextId, hand, sent,
                   channelVars, taskVars, managerVars>>

\* forward_request up to the release of the lock.
Forward(c) ==
    /\ pc[c] = "forward"
    /\ LockFree
    /\ work' = [work EXCEPT ![c] = Tail(@)]
    /\ Admit(c, "request", Head(work[c]), Tail(work[c]))
    /\ UNCHANGED <<clients, complete, buffer, cached, initializing,
                   initWaiting, serverInitialized, sent, toServer, events,
                   taskVars, managerVars>>

\* to_server_tx.send(msg).await: it waits for a free slot, and the task
\* looks neither at its socket nor at the shutdown token while it waits.
Enqueue(c) ==
    /\ pc[c] = "enqueue"
    /\ QueueOpen
    /\ HasRoom
    /\ \E r \in hand[c] : toServer' = Append(toServer, r)
    /\ hand' = [hand EXCEPT ![c] = {}]
    /\ pc' = [pc EXCEPT ![c] = After(work[c])]
    /\ UNCHANGED <<work, sent, events, inbox, sharedVars, taskVars,
                   managerVars>>

\* "server channel closed": the handler gives the request up and goes on.
\* Its entry stays in pending, although nothing was queued.
EnqueueFails(c) ==
    /\ pc[c] = "enqueue"
    /\ ~QueueOpen
    /\ hand' = [hand EXCEPT ![c] = {}]
    /\ pc' = [pc EXCEPT ![c] = After(work[c])]
    /\ UNCHANGED <<work, sent, channelVars, sharedVars, taskVars,
                   managerVars>>

\* The socket is closed by the client, or the mux shuts down.
Disconnect(c) ==
    /\ pc[c] = "ready"
    /\ pc' = [pc EXCEPT ![c] = "leave"]
    /\ UNCHANGED <<work, hand, sent, sharedVars, channelVars, taskVars,
                   managerVars>>

\* The tick that finds the handshake open after HANDSHAKE_TIMEOUT.
HandshakeTimeout(c) ==
    /\ pc[c] = "ready"
    /\ LockFree
    /\ c \in clients \ complete
    /\ pc' = [pc EXCEPT ![c] = "leave"]
    /\ UNCHANGED <<work, hand, sent, sharedVars, channelVars, taskVars,
                   managerVars>>

\* Out of the loop: the client is unregistered and its writer aborted.
Leave(c) ==
    /\ pc[c] = "leave"
    /\ LockFree
    /\ UnregisterClient(c)
    /\ pc' = [pc EXCEPT ![c] = "gone"]
    /\ UNCHANGED <<work, hand, sent, channelVars, taskVars, managerVars>>

\* A frame that does not decode makes handle_client return at once: the
\* permit is released, the client stays registered and its writer alive.
RecvMalformed(c) ==
    /\ "malformed" \in Environment
    /\ pc[c] = "ready"
    /\ pc' = [pc EXCEPT ![c] = "gone"]
    /\ UNCHANGED <<work, hand, sent, sharedVars, channelVars, taskVars,
                   managerVars>>

\* The writer task cannot write to its socket and unregisters the client;
\* the handler of the connection goes on reading.
WriterFails(c) ==
    /\ "write_failure" \in Environment
    /\ c \in clients
    /\ LockFree
    /\ UnregisterClient(c)
    /\ UNCHANGED <<handlerVars, channelVars, taskVars, managerVars>>

\* What the handler does without waiting for its client.
HandlerProceeds(c) ==
    \/ Announce(c)
    \/ CompleteHandshake(c)
    \/ BufferRequest(c)
    \/ Forward(c)
    \/ Enqueue(c)
    \/ EnqueueFails(c)
    \/ HandshakeTimeout(c)
    \/ Leave(c)

HandlerNext(c) ==
    \/ Connect(c)
    \/ Register(c)
    \/ RecvOversized(c)
    \/ RecvNotification(c)
    \/ RecvInitialized(c)
    \/ RecvInitializeCached(c)
    \/ RecvInitialize(c)
    \/ RecvRequest(c)
    \/ Disconnect(c)
    \/ RecvMalformed(c)
    \/ WriterFails(c)
    \/ HandlerProceeds(c)
=============================================================================
