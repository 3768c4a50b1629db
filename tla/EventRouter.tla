----------------------------- MODULE EventRouter -----------------------------
(***************************************************************************)
(* The two tasks that answer clients.  The router takes the events of the  *)
(* child in order (handle_server_events_with_heartbeat of                  *)
(* src/src/runtime/mod.rs, handle_server_message of                        *)
(* src/src/runtime/server.rs, reset_state of src/src/state.rs); the reaper *)
(* expires old requests (reap_timeouts of src/src/runtime/mod.rs).  Both   *)
(* release the lock between taking an entry out of pending and answering   *)
(* its client, so each keeps the entry in a variable of its own, and both  *)
(* stop for good with a manager that keeps the lock (LockFree).            *)
(*                                                                         *)
(* Left out: broadcasts of notifications and of responses with a null id,  *)
(* which change no state, and heartbeat responses (they go elsewhere).     *)
(***************************************************************************)
EXTENDS MuxState

\* A response of child number `child` to the request req, or a Reset.
Response == [kind : {"response"}, req : Request, child : 1..MaxEpoch]
ResetEvent == [kind |-> "reset"]
Event == Response \cup {ResetEvent}

\* A routed response: the Pending entry it was for, and its next stage.
Routed == [entry : Request, resp : Response, stage : {"cache", "deliver"}]

TaskInit ==
    /\ routing = {}
    /\ reaped = {}

-----------------------------------------------------------------------------
SameKeyByLocalIdWrong(p, req) == p.lid = req.lid
\* The key of pending is "c<client>:<global id>".
SameKey(p, req) == p.client = req.client /\ p.id = req.id

PendingAfterPeekWrong(entry) == pending
\* pending.remove(id): a second response with this id finds nothing.
PendingAfter(entry) == pending \ {entry}

\* Only the response of an initialize is cached before it is delivered.
StageOf(entry) == IF entry.method = "initialize" THEN "cache" ELSE "deliver"

\* The router takes a response: the entry with its id leaves pending.
\* Without such an entry the response is dropped.
RouteResponse ==
    /\ LockFree
    /\ routing = {}
    /\ events # <<>>
    /\ Head(events).kind = "response"
    /\ LET resp == Head(events)
           entries == {p \in pending : SameKey(p, resp.req)} IN
       /\ \/ /\ entries = {}
             /\ UNCHANGED <<pending, routing>>
          \/ \E entry \in entries :
                /\ pending' = PendingAfter(entry)
                /\ routing' = {[entry |-> entry, resp |-> resp,
                                stage |-> StageOf(entry)]}
    /\ events' = Tail(events)
    /\ UNCHANGED <<clients, complete, buffer, cached, initializing,
                   initWaiting, serverInitialized, nextId, toServer, inbox,
                   handlerVars, reaped, managerVars>>

\* An initialize response is cached and answers the parked initializes.
CacheInitialize ==
    \E r \in routing :
        /\ r.stage = "cache"
        /\ LockFree
        /\ cached' = r.resp.child
        /\ initializing' = FALSE
        /\ initWaiting' = {}
        /\ SendAll(initWaiting, "initialize")
        /\ routing' = {[r EXCEPT !.stage = "deliver"]}
        /\ UNCHANGED <<clients, complete, buffer, pending, serverInitialized,
                       nextId, toServer, events, handlerVars, reaped,
                       managerVars>>

AnswerKind(req) == IF req.method = "initialize" THEN "initialize" ELSE "result"

\* The response goes to the client of the entry, under the client's own id.
DeliverResponse ==
    \E r \in routing :
        /\ r.stage = "deliver"
        /\ LockFree
        /\ SendTo(AddressOf(r.entry),
                  [kind |-> AnswerKind(r.resp.req),
                   of |-> AddressOf(r.resp.req)])
        /\ routing' = {}
        /\ UNCHANGED <<toServer, events, sharedVars, handlerVars, reaped,
                       managerVars>>

CacheKeptWrong == cached
CacheAfterReset == 0

\* reset_state: every pending or parked request is answered with an error.
\* The requests still in to_server stay there.
ResetState ==
    /\ LockFree
    /\ routing = {}
    /\ events # <<>>
    /\ Head(events).kind = "reset"
    /\ events' = Tail(events)
    /\ SendAll({AddressOf(p) : p \in pending} \cup initWaiting, "error")
    /\ pending' = {}
    /\ initWaiting' = {}
    /\ cached' = CacheAfterReset
    /\ initializing' = FALSE
    /\ serverInitialized' = FALSE
    /\ UNCHANGED <<clients, complete, buffer, nextId, toServer, handlerVars,
                   taskVars, managerVars>>

RouterNext ==
    \/ RouteResponse
    \/ CacheInitialize
    \/ DeliverResponse
    \/ ResetState

-----------------------------------------------------------------------------
\* The entries older than request_timeout: started_at is read under the lock
\* that hands out the ids, so age is the order of the ids.
Expired(k) == {p \in pending : p.id <= k}

\* One tick of the reaper, up to the release of the lock.
Expire ==
    /\ "timeout" \in Environment
    /\ LockFree
    /\ reaped = {}
    /\ \E k \in {p.id : p \in pending} :
        /\ pending' = pending \ Expired(k)
        /\ reaped' = Expired(k)
    /\ UNCHANGED <<clients, complete, buffer, cached, initializing,
                   initWaiting, serverInitialized, nextId, channelVars,
                   handlerVars, routing, managerVars>>

\* The expired requests are answered under a second lock.
AnswerExpired ==
    /\ reaped # {}
    /\ LockFree
    /\ SendAll({AddressOf(p) : p \in reaped}, "error")
    /\ reaped' = {}
    /\ UNCHANGED <<toServer, events, sharedVars, handlerVars, routing,
                   managerVars>>

ReaperNext ==
    \/ Expire
    \/ AnswerExpired
=============================================================================
