---------------------------- MODULE ChildManager ----------------------------
(***************************************************************************)
(* The task that runs the child process, as the other tasks see it         *)
(* (server_manager of src/src/runtime/server.rs), and the child: every     *)
(* branch of the task that touches a request, the queue, a Reset or the    *)
(* mutex.  The backoff, the status it publishes and the deadlines of the   *)
(* heartbeat change none of these; ServerManager has them.                 *)
(*                                                                         *)
(* mgr: "lazy", waiting for the first message of all; "spawn", about to    *)
(* start a child; "first", with the message of the lazy start to write;    *)
(* "run", in the select loop; "stopping", out of it; "clear", the Reset is *)
(* sent; "stuck", at the restart limit, for ever; "gone", returned.        *)
(***************************************************************************)
EXTENDS MuxState

ManagerStates == {"lazy", "spawn", "first", "run", "stopping", "clear",
                  "stuck", "gone"}

\* What a child has to answer.
ChildRequest == [req : Request, child : 1..MaxEpoch]

ManagerInit ==
    /\ mgr = IF LazyStart THEN "lazy" ELSE "spawn"
    /\ first = {}
    /\ epoch = 0
    /\ atChild = {}
    /\ childSaw = {}

\* A lazily started mux takes its first message before there is a child.
TakeFirst ==
    /\ mgr = "lazy"
    /\ toServer # <<>>
    /\ first' = {Head(toServer)}
    /\ toServer' = Tail(toServer)
    /\ mgr' = "spawn"
    /\ UNCHANGED <<epoch, atChild, childSaw, events, inbox, sharedVars,
                   handlerVars, taskVars>>

\* restarts, where the limit is checked, is the number of children started.
AtLimit == MaxRestarts > 0 /\ epoch >= MaxRestarts

\* The child is started; its reader task copies its output to events.
Spawn ==
    /\ mgr = "spawn"
    /\ ~AtLimit
    /\ epoch < MaxEpoch
    /\ epoch' = epoch + 1
    /\ childSaw' = {}
    /\ mgr' = IF first = {} THEN "run" ELSE "first"
    /\ UNCHANGED <<first, atChild, sharedVars, channelVars, handlerVars,
                   taskVars>>

\* The task returns and drops the receiver of to_server with what is queued.
\* Nothing is sent to the router.
Return ==
    /\ mgr' = "gone"
    /\ first' = {}
    /\ toServer' = <<>>
    /\ UNCHANGED <<epoch, atChild, childSaw, events, inbox, sharedVars,
                   handlerVars, taskVars>>

SpawnFails ==
    /\ "spawn_failure" \in Environment
    /\ mgr = "spawn"
    /\ ~AtLimit
    /\ Return

\* Told to shut down, the manager returns: at once without a child, after
\* the Reset and the cleanup with one.
ManagerReturns ==
    /\ "shutdown" \in Environment
    /\ mgr \in {"lazy", "spawn"}
    /\ Return

\* At the limit the manager takes the mutex and waits for it again.
GiveUp ==
    /\ mgr = "spawn"
    /\ AtLimit
    /\ mgr' = "stuck"
    /\ UNCHANGED <<first, epoch, atChild, childSaw, sharedVars, channelVars,
                   handlerVars, taskVars>>

\* The message m reaches the child.
Write(m) ==
    /\ atChild' = IF m \in Request
                  THEN atChild \cup {[req |-> m, child |-> epoch]}
                  ELSE atChild
    /\ childSaw' = childSaw \cup ({m.method} \cap {"initialize", "initialized"})

\* The message of the lazy start is written before the loop.
WriteFirst ==
    /\ mgr = "first"
    /\ \E m \in first : Write(m)
    /\ first' = {}
    /\ mgr' = "run"
    /\ UNCHANGED <<epoch, sharedVars, channelVars, handlerVars, taskVars>>

\* That write fails: the message is lost, with a warning, and the loop is
\* entered all the same.
FirstWriteFails ==
    /\ mgr = "first"
    /\ first' = {}
    /\ mgr' = "run"
    /\ UNCHANGED <<epoch, atChild, childSaw, sharedVars, channelVars,
                   handlerVars, taskVars>>

\* The next message goes to the child.
WriteToChild ==
    /\ mgr = "run"
    /\ toServer # <<>>
    /\ Write(Head(toServer))
    /\ toServer' = Tail(toServer)
    /\ UNCHANGED <<mgr, first, epoch, events, inbox, sharedVars, handlerVars,
                   taskVars>>

\* Bound: the last child keeps running, unless the limit comes after it.
MayStop == epoch < MaxEpoch \/ AtLimit

\* The write fails: the message is lost and the loop left.
WriteFails ==
    /\ mgr = "run"
    /\ MayStop
    /\ toServer # <<>>
    /\ toServer' = Tail(toServer)
    /\ mgr' = "stopping"
    /\ UNCHANGED <<first, epoch, atChild, childSaw, events, inbox, sharedVars,
                   handlerVars, taskVars>>

\* The child exits, the heartbeat asks for a restart, or the mux shuts down.
ChildStops ==
    /\ mgr = "run"
    /\ MayStop
    /\ mgr' = "stopping"
    /\ UNCHANGED <<first, epoch, atChild, childSaw, sharedVars, channelVars,
                   handlerVars, taskVars>>

\* A response reaches events.  The reader task of an earlier child may
\* still do this after its abort, which only takes effect when it awaits.
ChildAnswers ==
    \E w \in atChild :
        /\ \A i \in DOMAIN events :
              events[i].kind = "response" => events[i].req # w.req
        /\ events' = Append(events, [kind |-> "response", req |-> w.req,
                                     child |-> w.child])
        /\ \/ atChild' = atChild \ {w}
           \/ "duplicate" \in Environment /\ atChild' = atChild
        /\ UNCHANGED <<mgr, first, epoch, childSaw, toServer, inbox,
                       sharedVars, handlerVars, taskVars>>

ResetForgottenWrong == events
EventsAfterReset == Append(events, [kind |-> "reset"])

\* The reader task is aborted, with some responses in its hands, and the
\* Reset is sent.
SendReset ==
    /\ mgr = "stopping"
    /\ \E late \in SUBSET atChild : atChild' = late
    /\ events' = EventsAfterReset
    /\ childSaw' = {}
    /\ mgr' = "clear"
    /\ UNCHANGED <<first, epoch, toServer, inbox, sharedVars, handlerVars,
                   taskVars>>

\* The manager clears the cache itself, then sleeps for the backoff.
ClearCache ==
    /\ mgr = "clear"
    /\ cached' = 0
    /\ initializing' = FALSE
    /\ mgr' = "spawn"
    /\ UNCHANGED <<first, epoch, atChild, childSaw, clients, complete, buffer,
                   pending, initWaiting, serverInitialized, nextId,
                   channelVars, handlerVars, taskVars>>

\* The steps of the manager that wait for nothing but the manager.
ManagerProceeds ==
    \/ TakeFirst
    \/ Spawn
    \/ GiveUp
    \/ WriteFirst
    \/ WriteToChild
    \/ SendReset
    \/ ClearCache

ManagerNext ==
    \/ ManagerProceeds
    \/ SpawnFails
    \/ ManagerReturns
    \/ FirstWriteFails
    \/ WriteFails
    \/ ChildStops
    \/ ChildAnswers
=============================================================================
