---------------------------- MODULE ServerManager ----------------------------
(***************************************************************************)
(* The task that starts, feeds and restarts the child process              *)
(* (server_manager of src/src/runtime/server.rs), and the child.  A step   *)
(* is what the task does between two awaits at which another task can      *)
(* change what it reads next.                                              *)
(*                                                                         *)
(* mpc: "top" and "check", the head of the restart loop; "lazy", waiting   *)
(* for a first message; "limit", publishing that it gives up; "started",   *)
(* "first", a child is there; "loop", "select", "write", the write loop;   *)
(* "cleanup", "clear", "decide", after it; "backoff", asleep; "done" and   *)
(* "failed", returned.                                                     *)
(*                                                                         *)
(* Left out: queue_depth, child_pid, last_reset and the snapshots          *)
(* publish_status takes, which nothing here reads.  to_server_rx.recv()    *)
(* never yields None while the manager runs, because the manager itself    *)
(* keeps a sender (to_server_meter), so should_restart stays true.         *)
(***************************************************************************)
EXTENDS SupervisionState

ManagerStates == {"top", "lazy", "check", "limit", "started", "first", "loop",
                  "select", "write", "cleanup", "clear", "decide", "backoff",
                  "done", "failed"}

ManagerInit ==
    /\ mpc = "top"
    /\ restarts = 0
    /\ backoff = InitialBackoff
    /\ inHand = <<>>
    /\ spawned = 0
    /\ child = "none"
    /\ pipe = <<>>
    /\ greeted = FALSE
    /\ earlier = {}

\* "up"; "mute", reading but not answering; "deaf", not even reading.
ChildAlive == child \in {"up", "mute", "deaf"}

LimitReachedLateWrong == MaxRestarts > 0 /\ restarts > MaxRestarts
LimitReached == MaxRestarts > 0 /\ restarts >= MaxRestarts

NextBackoff == IF 2 * backoff < BackoffCap THEN 2 * backoff ELSE BackoffCap

\* The message in hand is written to the stdin of the child.
WriteToPipe ==
    /\ pipe' = pipe \o inHand
    /\ greeted' = (greeted \/ inHand = <<Initialized>>)

-----------------------------------------------------------------------------
\* The head of the loop: leave, wait for a first message, or go on.
LoopTop ==
    /\ mpc = "top"
    /\ mpc' = IF shutdown THEN "done"
              ELSE IF LazyStart /\ restarts = 0 THEN "lazy" ELSE "check"
    /\ receiving' = ~shutdown
    /\ UNCHANGED <<sharedVars, toServer, resets, signals, replies, restarts,
                   backoff, inHand, childVars, heartbeatVars, rpc>>

\* The first message of a lazy start; on shutdown it is dropped.
LazyFirst ==
    /\ mpc = "lazy"
    /\ toServer # <<>>
    /\ toServer' = Tail(toServer)
    /\ inHand' = IF shutdown THEN <<>> ELSE <<Head(toServer)>>
    /\ mpc' = IF shutdown THEN "done" ELSE "check"
    /\ receiving' = ~shutdown
    /\ UNCHANGED <<sharedVars, resets, signals, replies, restarts, backoff,
                   childVars, heartbeatVars, rpc>>

LazyShutdownMissingWrong == FALSE
LazyShutdown ==
    /\ mpc = "lazy"
    /\ shutdown
    /\ mpc' = "done"
    /\ receiving' = FALSE
    /\ UNCHANGED <<sharedVars, toServer, resets, signals, replies, restarts,
                   backoff, inHand, childVars, heartbeatVars, rpc>>

\* At the restart limit the manager reports the failure: publish_status takes
\* the mutex while its caller holds it as st, so the manager has no further
\* step and the mutex is never free again.
GiveUp ==
    /\ mpc = "check"
    /\ LimitReached
    /\ status' = "failed"
    /\ lock' = "manager"
    /\ mpc' = "limit"
    /\ UNCHANGED <<serverInitialized, shutdown, channelVars, restarts,
                   backoff, inHand, childVars, heartbeatVars, rpc>>

\* Nothing has killed the process before: unless it exited by itself it lives
\* on beside the new one, with no more than the end of its stdin to read.
SpawnChild ==
    /\ mpc = "check"
    /\ ~LimitReached
    /\ spawned' = spawned + 1
    /\ earlier' = IF ChildAlive
                  THEN earlier \cup {[number |-> spawned, does |-> child]}
                  ELSE earlier
    /\ child' = "up"
    /\ pipe' = <<>>
    /\ greeted' = FALSE
    /\ mpc' = "started"
    /\ UNCHANGED <<sharedVars, channelVars, restarts, backoff, inHand,
                   heartbeatVars, rpc>>

\* A command that cannot be started ends the manager: its receiver of
\* to_server is dropped, and the status stays what it was.
SpawnFails ==
    /\ mpc = "check"
    /\ ~LimitReached
    /\ mpc' = "failed"
    /\ receiving' = FALSE
    /\ UNCHANGED <<sharedVars, toServer, resets, signals, replies, restarts,
                   backoff, inHand, childVars, heartbeatVars, rpc>>

ReportRunning ==
    /\ mpc = "started"
    /\ status' = "running"
    /\ mpc' = IF inHand = <<>> THEN "loop" ELSE "first"
    /\ UNCHANGED <<lock, serverInitialized, shutdown, channelVars, restarts,
                   backoff, inHand, childVars, heartbeatVars, rpc>>

\* The first message is written; if that fails it is lost with a warning.
WriteFirst ==
    /\ mpc = "first"
    /\ IF ChildAlive THEN Len(pipe) < PipeSize /\ WriteToPipe
                     ELSE UNCHANGED <<pipe, greeted>>
    /\ inHand' = <<>>
    /\ mpc' = "loop"
    /\ UNCHANGED <<sharedVars, channelVars, restarts, backoff, spawned, child,
                   earlier, heartbeatVars, rpc>>

\* while !shutdown.is_cancelled()
LoopHead ==
    /\ mpc = "loop"
    /\ mpc' = IF shutdown THEN "cleanup" ELSE "select"
    /\ UNCHANGED <<sharedVars, channelVars, restarts, backoff, inHand,
                   childVars, heartbeatVars, rpc>>

SelectShutdownMissingWrong == FALSE
SelectShutdown ==
    /\ mpc = "select"
    /\ shutdown
    /\ mpc' = "cleanup"
    /\ UNCHANGED <<sharedVars, channelVars, restarts, backoff, inHand,
                   childVars, heartbeatVars, rpc>>

SelectMessage ==
    /\ mpc = "select"
    /\ toServer # <<>>
    /\ inHand' = <<Head(toServer)>>
    /\ toServer' = Tail(toServer)
    /\ mpc' = "write"
    /\ UNCHANGED <<sharedVars, receiving, resets, signals, replies, restarts,
                   backoff, childVars, heartbeatVars, rpc>>

\* The child is gone.  Only an error of wait() changes the status at once.
SelectExit ==
    /\ mpc = "select"
    /\ child = "exited"
    /\ status' \in {status, "failed"}
    /\ mpc' = "cleanup"
    /\ UNCHANGED <<lock, serverInitialized, shutdown, channelVars, restarts,
                   backoff, inHand, childVars, heartbeatVars, rpc>>

\* The heartbeat asks for a restart.
SelectSignal ==
    /\ mpc = "select"
    /\ signals > 0
    /\ spawned < MaxSpawns
    /\ signals' = signals - 1
    /\ status' = "failed"
    /\ mpc' = "cleanup"
    /\ UNCHANGED <<lock, serverInitialized, shutdown, toServer, receiving,
                   resets, replies, restarts, backoff, inHand, childVars,
                   heartbeatVars, rpc>>

\* writer.send(msg).await, outside the select: while the pipe is full the
\* manager looks at nothing else.
Write ==
    /\ mpc = "write"
    /\ ChildAlive
    /\ Len(pipe) < PipeSize
    /\ WriteToPipe
    /\ inHand' = <<>>
    /\ mpc' = "loop"
    /\ UNCHANGED <<sharedVars, channelVars, restarts, backoff, spawned, child,
                   earlier, heartbeatVars, rpc>>

WriteFails ==
    /\ mpc = "write"
    /\ child = "exited"
    /\ inHand' = <<>>
    /\ status' = "failed"
    /\ mpc' = "cleanup"
    /\ UNCHANGED <<lock, serverInitialized, shutdown, channelVars, restarts,
                   backoff, childVars, heartbeatVars, rpc>>

ResetsForgottenWrong == resets
ResetsAfterCleanup == resets + 1

\* The tasks that wait for and read from the child are aborted, the child
\* itself is not killed; the Reset is sent.
Cleanup ==
    /\ mpc = "cleanup"
    /\ resets' = ResetsAfterCleanup
    /\ mpc' = "clear"
    /\ UNCHANGED <<sharedVars, toServer, receiving, signals, replies,
                   restarts, backoff, inHand, childVars, heartbeatVars, rpc>>

ClearState ==
    /\ mpc = "clear"
    /\ status' = IF shutdown THEN "stopped" ELSE "restarting"
    /\ mpc' = "decide"
    /\ UNCHANGED <<lock, serverInitialized, shutdown, channelVars, restarts,
                   backoff, inHand, childVars, heartbeatVars, rpc>>

RestartsAfterFailure == restarts + 1

\* The token is read again after the lock section.
Decide ==
    /\ mpc = "decide"
    /\ mpc' = IF shutdown THEN "done" ELSE "backoff"
    /\ receiving' = ~shutdown
    /\ restarts' = IF shutdown THEN restarts ELSE RestartsAfterFailure
    /\ UNCHANGED <<sharedVars, toServer, resets, signals, replies, backoff,
                   inHand, childVars, heartbeatVars, rpc>>

\* The sleep, which shutdown does not cut short, is over.
BackoffEnds ==
    /\ mpc = "backoff"
    /\ backoff' = NextBackoff
    /\ mpc' = "top"
    /\ UNCHANGED <<sharedVars, channelVars, restarts, inHand, childVars,
                   heartbeatVars, rpc>>

ManagerProceeds ==
    \/ LoopTop
    \/ LazyFirst
    \/ LazyShutdown
    \/ GiveUp
    \/ SpawnChild
    \/ ReportRunning
    \/ WriteFirst
    \/ LoopHead
    \/ SelectShutdown
    \/ SelectMessage
    \/ SelectExit
    \/ SelectSignal
    \/ Write
    \/ WriteFails
    \/ Cleanup
    \/ ClearState
    \/ Decide
    \/ BackoffEnds

ManagerNext == ManagerProceeds \/ SpawnFails

-----------------------------------------------------------------------------
\* The child reads its stdin and answers pings; the reader task hands the
\* answer to the router, and the router to the inspector.
ChildReads ==
    /\ child \in {"up", "mute"}
    /\ pipe # <<>>
    /\ pipe' = Tail(pipe)
    /\ replies' = IF /\ child = "up"
                     /\ Head(pipe).kind = "ping"
                     /\ mpc \in {"first", "loop", "select", "write", "cleanup"}
                  THEN Append(replies, Head(pipe).id) ELSE replies
    /\ UNCHANGED <<sharedVars, toServer, receiving, resets, signals,
                   managerVars, spawned, child, greeted, earlier,
                   heartbeatVars, rpc>>

\* A child may stop answering, stop reading, or exit.  The last child within
\* the bound does not, and no signal restarts it.
ChildFails ==
    /\ ChildAlive
    /\ spawned < MaxSpawns
    /\ child' \in ChildFaults \ {child}
    /\ UNCHANGED <<sharedVars, channelVars, managerVars, spawned, pipe,
                   greeted, earlier, heartbeatVars, rpc>>

\* The writer of a child is dropped at the end of the turn of the restart
\* loop, after the backoff; a child that reads sees the end of its stdin.
ChildSeesEof ==
    /\ child \in {"up", "mute"}
    /\ pipe = <<>>
    /\ mpc \in {"top", "lazy", "check", "limit", "done", "failed"}
    /\ child' = "exited"
    /\ UNCHANGED <<sharedVars, channelVars, managerVars, spawned, pipe,
                   greeted, earlier, heartbeatVars, rpc>>

\* So does an earlier process, which may stop reading before it gets there.
EarlierExits ==
    /\ \E p \in earlier : p.does # "deaf" /\ earlier' = earlier \ {p}
    /\ UNCHANGED <<sharedVars, channelVars, managerVars, spawned, child, pipe,
                   greeted, heartbeatVars, rpc>>

EarlierStopsReading ==
    /\ "deaf" \in ChildFaults
    /\ \E p \in earlier :
          /\ p.does # "deaf"
          /\ earlier' = (earlier \ {p}) \cup {[p EXCEPT !.does = "deaf"]}
    /\ UNCHANGED <<sharedVars, channelVars, managerVars, spawned, child, pipe,
                   greeted, heartbeatVars, rpc>>

ChildNext ==
    \/ ChildReads
    \/ ChildFails
    \/ ChildSeesEof
    \/ EarlierExits
    \/ EarlierStopsReading
=============================================================================
