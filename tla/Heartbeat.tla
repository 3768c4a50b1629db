------------------------------ MODULE Heartbeat ------------------------------
(***************************************************************************)
(* The task that probes the child (spawn_heartbeat_inspector of            *)
(* src/src/runtime/heartbeat.rs), for a configuration that enables it.     *)
(*                                                                         *)
(* hpc: "idle", in its select; "send", blocked on to_server; "wait", for   *)
(* the answer or the timeout; "record", about to publish the metrics;      *)
(* "done".  All but "idle" are inside the branch for the tick, so replies  *)
(* are only read between probes.                                           *)
(*                                                                         *)
(* Left out: response times and the totals, which nothing decides on.      *)
(***************************************************************************)
EXTENDS SupervisionState

InspectorStates == {"idle", "send", "wait", "record", "done"}

HeartbeatInit ==
    /\ hpc = "idle"
    /\ probe = 0
    /\ outstanding = {}
    /\ fired = FALSE
    /\ failures = 0

RecordFailureForgottenWrong == failures
\* consecutive_failures is only compared with max_failures, so it is counted
\* up to it.
RecordFailure == IF failures < MaxFailures THEN failures + 1 ELSE failures

ShouldRestartEarlyWrong(n) == n + 1 >= MaxFailures
ShouldRestart(n) == n >= MaxFailures

\* check_restart
SignalsAfter(n) == IF ShouldRestart(n) THEN signals + 1 ELSE signals

\* Only a child that runs and was initialized is probed.
ProbeAllowed == status = "running" /\ serverInitialized

-----------------------------------------------------------------------------
\* A tick that finds the server running: a probe is under way.  On any other
\* tick nothing changes.
Tick ==
    /\ hpc = "idle"
    /\ LockFree
    /\ ProbeAllowed
    /\ probe < MaxProbes
    /\ probe' = probe + 1
    /\ outstanding' = outstanding \cup {probe + 1}
    /\ fired' = FALSE
    /\ hpc' = "send"
    /\ UNCHANGED <<failures, sharedVars, channelVars, managerVars, childVars,
                   rpc>>

SendProbe ==
    /\ hpc = "send"
    /\ receiving
    /\ HasRoom
    /\ toServer' = Append(toServer, Ping(probe))
    /\ hpc' = "wait"
    /\ UNCHANGED <<probe, outstanding, fired, failures, receiving, resets,
                   signals, replies, sharedVars, managerVars, childVars, rpc>>

\* The manager has returned: the channel is closed.
SendProbeFails ==
    /\ hpc = "send"
    /\ ~receiving
    /\ outstanding' = outstanding \ {probe}
    /\ failures' = RecordFailure
    /\ hpc' = "record"
    /\ UNCHANGED <<probe, fired, sharedVars, channelVars, managerVars,
                   childVars, rpc>>

\* The wait ends with the answer, if the oneshot of the probe was fired, and
\* with the timeout otherwise.
ProbeEnds ==
    /\ hpc = "wait"
    /\ outstanding' = outstanding \ {probe}
    /\ failures' = IF fired THEN 0 ELSE RecordFailure
    /\ hpc' = "record"
    /\ UNCHANGED <<probe, fired, sharedVars, channelVars, managerVars,
                   childVars, rpc>>

\* The metrics go to MuxState, and a restart is asked for if it is due.
Record ==
    /\ hpc = "record"
    /\ LockFree
    /\ signals' = SignalsAfter(failures)
    /\ hpc' = "idle"
    /\ UNCHANGED <<probe, outstanding, fired, failures, toServer, receiving,
                   resets, replies, sharedVars, managerVars, childVars, rpc>>

\* An answer fires the oneshot of its probe, if that is still outstanding.
\* The branches of the select are only polled between probes.
RecvReply ==
    /\ hpc = "idle"
    /\ replies # <<>>
    /\ outstanding' = outstanding \ {Head(replies)}
    /\ fired' = (Head(replies) \in outstanding)
    /\ replies' = Tail(replies)
    /\ UNCHANGED <<hpc, probe, failures, toServer, receiving, resets, signals,
                   sharedVars, managerVars, childVars, rpc>>

InspectorStops ==
    /\ hpc = "idle"
    /\ shutdown
    /\ hpc' = "done"
    /\ UNCHANGED <<probe, outstanding, fired, failures, sharedVars,
                   channelVars, managerVars, childVars, rpc>>

HeartbeatNext ==
    \/ Tick
    \/ SendProbe
    \/ SendProbeFails
    \/ ProbeEnds
    \/ Record
    \/ RecvReply
    \/ InspectorStops
=============================================================================
