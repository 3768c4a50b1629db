-------------------------- MODULE SupervisionProofs --------------------------
(***************************************************************************)
(* Proofs about Supervision, for every limit, queue and pipe size: types,  *)
(* the number of children the restart limit allows, the delays, what a     *)
(* heartbeat needs to ask for a restart, and that the manager implements   *)
(* the life cycle of ChildLifecycle.                                       *)
(***************************************************************************)
EXTENDS Supervision, TLAPS

LEMMA ToChildMembers ==
  /\ Call \in ToChild
  /\ Initialized \in ToChild
  /\ \A k \in 1..MaxProbes : Ping(k) \in ToChild
  BY DEF Call, Initialized, Ping, ToChild

LEMMA EmptyTypes ==
  ASSUME NEW S, NEW s, s = <<>>
  PROVE  s \in Seq(S) /\ Len(s) = 0
  OBVIOUS

LEMMA HeadTailTypes ==
  ASSUME NEW S, NEW s \in Seq(S), s # <<>>
  PROVE  /\ Head(s) \in S
         /\ Tail(s) \in Seq(S) /\ Len(Tail(s)) = Len(s) - 1
         /\ <<Head(s)>> \in Seq(S) /\ Len(<<Head(s)>>) = 1
  OBVIOUS

LEMMA AppendTypes ==
  ASSUME NEW S, NEW s \in Seq(S), NEW e \in S
  PROVE  Append(s, e) \in Seq(S) /\ Len(Append(s, e)) = Len(s) + 1
  OBVIOUS

LEMMA ConcatTypes ==
  ASSUME NEW S, NEW s \in Seq(S), NEW t \in Seq(S), Len(t) <= 1
  PROVE  s \o t \in Seq(S) /\ Len(s \o t) <= Len(s) + 1
  OBVIOUS

-----------------------------------------------------------------------------
(* Who changes what.                                                       *)

LEMMA SharedSteps ==
  [Next]_vars => \/ UNCHANGED sharedVars
                 \/ GiveUp \/ ReportRunning \/ SelectExit \/ SelectSignal
                 \/ WriteFails \/ ClearState
                 \/ RouterResets \/ ClientInitialized \/ Shutdown
  BY DEF vars, Next, ManagerNext, ManagerProceeds, ChildNext, HeartbeatNext,
         LoopTop, LazyFirst, LazyShutdown, SpawnChild, SpawnFails, WriteFirst,
         LoopHead, SelectShutdown, SelectMessage, Write, Cleanup, Decide,
         BackoffEnds, ChildReads, ChildFails, ChildSeesEof, EarlierExits, EarlierStopsReading, Tick, SendProbe,
         SendProbeFails, ProbeEnds, Record, RecvReply, InspectorStops,
         ReaperTick, ReaperLocks, ClientCalls

LEMMA ChannelSteps ==
  [Next]_vars => \/ UNCHANGED channelVars
                 \/ LoopTop \/ LazyFirst \/ LazyShutdown \/ SpawnFails
                 \/ SelectMessage \/ SelectSignal \/ Cleanup \/ Decide
                 \/ ChildReads \/ SendProbe \/ Record \/ RecvReply
                 \/ RouterResets \/ ClientInitialized \/ ClientCalls
  BY DEF vars, Next, ManagerNext, ManagerProceeds, ChildNext, HeartbeatNext,
         GiveUp, SpawnChild, ReportRunning, WriteFirst, LoopHead,
         SelectShutdown, SelectExit, Write, WriteFails, ClearState,
         BackoffEnds, ChildFails, ChildSeesEof, EarlierExits, EarlierStopsReading, Tick, SendProbeFails,
         ProbeEnds, InspectorStops, ReaperTick, ReaperLocks, Shutdown

LEMMA ManagerSteps ==
  [Next]_vars => UNCHANGED managerVars \/ ManagerNext
  BY DEF vars, Next, ChildNext, HeartbeatNext, ChildReads, ChildFails,
         ChildSeesEof, EarlierExits, EarlierStopsReading, Tick, SendProbe, SendProbeFails, ProbeEnds, Record,
         RecvReply, InspectorStops, RouterResets, ReaperTick, ReaperLocks,
         ClientInitialized, ClientCalls, Shutdown

LEMMA ChildSteps ==
  [Next]_vars => \/ UNCHANGED childVars
                 \/ SpawnChild \/ WriteFirst \/ Write
                 \/ ChildReads \/ ChildFails \/ ChildSeesEof
                 \/ EarlierExits \/ EarlierStopsReading
  BY DEF vars, Next, ManagerNext, ManagerProceeds, ChildNext, HeartbeatNext,
         LoopTop, LazyFirst, LazyShutdown, GiveUp, SpawnFails, ReportRunning,
         LoopHead, SelectShutdown, SelectMessage, SelectExit, SelectSignal,
         WriteFails, Cleanup, ClearState, Decide, BackoffEnds, Tick,
         SendProbe, SendProbeFails, ProbeEnds, Record, RecvReply,
         InspectorStops, RouterResets, ReaperTick, ReaperLocks,
         ClientInitialized, ClientCalls, Shutdown

LEMMA HeartbeatSteps ==
  [Next]_vars => UNCHANGED heartbeatVars \/ HeartbeatNext
  BY DEF vars, Next, ManagerNext, ManagerProceeds, ChildNext, LoopTop,
         LazyFirst, LazyShutdown, GiveUp, SpawnChild, SpawnFails,
         ReportRunning, WriteFirst, LoopHead, SelectShutdown, SelectMessage,
         SelectExit, SelectSignal, Write, WriteFails, Cleanup, ClearState,
         Decide, BackoffEnds, ChildReads, ChildFails, ChildSeesEof, EarlierExits, EarlierStopsReading,
         RouterResets, ReaperTick, ReaperLocks, ClientInitialized,
         ClientCalls, Shutdown

-----------------------------------------------------------------------------
(* Types, component by component.                                          *)

LEMMA SharedTypeNext == SharedTypeOK /\ [Next]_vars => SharedTypeOK'
  BY SharedSteps
     DEF SharedTypeOK, sharedVars, GiveUp, ReportRunning, SelectExit,
         SelectSignal, WriteFails, ClearState, RouterResets,
         ClientInitialized, Shutdown

LEMMA ChannelTypeNext ==
  ASSUME ChannelTypeOK, ChildTypeOK, HeartbeatTypeOK, [Next]_vars
  PROVE  ChannelTypeOK'
<1> USE DEF ChannelTypeOK
<1>1. CASE UNCHANGED channelVars
  BY <1>1 DEF channelVars
<1>2. CASE LoopTop \/ LazyShutdown \/ SpawnFails \/ Decide
  BY <1>2 DEF LoopTop, LazyShutdown, SpawnFails, Decide
<1>3. CASE LazyFirst
  <2>1. toServer' \in Seq(ToChild) /\ Len(toServer') <= MaxQueue
    BY <1>3, HeadTailTypes, SizesAssumption DEF LazyFirst
  <2>2. receiving' \in BOOLEAN /\ UNCHANGED <<resets, signals, replies>>
    BY <1>3 DEF LazyFirst
  <2> QED
    BY <2>1, <2>2
<1>4. CASE SelectMessage
  <2>1. toServer' \in Seq(ToChild) /\ Len(toServer') <= MaxQueue
    BY <1>4, HeadTailTypes, SizesAssumption DEF SelectMessage
  <2>2. UNCHANGED <<receiving, resets, signals, replies>>
    BY <1>4 DEF SelectMessage
  <2> QED
    BY <2>1, <2>2
<1>5. CASE SelectSignal
  BY <1>5 DEF SelectSignal
<1>6. CASE Cleanup
  BY <1>6 DEF Cleanup, ResetsAfterCleanup
<1>7. CASE ChildReads
  <2>1. replies' \in Seq(1..MaxProbes)
    <3>1. CASE replies' = replies
      BY <3>1
    <3>2. CASE replies' # replies
      <4>1. /\ pipe # <<>> /\ Head(pipe).kind = "ping"
            /\ replies' = Append(replies, Head(pipe).id)
        BY <1>7, <3>2 DEF ChildReads
      <4>2. Head(pipe) \in ToChild
        BY <4>1, HeadTailTypes DEF ChildTypeOK
      <4>3. Head(pipe).id \in 1..MaxProbes
        BY <4>1, <4>2 DEF ToChild
      <4> QED
        BY <4>1, <4>3, AppendTypes
    <3> QED
      BY <3>1, <3>2
  <2>2. UNCHANGED <<toServer, receiving, resets, signals>>
    BY <1>7 DEF ChildReads
  <2> QED
    BY <2>1, <2>2
<1>8. CASE SendProbe
  <2>1. probe \in 1..MaxProbes
    BY <1>8, SizesAssumption DEF SendProbe, HeartbeatTypeOK
  <2> QED
    BY <1>8, <2>1, AppendTypes, ToChildMembers, SizesAssumption
       DEF SendProbe, HasRoom
<1>9. CASE Record
  BY <1>9 DEF Record, SignalsAfter
<1>10. CASE RecvReply
  BY <1>10, HeadTailTypes DEF RecvReply
<1>11. CASE RouterResets
  BY <1>11 DEF RouterResets
<1>12. CASE ClientInitialized
  BY <1>12, AppendTypes, ToChildMembers, SizesAssumption
     DEF ClientInitialized, HasRoom
<1>13. CASE ClientCalls
  BY <1>13, AppendTypes, ToChildMembers, SizesAssumption
     DEF ClientCalls, HasRoom
<1> QED
  BY <1>1, <1>2, <1>3, <1>4, <1>5, <1>6, <1>7, <1>8, <1>9, <1>10, <1>11,
     <1>12, <1>13, ChannelSteps

LEMMA ManagerTypeNext ==
  ASSUME ChannelTypeOK, ManagerTypeOK, [Next]_vars PROVE ManagerTypeOK'
<1> USE DEF ManagerTypeOK, ManagerStates
<1>1. CASE UNCHANGED managerVars
  BY <1>1 DEF managerVars
<1>2. CASE LazyFirst
  BY <1>2, HeadTailTypes DEF LazyFirst, ChannelTypeOK
<1>3. CASE SelectMessage
  BY <1>3, HeadTailTypes DEF SelectMessage, ChannelTypeOK
<1>4. CASE BackoffEnds
  BY <1>4, LimitsAssumption DEF BackoffEnds, NextBackoff
<1>5. CASE Decide
  BY <1>5 DEF Decide, RestartsAfterFailure
<1>6. CASE LoopTop \/ LazyShutdown \/ GiveUp \/ SpawnChild \/ SpawnFails
  BY <1>6 DEF LoopTop, LazyShutdown, GiveUp, SpawnChild, SpawnFails
<1>7. CASE WriteFirst \/ Write \/ WriteFails
  <2>1. inHand' = <<>> /\ UNCHANGED <<restarts, backoff>>
    BY <1>7 DEF WriteFirst, Write, WriteFails
  <2>2. inHand' \in Seq(ToChild) /\ Len(inHand') = 0
    BY <2>1, EmptyTypes
  <2>3. mpc' \in ManagerStates
    BY <1>7 DEF WriteFirst, Write, WriteFails
  <2> QED
    BY <2>1, <2>2, <2>3
<1>8. CASE ReportRunning \/ LoopHead \/ SelectShutdown \/ SelectExit
           \/ SelectSignal \/ Cleanup \/ ClearState
  BY <1>8 DEF ReportRunning, LoopHead, SelectShutdown, SelectExit,
              SelectSignal, Cleanup, ClearState
<1> QED
  BY <1>1, <1>2, <1>3, <1>4, <1>5, <1>6, <1>7, <1>8, ManagerSteps
     DEF ManagerNext, ManagerProceeds

LEMMA ChildTypeNext ==
  ASSUME ManagerTypeOK, ChildTypeOK, [Next]_vars PROVE ChildTypeOK'
<1> USE SizesAssumption DEF ChildTypeOK
<1>1. CASE UNCHANGED childVars
  BY <1>1 DEF childVars
<1>2. CASE SpawnChild
  <2>1. /\ spawned' = spawned + 1 /\ child' = "up"
        /\ pipe' = <<>> /\ greeted' = FALSE
    BY <1>2 DEF SpawnChild
  <2>2. pipe' \in Seq(ToChild) /\ Len(pipe') = 0
    BY <2>1, EmptyTypes
  <2>3. Len(pipe') <= PipeSize
    BY <2>2
  <2>4. spawned' \in Nat
    BY <2>1
  <2>5. greeted' \in BOOLEAN
    BY <2>1
  <2>6. earlier' \subseteq [number : Nat, does : {"up", "mute", "deaf"}]
    BY <1>2 DEF SpawnChild, ChildAlive
  <2> QED
    BY <2>1, <2>2, <2>3, <2>4, <2>5, <2>6
<1>3. CASE WriteFirst \/ Write
  <2>1. /\ pipe \o inHand \in Seq(ToChild)
        /\ Len(pipe \o inHand) <= Len(pipe) + 1
    BY ConcatTypes DEF ManagerTypeOK
  <2>2. /\ UNCHANGED <<spawned, child, earlier>>
        /\ \/ UNCHANGED <<pipe, greeted>>
           \/ Len(pipe) < PipeSize /\ WriteToPipe
    BY <1>3 DEF WriteFirst, Write
  <2>3. greeted' \in BOOLEAN
    BY <2>2 DEF WriteToPipe
  <2>4. pipe' \in Seq(ToChild) /\ Len(pipe') <= PipeSize
    <3>1. CASE UNCHANGED <<pipe, greeted>>
      BY <3>1
    <3>2. CASE Len(pipe) < PipeSize /\ WriteToPipe
      BY <2>1, <3>2 DEF WriteToPipe
    <3> QED
      BY <2>2, <3>1, <3>2
  <2> QED
    BY <2>2, <2>3, <2>4
<1>4. CASE ChildReads
  BY <1>4, HeadTailTypes DEF ChildReads
<1>5. CASE ChildFails
  BY <1>5, FaultsAssumption DEF ChildFails
<1>6. CASE ChildSeesEof
  BY <1>6 DEF ChildSeesEof
<1>7. CASE EarlierExits
  BY <1>7 DEF EarlierExits
<1>8. CASE EarlierStopsReading
  <2>1. PICK e \in earlier :
           earlier' = (earlier \ {e}) \cup {[e EXCEPT !.does = "deaf"]}
    BY <1>8 DEF EarlierStopsReading
  <2>2. [e EXCEPT !.does = "deaf"] \in [number : Nat, does : {"up", "mute", "deaf"}]
    OBVIOUS
  <2>3. UNCHANGED <<spawned, child, pipe, greeted>>
    BY <1>8 DEF EarlierStopsReading
  <2> QED
    BY <2>1, <2>2, <2>3
<1> QED
  BY <1>1, <1>2, <1>3, <1>4, <1>5, <1>6, <1>7, <1>8, ChildSteps

LEMMA HeartbeatTypeNext ==
  ASSUME HeartbeatTypeOK, [Next]_vars PROVE HeartbeatTypeOK'
<1> USE LimitsAssumption, SizesAssumption DEF HeartbeatTypeOK, InspectorStates
<1>1. CASE UNCHANGED heartbeatVars
  BY <1>1 DEF heartbeatVars
<1>2. CASE Tick
  <2>1. /\ probe' = probe + 1 /\ probe < MaxProbes
        /\ outstanding' = outstanding \cup {probe + 1}
        /\ fired' = FALSE /\ hpc' = "send" /\ failures' = failures
    BY <1>2 DEF Tick
  <2>2. probe' \in 0..MaxProbes /\ probe' # 0
    BY <2>1
  <2>3. probe + 1 \in 1..MaxProbes
    BY <2>1
  <2>4. outstanding' \subseteq 1..MaxProbes
    BY <2>1, <2>3
  <2> QED
    BY <2>1, <2>2, <2>4
<1>3. CASE SendProbe
  BY <1>3 DEF SendProbe
<1>4. CASE SendProbeFails
  BY <1>4 DEF SendProbeFails, RecordFailure
<1>5. CASE ProbeEnds
  BY <1>5 DEF ProbeEnds, RecordFailure
<1>6. CASE Record
  BY <1>6 DEF Record
<1>7. CASE RecvReply
  <2>1. /\ outstanding' = outstanding \ {Head(replies)}
        /\ UNCHANGED <<hpc, probe, failures>>
    BY <1>7 DEF RecvReply
  <2>2. fired' \in BOOLEAN
    BY <1>7 DEF RecvReply
  <2> QED
    BY <2>1, <2>2
<1>8. CASE InspectorStops
  BY <1>8 DEF InspectorStops
<1> QED
  BY <1>1, <1>2, <1>3, <1>4, <1>5, <1>6, <1>7, <1>8, HeartbeatSteps
     DEF HeartbeatNext

LEMMA ReaperTypeNext == rpc \in {"idle", "tick"} /\ [Next]_vars
                        => rpc' \in {"idle", "tick"}
  BY DEF vars, Next, ManagerNext, ManagerProceeds, ChildNext, HeartbeatNext,
         LoopTop, LazyFirst, LazyShutdown, GiveUp, SpawnChild, SpawnFails,
         ReportRunning, WriteFirst, LoopHead, SelectShutdown, SelectMessage,
         SelectExit, SelectSignal, Write, WriteFails, Cleanup, ClearState,
         Decide, BackoffEnds, ChildReads, ChildFails, ChildSeesEof, EarlierExits, EarlierStopsReading, Tick,
         SendProbe, SendProbeFails, ProbeEnds, Record, RecvReply,
         InspectorStops, RouterResets, ReaperTick, ReaperLocks,
         ClientInitialized, ClientCalls, Shutdown

LEMMA SupervisionTypeInit == Init => TypeOK
<1> SUFFICES ASSUME Init PROVE TypeOK
  OBVIOUS
<1>1. SharedTypeOK /\ rpc \in {"idle", "tick"}
  BY DEF Init, SharedInit, SharedTypeOK
<1>2. ChannelTypeOK
  BY SizesAssumption DEF Init, SharedInit, ChannelTypeOK
<1>3. ManagerTypeOK
  BY LimitsAssumption DEF Init, ManagerInit, ManagerTypeOK, ManagerStates
<1>4. ChildTypeOK
  <2>1. /\ spawned = 0 /\ child = "none" /\ pipe = <<>> /\ greeted = FALSE
        /\ earlier = {}
    BY DEF Init, ManagerInit
  <2>2. pipe \in Seq(ToChild) /\ Len(pipe) = 0
    BY <2>1, EmptyTypes
  <2>3. Len(pipe) <= PipeSize
    BY <2>2, SizesAssumption
  <2> QED
    BY <2>1, <2>2, <2>3 DEF ChildTypeOK
<1>5. HeartbeatTypeOK
  <2>1. /\ hpc = "idle" /\ probe = 0 /\ outstanding = {}
        /\ fired = FALSE /\ failures = 0
    BY DEF Init, HeartbeatInit
  <2>2. 0 \in 0..MaxProbes /\ 0 \in 0..MaxFailures
    BY LimitsAssumption, SizesAssumption
  <2> QED
    BY <2>1, <2>2 DEF HeartbeatTypeOK, InspectorStates
<1> QED
  BY <1>1, <1>2, <1>3, <1>4, <1>5 DEF TypeOK

LEMMA SupervisionTypeNext == TypeOK /\ [Next]_vars => TypeOK'
  BY SharedTypeNext, ChannelTypeNext, ManagerTypeNext, ChildTypeNext,
     HeartbeatTypeNext, ReaperTypeNext DEF TypeOK

(* Every variable keeps its type, and neither the queue to the child nor   *)
(* its stdin exceeds its capacity.                                         *)
THEOREM SupervisionTypeCorrect == Spec => []TypeOK
  BY SupervisionTypeInit, SupervisionTypeNext, PTL DEF Spec

-----------------------------------------------------------------------------
(* The restart limit.  Between two lives of the child, restarts counts     *)
(* those that ended; during one it is behind by the one that runs.         *)
Alive == {"started", "first", "loop", "select", "write", "cleanup", "clear",
          "decide"}
SpawnInv ==
    /\ mpc \notin Alive \cup {"done"} => spawned = restarts
    /\ mpc \in Alive => /\ spawned = restarts + 1
                        /\ MaxRestarts > 0 => restarts < MaxRestarts
    /\ SpawnsWithinLimit

LEMMA SpawnInit == Init => SpawnInv
  BY LimitsAssumption
     DEF Init, ManagerInit, SpawnInv, SpawnsWithinLimit, Alive

LEMMA SpawnNext == TypeOK /\ SpawnInv /\ [Next]_vars => SpawnInv'
<1> SUFFICES ASSUME TypeOK, SpawnInv, [Next]_vars PROVE SpawnInv'
  OBVIOUS
<1> USE LimitsAssumption DEF SpawnInv, SpawnsWithinLimit, Alive
<1>1. restarts \in Nat /\ spawned \in Nat
  BY DEF TypeOK, ManagerTypeOK, ChildTypeOK
<1>2. CASE UNCHANGED <<mpc, restarts, spawned>>
  BY <1>2
<1>3. CASE SpawnChild
  BY <1>1, <1>3 DEF SpawnChild, LimitReached
<1>4. CASE Decide
  BY <1>1, <1>4 DEF Decide, RestartsAfterFailure, childVars
<1>5. CASE LoopTop \/ LazyFirst \/ LazyShutdown \/ GiveUp \/ SpawnFails
  BY <1>1, <1>5
     DEF LoopTop, LazyFirst, LazyShutdown, GiveUp, SpawnFails, childVars
<1>6. CASE ReportRunning \/ WriteFirst \/ LoopHead \/ SelectShutdown
  BY <1>1, <1>6
     DEF ReportRunning, WriteFirst, LoopHead, SelectShutdown, childVars
<1>7. CASE SelectMessage \/ SelectExit \/ SelectSignal \/ Write \/ WriteFails
  BY <1>1, <1>7
     DEF SelectMessage, SelectExit, SelectSignal, Write, WriteFails, childVars
<1>8. CASE Cleanup \/ ClearState \/ BackoffEnds
  BY <1>1, <1>8 DEF Cleanup, ClearState, BackoffEnds, childVars
<1>9. CASE UNCHANGED managerVars /\ ~ManagerNext
  BY <1>2, <1>9, ChildSteps
     DEF managerVars, childVars, ManagerNext, ManagerProceeds, ChildReads,
         ChildFails, ChildSeesEof, EarlierExits, EarlierStopsReading
<1> QED
  BY <1>3, <1>4, <1>5, <1>6, <1>7, <1>8, <1>9, ManagerSteps
     DEF ManagerNext, ManagerProceeds

(* A child that keeps failing is started at most max_restarts times, first *)
(* start included (server_manager).                                        *)
THEOREM SpawnLimit == Spec => []SpawnsWithinLimit
<1>1. SpawnInv => SpawnsWithinLimit
  BY DEF SpawnInv
<1> QED
  BY <1>1, SpawnInit, SpawnNext, SupervisionTypeCorrect, PTL DEF Spec

-----------------------------------------------------------------------------
(* The delays.                                                             *)

(* The delay before a restart never exceeds the larger of the initial and  *)
(* the maximal delay, over any number of restarts (server_manager).        *)
THEOREM BackoffBounded == Spec => []BackoffWithinCap
<1>1. Init => BackoffWithinCap
  BY LimitsAssumption DEF Init, ManagerInit, BackoffWithinCap
<1>2. TypeOK /\ BackoffWithinCap /\ [Next]_vars => BackoffWithinCap'
  <2> SUFFICES ASSUME TypeOK, BackoffWithinCap, [Next]_vars
               PROVE  BackoffWithinCap'
    OBVIOUS
  <2> USE LimitsAssumption DEF BackoffWithinCap
  <2>1. backoff \in Nat
    BY DEF TypeOK, ManagerTypeOK
  <2>2. CASE UNCHANGED backoff
    BY <2>2
  <2>3. CASE BackoffEnds
    BY <2>1, <2>3 DEF BackoffEnds, NextBackoff
  <2> QED
    BY <2>2, <2>3, ManagerSteps
       DEF managerVars, ManagerNext, ManagerProceeds, LoopTop, LazyFirst,
           LazyShutdown, GiveUp, SpawnChild, SpawnFails, ReportRunning,
           WriteFirst, LoopHead, SelectShutdown, SelectMessage, SelectExit,
           SelectSignal, Write, WriteFails, Cleanup, ClearState, Decide
<1> QED
  BY <1>1, <1>2, SupervisionTypeCorrect, PTL DEF Spec

-----------------------------------------------------------------------------
(* Restart signals.  A probe that is under way is not yet counted as a     *)
(* failure, so there are never more failures than probes; until it is      *)
(* recorded it has not asked for a restart.                                *)
SignalInv ==
    /\ SignalsNeedProbes
    /\ failures <= probe
    /\ hpc \in {"send", "wait"} => failures < probe
    /\ hpc \in {"send", "wait", "record"} /\ signals > 0
          => signals + MaxFailures <= probe
    /\ status = "running" \/ mpc = "started" => spawned > 0

LEMMA SignalInit == Init => SignalInv
  BY LimitsAssumption
     DEF Init, SharedInit, ManagerInit, HeartbeatInit,
         SignalInv, SignalsNeedProbes

LEMMA SignalNext == TypeOK /\ SignalInv /\ [Next]_vars => SignalInv'
<1> SUFFICES ASSUME TypeOK, SignalInv, [Next]_vars PROVE SignalInv'
  OBVIOUS
<1> USE LimitsAssumption DEF SignalInv, SignalsNeedProbes
<1>1. /\ signals \in Nat /\ spawned \in Nat
      /\ probe \in Nat /\ failures \in Nat
  BY SizesAssumption DEF TypeOK, ChannelTypeOK, ChildTypeOK, HeartbeatTypeOK
<1>2. /\ spawned <= spawned' /\ spawned' \in Nat
      /\ status' = "running" \/ mpc' = "started" => spawned' > 0
  <2>1. spawned <= spawned' /\ (spawned' = spawned \/ spawned' = spawned + 1)
    BY <1>1, ChildSteps
       DEF childVars, SpawnChild, WriteFirst, Write, ChildReads, ChildFails,
           ChildSeesEof, EarlierExits, EarlierStopsReading
  <2>2. CASE UNCHANGED <<status, mpc>>
    BY <2>1, <2>2, <1>1
  <2>3. CASE SpawnChild
    BY <2>3, <1>1 DEF SpawnChild, sharedVars
  <2>4. CASE ReportRunning
    BY <2>4, <2>1, <1>1 DEF ReportRunning
  <2>5. CASE /\ status' = status \/ status' # "running"
             /\ mpc' = mpc \/ mpc' # "started"
    BY <2>5, <2>1, <1>1
  <2>6. CASE ManagerNext
    BY <2>3, <2>4, <2>5, <2>6
       DEF ManagerNext, ManagerProceeds, LoopTop, LazyFirst, LazyShutdown,
           GiveUp, SpawnFails, WriteFirst, LoopHead, SelectShutdown,
           SelectMessage, SelectExit, SelectSignal, Write, WriteFails,
           Cleanup, ClearState, Decide, BackoffEnds, sharedVars
  <2> QED
    BY <2>2, <2>5, <2>6, ManagerSteps, SharedSteps
       DEF managerVars, sharedVars, ManagerNext, ManagerProceeds,
           RouterResets, ClientInitialized, Shutdown
<1>3. CASE HeartbeatNext
  <2>1. UNCHANGED spawned
    BY <1>3 DEF HeartbeatNext, Tick, SendProbe, SendProbeFails, ProbeEnds,
                Record, RecvReply, InspectorStops, childVars
  <2>2. CASE Tick
    BY <2>1, <2>2, <1>1, <1>2 DEF Tick, ProbeAllowed, channelVars
  <2>3. CASE SendProbe \/ RecvReply \/ InspectorStops
    BY <2>1, <2>3, <1>1, <1>2
       DEF SendProbe, RecvReply, InspectorStops, channelVars
  <2>4. CASE SendProbeFails \/ ProbeEnds
    BY <2>1, <2>4, <1>1, <1>2
       DEF SendProbeFails, ProbeEnds, RecordFailure, channelVars
  <2>5. CASE Record
    BY <2>1, <2>5, <1>1, <1>2 DEF Record, SignalsAfter, ShouldRestart
  <2> QED
    BY <1>3, <2>2, <2>3, <2>4, <2>5 DEF HeartbeatNext
<1>4. CASE UNCHANGED heartbeatVars
  <2>1. CASE UNCHANGED signals
    BY <1>1, <1>2, <1>4, <2>1 DEF heartbeatVars
  <2>2. CASE SelectSignal
    BY <1>1, <1>2, <1>4, <2>2 DEF SelectSignal, heartbeatVars
  <2>3. CASE SpawnFails \/ Decide
    BY <1>1, <1>2, <1>4, <2>3 DEF SpawnFails, Decide, heartbeatVars
  <2>4. signals' = signals \/ SelectSignal \/ SpawnFails \/ Decide
        \/ HeartbeatNext
    BY ChannelSteps
       DEF channelVars, LoopTop, LazyFirst, LazyShutdown, SelectMessage,
           Cleanup, ChildReads, RouterResets, ClientInitialized, ClientCalls,
           HeartbeatNext
  <2> QED
    BY <1>3, <2>1, <2>2, <2>3, <2>4
<1> QED
  BY <1>3, <1>4, HeartbeatSteps

(* A heartbeat asks for a restart only after max_failures probes and then  *)
(* once a probe, so the restarts that wait for the manager are fewer by    *)
(* max_failures - 1 than the probes, and it probes only once a child was   *)
(* started: it never restarts a server that nobody uses yet                *)
(* (spawn_heartbeat_inspector).                                            *)
THEOREM SignalsJustified == Spec => []SignalsNeedProbes
<1>1. SignalInv => SignalsNeedProbes
  BY DEF SignalInv
<1> QED
  BY <1>1, SignalInit, SignalNext, SupervisionTypeCorrect, PTL DEF Spec

-----------------------------------------------------------------------------
(* The life cycle of the children.                                         *)

LEMMA LifecycleInit == Init => Lifecycle!Init
  BY DEF Init, SharedInit, ManagerInit, Lifecycle!Init, Phase

LEMMA LifecycleNext ==
  TypeOK /\ [Next]_vars => [Lifecycle!Next]_Lifecycle!vars
<1> SUFFICES ASSUME TypeOK, [Next]_vars
             PROVE  Lifecycle!Next \/ UNCHANGED Lifecycle!vars
  BY DEF Lifecycle!vars
<1> USE DEF Phase, Lifecycle!vars
<1>1. resets \in Nat
  BY DEF TypeOK, ChannelTypeOK
<1>2. CASE SpawnChild
  <2>1. Lifecycle!Start
    BY <1>2 DEF SpawnChild, Lifecycle!Start, channelVars
  <2> QED
    BY <2>1 DEF Lifecycle!Next
<1>3. CASE Cleanup
  <2>1. Lifecycle!Tell
    BY <1>1, <1>3
       DEF Cleanup, ResetsAfterCleanup, Lifecycle!Tell, childVars
  <2> QED
    BY <2>1 DEF Lifecycle!Next
<1>4. CASE ClearState
  <2>1. Lifecycle!Clear
    BY <1>4 DEF ClearState, Lifecycle!Clear, childVars, channelVars
  <2> QED
    BY <2>1 DEF Lifecycle!Next
<1>5. CASE RouterResets
  <2>1. Lifecycle!Deliver
    BY <1>1, <1>5
       DEF RouterResets, Lifecycle!Deliver, managerVars, childVars
  <2> QED
    BY <2>1 DEF Lifecycle!Next
<1>6. CASE LoopTop \/ LazyFirst \/ LazyShutdown \/ GiveUp \/ SpawnFails
           \/ Decide \/ BackoffEnds
  BY <1>6 DEF LoopTop, LazyFirst, LazyShutdown, GiveUp, SpawnFails, Decide,
              BackoffEnds, childVars, channelVars
<1>7. CASE ReportRunning \/ WriteFirst \/ LoopHead \/ SelectShutdown
           \/ SelectMessage
  BY <1>7 DEF ReportRunning, WriteFirst, LoopHead, SelectShutdown,
              SelectMessage, childVars, channelVars
<1>8. CASE SelectExit \/ SelectSignal \/ Write \/ WriteFails
  BY <1>8 DEF SelectExit, SelectSignal, Write, WriteFails, childVars,
              channelVars
<1>9. CASE ChildNext
  BY <1>9 DEF ChildNext, ChildReads, ChildFails, ChildSeesEof, EarlierExits, EarlierStopsReading, managerVars,
              channelVars
<1>10. CASE HeartbeatNext
  BY <1>10 DEF HeartbeatNext, Tick, SendProbe, SendProbeFails, ProbeEnds,
               Record, RecvReply, InspectorStops, managerVars, childVars,
               channelVars
<1>11. CASE ReaperTick \/ ReaperLocks \/ ClientInitialized \/ ClientCalls
            \/ Shutdown \/ UNCHANGED vars
  BY <1>11 DEF ReaperTick, ReaperLocks, ClientInitialized, ClientCalls,
               Shutdown, vars, managerVars, childVars, channelVars
<1> QED
  BY <1>2, <1>3, <1>4, <1>5, <1>6, <1>7, <1>8, <1>9, <1>10, <1>11
     DEF Next, ManagerNext, ManagerProceeds

(* However a child ends, its end is told before the manager starts the     *)
(* next one, and the state it filled is cleared (server_manager).          *)
THEOREM ManagerLifecycle == Spec => ManagerImplementsLifecycle
  BY LifecycleInit, LifecycleNext, SupervisionTypeCorrect, PTL
     DEF Spec, ManagerImplementsLifecycle, Lifecycle!Spec
=============================================================================
