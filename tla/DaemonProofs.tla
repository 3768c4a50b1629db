----------------------------- MODULE DaemonProofs -----------------------------
(***************************************************************************)
(* The sockets and the registrations of a daemon, for any number of        *)
(* services, queries and restarts.  Only ReachableWhileServing needs that  *)
(* no two services share a path.                                           *)
(***************************************************************************)
EXTENDS Daemon, TLAPS

-----------------------------------------------------------------------------
(* Types.                                                                  *)
LEMMA DaemonTypeInit == Init => TypeOK
<1> SUFFICES ASSUME Init PROVE TypeOK
  OBVIOUS
<1>1. 1 \in 1..MaxRuns
  BY RunsAssumption
<1> QED
  BY <1>1, NobodyAssumption
     DEF Init, TypeOK, FreshMain, FreshPlace, FreshServers, FreshListener,
         FreshQuery, FreshNames

LEMMA DaemonTypeGone == TypeOK /\ up' \in BOOLEAN /\ Gone => TypeOK'
  BY NobodyAssumption
     DEF TypeOK, Gone, FreshMain, FreshPlace, FreshServers, FreshListener,
         FreshQuery, FreshNames

(* No step of a mux breaks a type.                                         *)
LEMMA DaemonTypeMux ==
    ASSUME TypeOK, NEW m \in Muxes, MuxStep(m) \/ Stick(m) \/ Cancel(m)
    PROVE  TypeOK'
<1> USE NobodyAssumption DEF TypeOK, statusVars, restOfMux, Moves
<1>1. SocketOf[m] \in Paths /\ NameOf[m] \in Names
  BY DEF Paths, Names
<1>2. CASE RemoveStale(m)
  BY <1>2 DEF RemoveStale
<1>3. CASE Bind(m)
  BY <1>3 DEF Bind, Bound
<1>4. CASE BindFails(m)
  BY <1>4 DEF BindFails
<1>5. CASE Register(m)
  BY <1>5 DEF Register, ServersWith
<1>6. CASE Open(m)
  BY <1>6 DEF Open
<1>7. CASE LeaveLoop(m)
  BY <1>7 DEF LeaveLoop
<1>8. CASE Close(m)
  BY <1>8 DEF Close
<1>9. CASE Stick(m)
  BY <1>9 DEF Stick
<1>10. CASE Cancel(m)
  BY <1>10 DEF Cancel, restOfOwner
<1> QED
  BY <1>2, <1>3, <1>4, <1>5, <1>6, <1>7, <1>8, <1>9, <1>10 DEF MuxStep

(* No step of a status query breaks a type.                                *)
LEMMA DaemonTypeQuery ==
    ASSUME TypeOK, NEW q \in Queries, Connect(q) \/ QueryStep(q)
    PROVE  TypeOK'
<1> USE NobodyAssumption DEF TypeOK, restOfStatus
<1>1. CASE Connect(q)
  BY <1>1 DEF Connect, Names, Serving
<1>2. CASE Lock(q)
  BY <1>2 DEF Lock, Registered
<1>3. CASE Visit(q)
  BY <1>3 DEF Visit
<1>4. CASE Answer(q)
  BY <1>4 DEF Answer, AfterAnswer
<1> QED
  BY <1>1, <1>2, <1>3, <1>4 DEF QueryStep

LEMMA DaemonTypeNext == TypeOK /\ [Next]_vars => TypeOK'
<1> SUFFICES ASSUME TypeOK, [Next]_vars PROVE TypeOK'
  OBVIOUS
<1>1. CASE Listen
  BY <1>1 DEF Listen, TypeOK, restOfStatus
<1>2. CASE ListenerCloses
  BY <1>2 DEF ListenerCloses, TypeOK, restOfStatus
<1>3. CASE Interrupt
  BY <1>3 DEF Interrupt, TypeOK, restOfOwner, statusVars
<1>4. CASE SeeCancelled
  BY <1>4 DEF SeeCancelled, TypeOK, restOfOwner, statusVars
<1>5. CASE Exit \/ Crash
  <2>1. Gone /\ up' \in BOOLEAN
    BY <1>5 DEF Exit, Crash, Gone
  <2> QED
    BY <2>1, DaemonTypeGone
<1>6. CASE Start
  BY <1>6, RunsAssumption DEF Start, TypeOK, statusVars
<1>7. CASE UNCHANGED vars
  BY <1>7 DEF vars, TypeOK
<1> QED
  BY <1>1, <1>2, <1>3, <1>4, <1>5, <1>6, <1>7, DaemonTypeMux, DaemonTypeQuery
     DEF Next

(* Every variable keeps its type, and whoever holds the mutex of           *)
(* StatusState collects (status.rs).                                       *)
THEOREM DaemonTypeCorrect == Spec => []TypeOK
  BY DaemonTypeInit, DaemonTypeNext, PTL DEF Spec

-----------------------------------------------------------------------------
(* The files of the sockets.                                               *)
Bound4 == {"registering", "opening", "serving", "closing"}

\* A path leads to a mux that has bound it and not closed it yet; one that is
\* dead is one that no mux of this run has got to.
FilesInv == \A p \in Paths :
    /\ socket[p] \in Muxes => /\ SocketOf[socket[p]] = p
                              /\ place[socket[p]] \in Bound4
    /\ socket[p] = Dead =>
           \A m \in Muxes : SocketOf[m] = p => place[m] = "starting"

\* What a mux has bound is still there.
KeptInv == \A m \in Muxes : place[m] \in Bound4 => socket[SocketOf[m]] = m

OwnPaths == \A m, n \in Muxes : SocketOf[m] = SocketOf[n] => m = n

LEMMA FilesInit == Init => FilesInv /\ KeptInv
  BY NobodyAssumption DEF Init, FilesInv, KeptInv, FreshPlace, Bound4

LEMMA FilesGone == FilesInv /\ Gone => FilesInv' /\ KeptInv'
  BY NobodyAssumption DEF FilesInv, KeptInv, Gone, FreshPlace, Bound4

\* A mux stays where it is, fails to bind, or keeps what it has bound.
Stays(m) ==
    \/ place'[m] = place[m]
    \/ place'[m] = "failed" /\ place[m] = "binding"
    \/ place'[m] \in Bound4 /\ place[m] \in Bound4
AllStay == UNCHANGED socket /\ \A m \in Muxes : Stays(m)

LEMMA MuxStays ==
    ASSUME TypeOK, NEW m \in Muxes,
           \/ BindFails(m)
           \/ Register(m)
           \/ Open(m)
           \/ LeaveLoop(m)
           \/ Stick(m)
           \/ Cancel(m)
    PROVE  AllStay
<1>1. ASSUME NEW from, NEW to, Moves(m, from, to), UNCHANGED socket,
             from \in Bound4, to \in Bound4
      PROVE  AllStay
  BY <1>1 DEF Moves, AllStay, Stays, TypeOK
<1>2. CASE BindFails(m)
  <2>1. Moves(m, "binding", "failed") /\ UNCHANGED socket
    BY <1>2 DEF BindFails, restOfMux, statusVars
  <2> QED
    BY <2>1 DEF Moves, AllStay, Stays, TypeOK
<1>3. CASE Register(m)
  BY <1>1, <1>3 DEF Register, Bound4
<1>4. CASE Open(m)
  BY <1>1, <1>4 DEF Open, Bound4
<1>5. CASE LeaveLoop(m)
  BY <1>1, <1>5 DEF LeaveLoop, Bound4
<1>6. CASE Stick(m) \/ Cancel(m)
  BY <1>6 DEF Stick, Cancel, restOfMux, restOfOwner, AllStay, Stays
<1> QED
  BY <1>2, <1>3, <1>4, <1>5, <1>6

(* The path of a mux is touched by that mux alone, or by the end of the    *)
(* process.                                                                *)
LEMMA FilesUntouched ==
    ASSUME TypeOK, [Next]_vars
    PROVE  \/ Gone
           \/ AllStay
           \/ \E m \in Muxes : RemoveStale(m) \/ Bind(m) \/ Close(m)
<1>1. ASSUME NEW q \in Queries, Connect(q) \/ QueryStep(q) PROVE AllStay
  BY <1>1 DEF Connect, QueryStep, Lock, Visit, Answer, restOfStatus, AllStay,
              Stays
<1>2. CASE Listen \/ ListenerCloses
  BY <1>2 DEF Listen, ListenerCloses, restOfStatus, AllStay, Stays
<1>3. CASE Interrupt \/ SeeCancelled
  BY <1>3 DEF Interrupt, SeeCancelled, restOfOwner, AllStay, Stays
<1>4. CASE Exit \/ Crash
  BY <1>4 DEF Exit, Crash
<1>5. CASE Start
  BY <1>5 DEF Start, AllStay, Stays
<1>6. CASE UNCHANGED vars
  BY <1>6 DEF vars, AllStay, Stays
<1> QED
  BY <1>1, <1>2, <1>3, <1>4, <1>5, <1>6, MuxStays DEF Next, MuxStep

LEMMA FilesNext == TypeOK /\ FilesInv /\ [Next]_vars => FilesInv'
<1> SUFFICES ASSUME TypeOK, FilesInv, [Next]_vars PROVE FilesInv'
  OBVIOUS
<1> USE NobodyAssumption DEF TypeOK, FilesInv, Bound4
<1>0. \A m \in Muxes : SocketOf[m] \in Paths
  BY DEF Paths
<1>1. ASSUME NEW m \in Muxes, RemoveStale(m) PROVE FilesInv'
  BY <1>0, <1>1 DEF RemoveStale, Moves
<1>2. ASSUME NEW m \in Muxes, Bind(m) PROVE FilesInv'
  BY <1>0, <1>2 DEF Bind, Bound, Moves
<1>3. ASSUME NEW m \in Muxes, Close(m) PROVE FilesInv'
  <2>1. \A p \in Paths : socket[p] = m => p = SocketOf[m]
    OBVIOUS
  <2> QED
    BY <1>0, <1>3, <2>1 DEF Close, Moves
<1>4. CASE Gone
  BY <1>4, FilesGone
<1>5. CASE AllStay
  BY <1>5 DEF AllStay, Stays
<1> QED
  BY <1>1, <1>2, <1>3, <1>4, <1>5, FilesUntouched

LEMMA KeptNext ==
    OwnPaths /\ TypeOK /\ KeptInv /\ FilesInv /\ [Next]_vars => KeptInv'
<1> SUFFICES ASSUME OwnPaths, TypeOK, KeptInv, FilesInv, [Next]_vars
             PROVE  KeptInv'
  OBVIOUS
<1> USE DEF TypeOK, KeptInv, Bound4
<1>0. \A m \in Muxes : SocketOf[m] \in Paths
  BY DEF Paths
<1>1. ASSUME NEW m \in Muxes, RemoveStale(m) PROVE KeptInv'
  BY <1>0, <1>1 DEF RemoveStale, Moves, OwnPaths
<1>2. ASSUME NEW m \in Muxes, Bind(m) PROVE KeptInv'
  BY <1>0, <1>2 DEF Bind, Bound, Moves, OwnPaths
<1>3. ASSUME NEW m \in Muxes, Close(m) PROVE KeptInv'
  BY <1>0, <1>3 DEF Close, Moves, OwnPaths
<1>4. CASE Gone
  BY <1>4, FilesGone
<1>5. CASE AllStay
  BY <1>0, <1>5 DEF AllStay, Stays
<1> QED
  BY <1>1, <1>2, <1>3, <1>4, <1>5, FilesUntouched

(* A mux that serves is reached through its path, whatever earlier runs    *)
(* left there, when each service has a path of its own                     *)
(* (run_mux_internal_with_status).                                         *)
THEOREM ReachableCorrect ==
    ASSUME OwnPaths
    PROVE  Spec => []ReachableWhileServing
<1>1. KeptInv => ReachableWhileServing
  BY DEF KeptInv, ReachableWhileServing, Serving, Bound4
<1>2. TypeOK /\ KeptInv /\ FilesInv /\ [Next]_vars => KeptInv'
  BY KeptNext
<1> QED
  BY DaemonTypeInit, DaemonTypeNext, FilesInit, FilesNext, <1>1, <1>2, PTL
     DEF Spec

(* An orderly end of the process leaves no socket of a mux behind, also    *)
(* when services share a path (run_mux_multi).                             *)
THEOREM ExitRemovesSocketsCorrect == Spec => ExitRemovesSockets
<1>1. ASSUME TypeOK, FilesInv, [Next]_vars
      PROVE  [Exit => \A p \in Paths : socket'[p] = None]_vars
  <2> SUFFICES ASSUME Exit, NEW p \in Paths PROVE socket'[p] = None
    OBVIOUS
  <2>1. PICK m \in Muxes : p = SocketOf[m]
    BY DEF Paths
  <2>2. \A n \in Muxes : place[n] \in {"ended", "failed"}
    BY DEF Exit, Joined
  <2>3. socket[p] = None
    BY <1>1, <2>1, <2>2 DEF TypeOK, FilesInv, Bound4
  <2> QED
    BY <2>3, NobodyAssumption DEF Exit, Gone
<1> QED
  BY DaemonTypeInit, DaemonTypeNext, FilesInit, FilesNext, <1>1, PTL
     DEF Spec, ExitRemovesSockets

-----------------------------------------------------------------------------
(* The registrations.                                                      *)
Past == {"opening", "serving", "closing", "ended"}

\* A mux that got past its registration left somebody under its name, and an
\* application without a status socket has no queries.
RegisteredInv ==
    /\ program = "daemon" =>
           \A m \in Muxes : place[m] \in Past => NameOf[m] \in Registered
    /\ program = "handles" => listener = "ended"
    /\ \A q \in Queries : asked[q] \subseteq Registered

LEMMA RegisteredInit == Init => RegisteredInv
<1> SUFFICES ASSUME Init PROVE RegisteredInv
  OBVIOUS
<1>1. program = "handles" => program # "daemon"
  OBVIOUS
<1> QED
  BY <1>1 DEF Init, RegisteredInv, FreshPlace, FreshListener, FreshNames, Past

(* No registration is taken back while the process runs: a step of a mux   *)
(* only adds to them.                                                      *)
LEMMA RegisteredMux ==
    ASSUME TypeOK, RegisteredInv, NEW m \in Muxes,
           MuxStep(m) \/ Stick(m) \/ Cancel(m)
    PROVE  RegisteredInv'
<1> USE DEF TypeOK, RegisteredInv, Past
<1>0. NameOf[m] \in Names
  BY DEF Names
<1>1. UNCHANGED <<program, listener, asked>>
  BY DEF MuxStep, RemoveStale, Bind, BindFails, Register, Open, LeaveLoop,
         Close, Stick, Cancel, restOfMux, restOfOwner, statusVars
<1>2. Registered \subseteq Registered'
  <2>1. UNCHANGED servers \/ servers' = [servers EXCEPT ![NameOf[m]] = m]
    BY DEF MuxStep, RemoveStale, Bind, BindFails, Register, Open, LeaveLoop,
           Close, Stick, Cancel, restOfMux, restOfOwner, ServersWith
  <2> QED
    BY <1>0, <2>1, NobodyAssumption DEF Registered
<1>3. ASSUME program = "daemon", NEW n \in Muxes, place'[n] \in Past
      PROVE  NameOf[n] \in Registered'
  <2>1. CASE place[n] \in Past
    BY <1>2, <1>3, <2>1
  <2>2. CASE place[n] \notin Past
    <3>1. Register(m) /\ n = m
      BY <1>3, <2>2
         DEF MuxStep, RemoveStale, Bind, BindFails, Register, Open, LeaveLoop,
             Close, Stick, Cancel, Moves, restOfMux, restOfOwner
    <3>2. servers' = [servers EXCEPT ![NameOf[m]] = m]
      BY <1>3, <3>1 DEF Register, ServersWith
    <3> QED
      BY <1>0, <3>1, <3>2, NobodyAssumption DEF Registered
  <2> QED
    BY <2>1, <2>2
<1> QED
  BY <1>1, <1>2, <1>3

LEMMA RegisteredNext == TypeOK /\ RegisteredInv /\ [Next]_vars => RegisteredInv'
<1> SUFFICES ASSUME TypeOK, RegisteredInv, [Next]_vars PROVE RegisteredInv'
  OBVIOUS
<1> USE DEF TypeOK, RegisteredInv, Past
<1>1. ASSUME NEW q \in Queries, Connect(q) PROVE RegisteredInv'
  <2>1. program = "daemon"
    BY <1>1 DEF Connect
  <2>2. {NameOf[m] : m \in Serving} \subseteq Registered
    BY <2>1 DEF Serving
  <2> QED
    BY <1>1, <2>2 DEF Connect, restOfStatus, Registered
<1>2. ASSUME NEW q \in Queries, QueryStep(q) PROVE RegisteredInv'
  BY <1>2 DEF QueryStep, Lock, Visit, Answer, restOfStatus, Registered
<1>3. CASE Listen \/ ListenerCloses
  BY <1>3 DEF Listen, ListenerCloses, restOfStatus, Registered
<1>4. CASE Interrupt \/ SeeCancelled
  BY <1>4 DEF Interrupt, SeeCancelled, restOfOwner, statusVars, Registered
<1>5. CASE Exit \/ Crash
  BY <1>5 DEF Exit, Crash, Gone, FreshPlace, FreshListener, FreshNames
<1>6. CASE Start
  BY <1>6 DEF Start, statusVars, Registered
<1>7. CASE UNCHANGED vars
  BY <1>7 DEF vars, Registered
<1> QED
  BY <1>1, <1>2, <1>3, <1>4, <1>5, <1>6, <1>7, RegisteredMux DEF Next

(* A status reply lists every service that served when the query came,     *)
(* also when services share a name (register_server, collect_status).      *)
THEOREM ReplyCorrect == Spec => []ReplyCoversServing
<1>1. RegisteredInv => ReplyCoversServing
  BY DEF RegisteredInv, ReplyCoversServing
<1> QED
  BY DaemonTypeInit, DaemonTypeNext, RegisteredInit, RegisteredNext, <1>1, PTL
     DEF Spec
=============================================================================
