-------------------------- MODULE StatusBoardProofs ---------------------------
(***************************************************************************)
(* What the board, the file and the tray may show, for any clients, limits *)
(* and starts.  A snapshot is taken and sent in two steps; what is proved  *)
(* of it when it is taken has to last until it is shown.                   *)
(***************************************************************************)
EXTENDS StatusBoard, FiniteSetTheorems, TLAPS

Places == DOMAIN After \cup {"idle", "permitted", "serving", "left", "gone",
                             "start", "watching", "cleaning", "ended"}

MuxType == [server: Servers, restarts: 0..MaxRestarts, clients: SUBSET Clients,
            permits: SUBSET Clients, leaked: SUBSET Clients]

\* A mark is none of the snapshots.
MarksAreMarks == None \notin Snapshots /\ Partial \notin Snapshots /\ None # Partial

LEMMA AfterPlaces ==
    /\ DOMAIN After = {"greeting", "parting", "started", "exited", "cleaned", "tick"}
    /\ \A p \in DOMAIN After : After[p] \in Places \ DOMAIN After
  BY DEF After, Places

LEMMA HandlersDiffer ==
    /\ \A c \in Clients : /\ Handler(c) \in Tasks
                          /\ Handler(c) # Manager /\ Handler(c) # Reaper
    /\ \A c, d \in Clients : Handler(c) = Handler(d) => c = d
    /\ Manager \in Tasks /\ Reaper \in Tasks /\ Manager # Reaper
  BY DEF Handler, Manager, Reaper, Tasks

\* Permits are not handed out beyond MaxActive, and a child is only started,
\* and its end only counted, below the limit.
LimitInv ==
    /\ Cardinality(mux.permits) <= MaxActive
    /\ pc[Manager] \in {"started", "watching", "exited", "cleaning"}
          => mux.restarts < MaxRestarts

LEMMA SnapshotType ==
    ASSUME mux \in MuxType, Cardinality(mux.permits) <= MaxActive
    PROVE  Snapshot \in Snapshots
<1>1. IsFiniteSet(mux.permits) /\ IsFiniteSet(mux.clients)
  BY ClientsAssumption, FS_Subset DEF MuxType
<1>2. /\ Cardinality(mux.permits) \in Nat /\ Cardinality(mux.clients) \in Nat
      /\ Cardinality(mux.clients) <= Cardinality(Clients)
      /\ Cardinality(Clients) \in Nat
  BY <1>1, ClientsAssumption, FS_Subset, FS_CardinalityType DEF MuxType
<1> QED
  BY <1>2, SizesAssumption DEF Snapshot, Snapshots, MuxType

LEMMA FreshType ==
    ASSUME scene \in Scenes
    PROVE  /\ FreshMux \in MuxType /\ Cardinality(FreshMux.permits) <= MaxActive
           /\ FreshPc \in [Tasks -> Places]
           /\ FreshPc[Manager] = "start"
           /\ FreshTaken \in [Tasks -> Snapshots \cup {None}]
           /\ \A t \in Tasks : FreshTaken[t] = None
           /\ FirstSnapshot \in Snapshots
           /\ FreshBoard \in [value: Snapshots, fileSeen: BOOLEAN,
                              traySeen: BOOLEAN]
           /\ FreshWriter \in [pc: {"wait", "write", "fill", "rename"},
                               current: Snapshots \cup {None}]
           /\ FreshTray \in [pc: {"opening", "loop", "gone"},
                             slot: Snapshots \cup {None},
                             shown: Snapshots \cup {None}, clicked: BOOLEAN]
<1>1. Cardinality({}) = 0 /\ Cardinality(Clients) \in Nat
  BY FS_EmptySet, FS_CardinalityType, ClientsAssumption
<1>2. FreshMux \in MuxType /\ Cardinality(FreshMux.permits) <= MaxActive
  BY <1>1, SizesAssumption DEF FreshMux, MuxType, Servers
<1>3. FirstSnapshot \in Snapshots
  BY <1>1, SizesAssumption DEF FirstSnapshot, Snapshots, Servers
<1>4. FreshPc \in [Tasks -> Places] /\ FreshPc[Manager] = "start"
  BY HandlersDiffer DEF FreshPc, Places
<1>5. /\ FreshTaken \in [Tasks -> Snapshots \cup {None}]
      /\ \A t \in Tasks : FreshTaken[t] = None
  BY DEF FreshTaken
<1>6. FreshBoard \in [value: Snapshots, fileSeen: BOOLEAN, traySeen: BOOLEAN]
  BY <1>3 DEF FreshBoard
<1>7. FreshWriter \in [pc: {"wait", "write", "fill", "rename"},
                       current: Snapshots \cup {None}]
  BY <1>3 DEF FreshWriter, WriterWaits
<1>8. FreshTray \in [pc: {"opening", "loop", "gone"}, slot: Snapshots \cup {None},
                     shown: Snapshots \cup {None}, clicked: BOOLEAN]
  BY DEF FreshTray
<1> QED
  BY <1>2, <1>3, <1>4, <1>5, <1>6, <1>7, <1>8

TypeInv == TypeOK /\ LimitInv /\ scene \in Scenes

LEMMA TypeInit == Init => TypeInv
<1> SUFFICES ASSUME Init PROVE TypeInv
  OBVIOUS
<1>1. /\ scene \in Scenes /\ mux = FreshMux /\ pc = FreshPc /\ taken = FreshTaken
      /\ board = FreshBoard /\ writer = FreshWriter /\ tray = FreshTray
      /\ up = TRUE /\ runs = 1 /\ shutdown = FALSE /\ stuck = FALSE
      /\ file = None /\ tmp = None /\ faults = 0
  BY DEF Init
<1>2. LimitInv
  BY <1>1, FreshType DEF LimitInv
<1>3. /\ mux \in MuxType /\ pc \in [Tasks -> Places]
      /\ taken \in [Tasks -> Snapshots \cup {None}]
      /\ \A t \in Tasks : taken[t] = None
      /\ board \in [value: Snapshots, fileSeen: BOOLEAN, traySeen: BOOLEAN]
      /\ writer \in [pc: {"wait", "write", "fill", "rename"},
                     current: Snapshots \cup {None}]
      /\ tray \in [pc: {"opening", "loop", "gone"}, slot: Snapshots \cup {None},
                   shown: Snapshots \cup {None}, clicked: BOOLEAN]
  BY <1>1, FreshType
<1>4. runs \in 1..MaxRuns /\ faults \in 0..MaxFaults
  BY <1>1, SizesAssumption
<1> QED
  BY <1>1, <1>2, <1>3, <1>4 DEF TypeInv, TypeOK, MuxType, Places

LEMMA TypeOfPublish ==
    ASSUME TypeInv, NEW t \in Tasks, Take(t) \/ Send(t)
    PROVE  TypeInv'
<1> USE DEF TypeInv, TypeOK, LimitInv
<1>1. CASE Take(t)
  <2>1. Snapshot \in Snapshots
    BY SnapshotType DEF MuxType
  <2> QED
    BY <1>1, <2>1 DEF Take
<1>2. CASE Send(t)
  <2>1. taken[t] \in Snapshots /\ pc[t] \in DOMAIN After
    BY <1>2 DEF Send
  <2>2. After[pc[t]] \in Places \ DOMAIN After
    BY <2>1, AfterPlaces
  <2>3. board' \in [value: Snapshots, fileSeen: BOOLEAN, traySeen: BOOLEAN]
    BY <1>2, <2>1 DEF Send, Sent
  <2>4. /\ pc' \in [Tasks -> Places]
        /\ taken' \in [Tasks -> Snapshots \cup {None}]
        /\ \A u \in Tasks : taken'[u] # None => pc'[u] \in DOMAIN After
    BY <1>2, <2>2 DEF Send, Goto, Places
  <2>5. pc'[Manager] \in {"started", "watching", "exited", "cleaning"}
           => pc[Manager] \in {"started", "watching", "exited", "cleaning"}
    BY <1>2, <2>1, HandlersDiffer DEF Send, Goto, After
  <2> QED
    BY <1>2, <2>3, <2>4, <2>5 DEF Send, Places
<1> QED
  BY <1>1, <1>2

\* The permits of one more connection.
LEMMA OneMorePermit ==
    ASSUME mux \in MuxType, NEW c \in Clients, Cardinality(mux.permits) < MaxActive
    PROVE  Cardinality(mux.permits \cup {c}) <= MaxActive
<1>1. IsFiniteSet(mux.permits)
  BY ClientsAssumption, FS_Subset DEF MuxType
<1>2. Cardinality(mux.permits) \in Nat
      /\ Cardinality(mux.permits \cup {c}) \in
            {Cardinality(mux.permits), Cardinality(mux.permits) + 1}
  BY <1>1, FS_AddElement, FS_CardinalityType
<1> QED
  BY <1>2, SizesAssumption

LEMMA OnePermitLess ==
    ASSUME mux \in MuxType, NEW c \in Clients, Cardinality(mux.permits) <= MaxActive
    PROVE  Cardinality(mux.permits \ {c}) <= MaxActive
<1>1. IsFiniteSet(mux.permits)
  BY ClientsAssumption, FS_Subset DEF MuxType
<1>2. /\ Cardinality(mux.permits) \in Nat /\ Cardinality(mux.permits \ {c}) \in Nat
      /\ Cardinality(mux.permits \ {c}) <= Cardinality(mux.permits)
  BY <1>1, FS_Subset, FS_CardinalityType
<1> QED
  BY <1>2, SizesAssumption

LEMMA TypeOfConnection ==
    ASSUME TypeInv, NEW c \in Clients, Connection(c)
    PROVE  TypeInv'
<1>1. mux \in MuxType /\ Cardinality(mux.permits) <= MaxActive
  BY DEF TypeInv, TypeOK, LimitInv, MuxType
<1>2. /\ mux' \in MuxType /\ Cardinality(mux'.permits) <= MaxActive
      /\ mux'.restarts = mux.restarts
  <2>1. CASE Acquire(c)
    BY <1>1, <2>1, OneMorePermit DEF Acquire, MuxType
  <2>2. CASE Register(c) \/ Leave(c) \/ StopReading(c)
    BY <1>1, <2>2 DEF Register, Leave, StopReading, Unregistered, MuxType
  <2>3. CASE Release(c) \/ Malformed(c)
    BY <1>1, <2>3, OnePermitLess DEF Release, Malformed, MuxType
  <2> QED
    BY <2>1, <2>2, <2>3 DEF Connection
<1>3. /\ pc' = pc \/ \E p \in Places : pc' = [pc EXCEPT ![Handler(c)] = p]
      /\ pc' = pc \/ pc[Handler(c)] \notin DOMAIN After
  BY AfterPlaces
  DEF Connection, Acquire, Register, Leave, StopReading, Release, Malformed,
      Goto, restOfConnection, Places
<1>4. UNCHANGED <<taken, restOfConnection>>
  BY DEF Connection, Acquire, Register, Leave, StopReading, Release, Malformed
<1>5. /\ pc' \in [Tasks -> Places] /\ pc'[Manager] = pc[Manager]
      /\ \A t \in Tasks : taken'[t] # None => pc'[t] \in DOMAIN After
  BY <1>3, <1>4, HandlersDiffer DEF TypeInv, TypeOK, Places
<1> QED
  BY <1>2, <1>4, <1>5
  DEF TypeInv, TypeOK, LimitInv, restOfConnection, MuxType, Places

LEMMA TypeOfManager ==
    ASSUME TypeInv, ManagerStep
    PROVE  TypeInv'
<1> DEFINE Below == {"started", "watching", "exited", "cleaning"}
<1>1. mux \in MuxType /\ mux.restarts \in 0..MaxRestarts
  BY DEF TypeInv, TypeOK, MuxType
<1>2. /\ mux' \in MuxType /\ mux'.permits = mux.permits
      /\ pc' \in {[pc EXCEPT ![Manager] = p] : p \in
                     {"started", "ended", "exited", "cleaned"}}
      /\ pc[Manager] \notin DOMAIN After
      /\ pc'[Manager] \in Below => mux'.restarts < MaxRestarts
  <2>0. pc \in [Tasks -> Places] /\ Manager \in Tasks
    BY HandlersDiffer DEF TypeInv, TypeOK, Places
  <2>1. CASE Spawn
    BY <1>1, <2>0, <2>1, SizesAssumption, AfterPlaces
    DEF Spawn, AtLimit, ManagerAt, Goto, MuxType, Servers
  <2>2. CASE GiveUp
    BY <1>1, <2>0, <2>2, AfterPlaces DEF GiveUp, ManagerAt, Goto, MuxType, Servers
  <2>3. CASE LoseChild
    BY <1>1, <2>0, <2>3, AfterPlaces
    DEF LoseChild, ManagerAt, Goto, MuxType, Servers, TypeInv, LimitInv
  <2>4. CASE CleanUp
    <3>1. mux.restarts < MaxRestarts
      BY <2>4 DEF CleanUp, ManagerAt, TypeInv, LimitInv
    <3>2. mux.restarts + 1 \in 0..MaxRestarts
      BY <1>1, <3>1, SizesAssumption
    <3> QED
      BY <1>1, <2>0, <2>4, <3>2, AfterPlaces
      DEF CleanUp, ManagerAt, Goto, MuxType, Servers
  <2> QED
    BY <2>1, <2>2, <2>3, <2>4 DEF ManagerStep
<1>3. /\ UNCHANGED <<taken, scene, up, runs, shutdown, board, writer, file,
                     tmp, faults, tray>>
      /\ stuck' \in {stuck, TRUE}
  BY DEF ManagerStep, Spawn, GiveUp, LoseChild, CleanUp, restOfConnection
<1>4. /\ pc' \in [Tasks -> Places]
      /\ \A t \in Tasks : taken'[t] # None => pc'[t] \in DOMAIN After
  BY <1>2, <1>3, HandlersDiffer, AfterPlaces DEF TypeInv, TypeOK, Places
<1>5. LimitInv' /\ scene' \in Scenes
  BY <1>2, <1>3 DEF TypeInv, LimitInv
<1>6. TypeOK'
  <2>1. /\ up' \in BOOLEAN /\ runs' \in 1..MaxRuns /\ shutdown' \in BOOLEAN
        /\ stuck' \in BOOLEAN /\ file' \in Snapshots \cup {None, Partial}
        /\ tmp' \in Snapshots \cup {None, Partial}
        /\ faults' \in 0..MaxFaults
        /\ taken' \in [Tasks -> Snapshots \cup {None}]
    BY <1>3 DEF TypeInv, TypeOK
  <2>2. /\ board' = board /\ writer' = writer /\ tray' = tray
        /\ mux' \in MuxType
    BY <1>2, <1>3
  <2> QED
    BY <1>4, <2>1, <2>2 DEF TypeInv, TypeOK, MuxType, Places
<1> QED
  BY <1>5, <1>6 DEF TypeInv

LEMMA TypeOfViewers ==
    ASSUME TypeInv, FileStep \/ WriterFails \/ Forward \/ TrayStep \/ Click
    PROVE  TypeInv'
<1> DEFINE Boards == [value: Snapshots, fileSeen: BOOLEAN, traySeen: BOOLEAN]
           Writers == [pc: {"wait", "write", "fill", "rename"},
                       current: Snapshots \cup {None}]
           Trays == [pc: {"opening", "loop", "gone"}, slot: Snapshots \cup {None},
                     shown: Snapshots \cup {None}, clicked: BOOLEAN]
<1>1. /\ board \in Boards /\ writer \in Writers /\ tray \in Trays
      /\ file \in Snapshots \cup {None, Partial} /\ faults \in 0..MaxFaults
      /\ tmp \in Snapshots \cup {None, Partial}
      /\ shutdown \in BOOLEAN
  BY DEF TypeInv, TypeOK
<1>2. /\ board' \in Boards /\ writer' \in Writers /\ tray' \in Trays
      /\ file' \in Snapshots \cup {None, Partial} /\ faults' \in 0..MaxFaults
      /\ tmp' \in Snapshots \cup {None, Partial}
      /\ shutdown' \in BOOLEAN
  <2>1. CASE WriterWakes
    BY <1>1, <2>1 DEF WriterWakes, restOfFile
  <2>2. CASE WriterEmpties \/ WriterFills
    BY <1>1, <2>2 DEF WriterEmpties, WriterFills, restOfFile
  <2>3. CASE WriterRenames
    BY <1>1, <2>3 DEF WriterRenames, WriterWaits, restOfFile
  <2>4. CASE WriterFails
    BY <1>1, <2>4, SizesAssumption
    DEF WriterFails, GivenUp, WriterWaits, restOfFile
  <2>5. CASE Forward \/ Click
    BY <1>1, <2>5 DEF Forward, Click, restOfTray
  <2>6. CASE TrayOpens
    BY <1>1, <2>6 DEF TrayOpens, restOfTray
  <2>7. CASE TrayTakes
    BY <1>1, <2>7 DEF TrayTakes, restOfTray
  <2>8. CASE TrayQuits
    BY <1>1, <2>8 DEF TrayQuits, OnQuit, restOfTray
  <2>9. CASE TrayStops
    BY <1>1, <2>9 DEF TrayStops, restOfTray
  <2> QED
    BY <2>1, <2>2, <2>3, <2>4, <2>5, <2>6, <2>7, <2>8, <2>9
    DEF FileStep, TrayStep
<1>3. UNCHANGED <<scene, up, runs, stuck, mux, pc, taken>>
  BY DEF FileStep, WriterWakes, WriterEmpties, WriterFills, WriterRenames,
         WriterFails,
         Forward, Click, TrayStep, TrayOpens, TrayTakes, TrayQuits, TrayStops,
         restOfFile, restOfTray
<1>4. LimitInv' /\ scene' \in Scenes
  BY <1>3 DEF TypeInv, LimitInv
<1>5. TypeOK'
  <2>1. /\ up' \in BOOLEAN /\ runs' \in 1..MaxRuns /\ stuck' \in BOOLEAN
        /\ mux' \in MuxType /\ pc' \in [Tasks -> Places]
        /\ taken' \in [Tasks -> Snapshots \cup {None}]
        /\ \A t \in Tasks : taken'[t] # None => pc'[t] \in DOMAIN After
    BY <1>3 DEF TypeInv, TypeOK, MuxType, Places
  <2> QED
    BY <1>2, <2>1 DEF TypeOK, MuxType, Places
<1> QED
  BY <1>4, <1>5 DEF TypeInv

LEMMA TypeOfProcess ==
    ASSUME TypeInv, Tick \/ Interrupt \/ Crash \/ Exit \/ Start
    PROVE  TypeInv'
<1>1. CASE Tick
  <2>1. pc' = [pc EXCEPT ![Reaper] = "tick"] /\ pc[Reaper] = "idle"
    BY <1>1 DEF Tick, Goto
  <2>2. /\ pc' \in [Tasks -> Places] /\ pc'[Manager] = pc[Manager]
        /\ \A t \in Tasks : taken[t] # None => pc'[t] \in DOMAIN After
    BY <2>1, HandlersDiffer, AfterPlaces DEF TypeInv, TypeOK, Places
  <2> QED
    BY <1>1, <2>2 DEF Tick, TypeInv, TypeOK, LimitInv, Places
<1>2. CASE Interrupt
  BY <1>2 DEF Interrupt, restOfTray, TypeInv, TypeOK, LimitInv
<1>3. CASE Stopped
  <2>1. scene \in Scenes
    BY DEF TypeInv
  <2>2. LimitInv'
    BY <1>3, <2>1, FreshType DEF Stopped, LimitInv
  <2>3. /\ mux' \in MuxType /\ pc' \in [Tasks -> Places]
        /\ taken' \in [Tasks -> Snapshots \cup {None}]
        /\ \A t \in Tasks : taken'[t] = None
        /\ board' \in [value: Snapshots, fileSeen: BOOLEAN, traySeen: BOOLEAN]
        /\ writer' \in [pc: {"wait", "write", "fill", "rename"},
                        current: Snapshots \cup {None}]
        /\ tray' \in [pc: {"opening", "loop", "gone"},
                      slot: Snapshots \cup {None},
                      shown: Snapshots \cup {None}, clicked: BOOLEAN]
    BY <1>3, <2>1, FreshType DEF Stopped
  <2> QED
    BY <1>3, <2>1, <2>2, <2>3 DEF Stopped, TypeInv, TypeOK, MuxType, Places
<1>4. CASE Start
  <2>1. runs' \in 1..MaxRuns
    <3>1. scene.lives \in 1..MaxRuns
      BY ScenesAssumption DEF TypeInv
    <3> QED
      BY <1>4, <3>1, SizesAssumption DEF Start, TypeInv, TypeOK
  <2> QED
    BY <1>4, <2>1 DEF Start, TypeInv, TypeOK, LimitInv
<1> QED
  BY <1>1, <1>2, <1>3, <1>4 DEF Crash, Exit

LEMMA TypeNext == TypeInv /\ [Next]_vars => TypeInv'
<1> SUFFICES ASSUME TypeInv, [Next]_vars PROVE TypeInv'
  OBVIOUS
<1>1. CASE UNCHANGED vars
  BY <1>1 DEF vars, TypeInv, TypeOK, LimitInv
<1> QED
  BY <1>1, TypeOfPublish, TypeOfConnection, TypeOfManager, TypeOfViewers,
     TypeOfProcess DEF Next

(* Every variable keeps its type, at most MaxActive clients are active in  *)
(* a snapshot, and one is held only where one is published                 *)
(* (publish_status).                                                       *)
THEOREM StatusTypeCorrect == Spec => []TypeOK
<1>1. TypeInv => TypeOK
  BY DEF TypeInv
<1> QED
  BY <1>1, TypeInit, TypeNext, PTL DEF Spec

-----------------------------------------------------------------------------
(* The file.                                                               *)

\* What waits to be written is a snapshot, and what is about to be renamed is
\* the whole of it: nothing else touches the other file until then.
FileInv ==
    /\ file # Partial
    /\ writer.pc # "wait" => writer.current \in Snapshots
    /\ writer.pc = "rename" => tmp = writer.current

LEMMA FileNext ==
    ASSUME MarksAreMarks
    PROVE  TypeInv /\ FileInv /\ [Next]_vars => FileInv'
<1> SUFFICES ASSUME TypeInv, FileInv, [Next]_vars PROVE FileInv'
  OBVIOUS
<1> USE DEF FileInv
<1>1. CASE WriterWakes
  BY <1>1 DEF WriterWakes, restOfFile, TypeInv, TypeOK
<1>2. CASE WriterEmpties \/ WriterFills
  BY <1>2 DEF WriterEmpties, WriterFills, TypeInv, TypeOK
<1>3. CASE WriterRenames
  <2>1. file' = tmp /\ tmp = writer.current /\ writer.current \in Snapshots
    BY <1>3 DEF WriterRenames
  <2> QED
    BY <1>3, <2>1 DEF WriterRenames, WriterWaits, MarksAreMarks
<1>4. CASE WriterFails
  BY <1>4 DEF WriterFails, GivenUp, WriterWaits
<1>5. CASE Crash \/ Exit
  <2>1. FirstSnapshot \in Snapshots
    BY FreshType DEF TypeInv
  <2> QED
    BY <1>5, <2>1 DEF Crash, Exit, Stopped, FreshWriter, WriterWaits
<1>6. CASE \/ \E t \in Tasks : Take(t) \/ Send(t)
           \/ Tick \/ (\E c \in Clients : Connection(c)) \/ ManagerStep
           \/ Forward \/ TrayStep \/ Click \/ Interrupt \/ Start
           \/ UNCHANGED vars
  <2>1. UNCHANGED <<file, tmp, writer>>
    BY <1>6
    DEF Take, Send, Tick, Connection, Acquire, Register, Leave, StopReading,
        Release, Malformed, ManagerStep, Spawn, GiveUp, LoseChild, CleanUp,
        Forward, TrayStep, TrayOpens, TrayTakes, TrayQuits, TrayStops, Click,
        Interrupt, Start, restOfConnection, restOfTray, vars
  <2> QED
    BY <2>1
<1> QED
  BY <1>1, <1>2, <1>3, <1>4, <1>5, <1>6 DEF Next, FileStep

(* Whoever opens the status file finds none or a whole snapshot, however   *)
(* often writing fails and wherever the process crashes, also when the     *)
(* other file was left as a part by a failure or an earlier life           *)
(* (write_status_file).                                                    *)
THEOREM FileCorrect ==
    ASSUME MarksAreMarks
    PROVE  Spec => []FileIsWhole
<1>1. Init => FileInv
  <2>1. ASSUME scene \in Scenes PROVE FirstSnapshot \in Snapshots
    BY <2>1, FreshType
  <2> QED
    BY <2>1 DEF Init, FileInv, FreshWriter, WriterWaits, MarksAreMarks
<1>2. FileInv => FileIsWhole
  BY DEF FileInv, FileIsWhole
<1> QED
  BY <1>1, <1>2, FileNext, TypeInit, TypeNext, PTL DEF Spec

-----------------------------------------------------------------------------
(* Connected and active.                                                   *)

\* Who is registered holds a permit, or was left behind by a malformed frame.
PermitInv ==
    \A c \in Clients :
        /\ pc[Handler(c)] \in {"permitted", "greeting", "serving", "parting", "left"}
              => c \in mux.permits
        /\ c \in mux.clients
              => pc[Handler(c)] \in {"greeting", "serving"} \/ c \in mux.leaked

\* A snapshot that counts no more connected than active and left behind.
Covered(s, left) == s # None => s.connected <= s.active + Cardinality(left)

\* So it is with every snapshot on its way.
CoveredInv ==
    /\ PermitInv
    /\ \A t \in Tasks : Covered(taken[t], mux.leaked)
    /\ \A s \in {board.value, tray.shown, tray.slot} : Covered(s, mux.leaked)

LEMMA PermitNext == TypeInv /\ PermitInv /\ [Next]_vars => PermitInv'
<1> SUFFICES ASSUME TypeInv, PermitInv, [Next]_vars PROVE PermitInv'
  OBVIOUS
<1>0. /\ pc \in [Tasks -> Places] /\ mux \in MuxType
      /\ \A c \in Clients : Handler(c) \in Tasks
  BY HandlersDiffer DEF TypeInv, TypeOK, MuxType, Places
<1>1. ASSUME NEW c \in Clients, Connection(c) PROVE PermitInv'
  <2>1. CASE Acquire(c)
    BY <1>0, <2>1, HandlersDiffer DEF Acquire, Goto, PermitInv, MuxType
  <2>2. CASE Register(c)
    BY <1>0, <2>2, HandlersDiffer DEF Register, Goto, PermitInv, MuxType
  <2>3. CASE Leave(c)
    BY <1>0, <2>3, HandlersDiffer DEF Leave, Unregistered, Goto, PermitInv, MuxType
  <2>4. CASE StopReading(c)
    BY <1>0, <2>4 DEF StopReading, Unregistered, PermitInv, MuxType
  <2>5. CASE Release(c)
    BY <1>0, <2>5, HandlersDiffer DEF Release, Goto, PermitInv, MuxType
  <2>6. CASE Malformed(c)
    BY <1>0, <2>6, HandlersDiffer DEF Malformed, Goto, PermitInv, MuxType
  <2> QED
    BY <1>1, <2>1, <2>2, <2>3, <2>4, <2>5, <2>6 DEF Connection
<1>2. ASSUME NEW t \in Tasks, Take(t) \/ Send(t) PROVE PermitInv'
  <2>1. CASE Take(t)
    BY <2>1 DEF Take, PermitInv
  <2>2. CASE Send(t)
    <3>1. /\ pc[t] \in DOMAIN After /\ mux' = mux
          /\ pc' = [pc EXCEPT ![t] = After[pc[t]]]
      BY <2>2 DEF Send, Goto, TypeInv, TypeOK
    <3>2. ASSUME NEW c \in Clients, t = Handler(c)
          PROVE  /\ pc'[Handler(c)] \in {"permitted", "greeting", "serving",
                                         "parting", "left"}
                       => c \in mux.permits
                 /\ c \in mux.clients
                       => pc'[Handler(c)] \in {"greeting", "serving"}
                          \/ c \in mux.leaked
      BY <1>0, <3>1, <3>2 DEF PermitInv, After
    <3> QED
      BY <1>0, <3>1, <3>2 DEF PermitInv
  <2> QED
    BY <1>2, <2>1, <2>2
<1>3. CASE ManagerStep \/ Tick
  <2>1. /\ \A c \in Clients : pc'[Handler(c)] = pc[Handler(c)]
        /\ mux'.permits = mux.permits /\ mux'.clients = mux.clients
        /\ mux'.leaked = mux.leaked
    BY <1>0, <1>3, HandlersDiffer
    DEF ManagerStep, Spawn, GiveUp, LoseChild, CleanUp, Tick, Goto, MuxType
  <2> QED
    BY <2>1 DEF PermitInv
<1>4. CASE Crash \/ Exit
  <2>1. mux' = FreshMux /\ pc' = FreshPc
    BY <1>4 DEF Crash, Exit, Stopped
  <2> QED
    BY <2>1, HandlersDiffer DEF PermitInv, FreshMux, FreshPc
<1>5. CASE FileStep \/ WriterFails \/ Forward \/ TrayStep \/ Click \/ Interrupt
           \/ Start \/ UNCHANGED vars
  <2>1. UNCHANGED <<pc, mux>>
    BY <1>5
    DEF FileStep, WriterWakes, WriterEmpties, WriterFills, WriterRenames,
         WriterFails,
        Forward, TrayStep, TrayOpens, TrayTakes, TrayQuits, TrayStops, Click,
        Interrupt, Start, restOfFile, restOfTray, vars
  <2> QED
    BY <2>1 DEF PermitInv
<1> QED
  BY <1>1, <1>2, <1>3, <1>4, <1>5 DEF Next

\* What is counted when a snapshot is taken.
LEMMA SnapshotCovered ==
    ASSUME mux \in MuxType, PermitInv
    PROVE  Covered(Snapshot, mux.leaked)
<1>1. /\ IsFiniteSet(mux.clients) /\ IsFiniteSet(mux.permits)
      /\ IsFiniteSet(mux.leaked)
  BY ClientsAssumption, FS_Subset DEF MuxType
<1>2. mux.clients \subseteq mux.permits \cup mux.leaked
  BY DEF PermitInv, MuxType
<1>3. IsFiniteSet(mux.permits \cup mux.leaked)
      /\ IsFiniteSet(mux.permits \cap mux.leaked)
  BY <1>1, FS_Union, FS_Intersection
<1>4. Cardinality(mux.clients) <= Cardinality(mux.permits \cup mux.leaked)
  BY <1>2, <1>3, FS_Subset
<1>5. Cardinality(mux.permits \cup mux.leaked)
         = Cardinality(mux.permits) + Cardinality(mux.leaked)
           - Cardinality(mux.permits \cap mux.leaked)
  BY <1>1, FS_Union
<1>6. /\ Cardinality(mux.clients) \in Nat /\ Cardinality(mux.permits) \in Nat
      /\ Cardinality(mux.leaked) \in Nat
      /\ Cardinality(mux.permits \cap mux.leaked) \in Nat
      /\ Cardinality(mux.permits \cup mux.leaked) \in Nat
  BY <1>1, <1>3, FS_CardinalityType
<1>7. Cardinality(mux.clients)
         <= Cardinality(mux.permits) + Cardinality(mux.leaked)
  BY <1>4, <1>5, <1>6
<1> QED
  BY <1>7 DEF Covered, Snapshot

\* Who was left behind stays so, and old snapshots stay covered.
LEMMA CoveredLasts ==
    ASSUME NEW s \in Snapshots \cup {None}, NEW old \in SUBSET Clients,
           NEW new \in SUBSET Clients, old \subseteq new, Covered(s, old)
    PROVE  Covered(s, new)
<1>1. IsFiniteSet(old) /\ IsFiniteSet(new)
  BY ClientsAssumption, FS_Subset
<1>2. /\ Cardinality(old) \in Nat /\ Cardinality(new) \in Nat
      /\ Cardinality(old) <= Cardinality(new)
  BY <1>1, FS_Subset, FS_CardinalityType
<1>3. CASE s # None
  <2>1. s.connected \in Int /\ s.active \in Int
    BY <1>3 DEF Snapshots
  <2> QED
    BY <1>2, <1>3, <2>1 DEF Covered
<1> QED
  BY <1>3 DEF Covered

LEMMA CoveredNext ==
    ASSUME MarksAreMarks
    PROVE  TypeInv /\ CoveredInv /\ [Next]_vars => CoveredInv'
<1> SUFFICES ASSUME TypeInv, CoveredInv, [Next]_vars PROVE CoveredInv'
  OBVIOUS
<1>0. PermitInv' /\ TypeInv'
  BY PermitNext, TypeNext DEF CoveredInv
<1>1. CASE Crash \/ Exit
  <2>1. /\ taken' = FreshTaken /\ board' = FreshBoard /\ tray' = FreshTray
        /\ mux' = FreshMux
    BY <1>1 DEF Crash, Exit, Stopped
  <2>2. Cardinality(mux'.leaked) = 0
    BY <2>1, FS_EmptySet DEF FreshMux
  <2>3. Covered(FirstSnapshot, mux'.leaked)
    BY <2>2 DEF Covered, FirstSnapshot
  <2> QED
    BY <1>0, <2>1, <2>3
    DEF CoveredInv, Covered, FreshTaken, FreshBoard, FreshTray
<1>2. CASE ~(Crash \/ Exit)
  <2>1. mux.leaked \subseteq mux'.leaked
    <3>1. mux \in MuxType
      BY DEF TypeInv, TypeOK, MuxType
    <3> QED
      BY <1>2, <3>1
      DEF Next, Take, Send, Tick, Connection, Acquire, Register, Leave,
          Unregistered, StopReading, Release, Malformed, ManagerStep, Spawn,
          GiveUp, LoseChild, CleanUp, FileStep, WriterWakes, WriterEmpties,
          WriterFills, WriterRenames, WriterFails, Forward, TrayStep, TrayOpens, TrayTakes,
          TrayQuits, TrayStops, Click, Interrupt, Start, restOfFile,
          restOfTray, vars, MuxType
  <2>2. \A s \in Snapshots \cup {None} :
           Covered(s, mux.leaked) => Covered(s, mux'.leaked)
    <3>1. mux.leaked \in SUBSET Clients /\ mux'.leaked \in SUBSET Clients
      BY <1>0 DEF TypeInv, TypeOK
    <3> QED
      BY <2>1, <3>1, CoveredLasts
  <2>3. \A t \in Tasks : Covered(taken'[t], mux'.leaked)
    <3>1. ASSUME NEW t \in Tasks, Take(t) PROVE taken'[t] = Snapshot /\ mux' = mux
                   /\ \A u \in Tasks : u # t => taken'[u] = taken[u]
      BY <3>1 DEF Take, TypeInv, TypeOK
    <3>2. Covered(Snapshot, mux.leaked)
      BY SnapshotCovered DEF CoveredInv, TypeInv, TypeOK, MuxType
    <3>3. \A t \in Tasks : Covered(taken[t], mux'.leaked)
      BY <2>2 DEF CoveredInv, TypeInv, TypeOK
    <3>4. CASE \E t \in Tasks : Take(t)
      BY <3>1, <3>2, <3>3, <3>4
    <3>5. CASE ~\E t \in Tasks : Take(t)
      <4>1. \A t \in Tasks : taken'[t] \in {taken[t], None}
        BY <1>2, <3>5
        DEF Next, Send, Tick, Connection, Acquire, Register, Leave,
            StopReading, Release, Malformed, ManagerStep, Spawn, GiveUp,
            LoseChild, CleanUp, FileStep, WriterWakes, WriterEmpties,
            WriterFills, WriterRenames, WriterFails, Forward, TrayStep, TrayOpens,
            TrayTakes, TrayQuits, TrayStops, Click, Interrupt, Start,
            restOfFile, restOfTray, vars, TypeInv, TypeOK
      <4> QED
        BY <3>3, <4>1 DEF Covered
    <3> QED
      BY <3>4, <3>5
  <2>4. \A s \in {board'.value, tray'.shown, tray'.slot} : Covered(s, mux'.leaked)
    <3>1. \A s \in {board.value, tray.shown, tray.slot} : Covered(s, mux'.leaked)
      BY <2>2 DEF CoveredInv, TypeInv, TypeOK
    <3>2. ASSUME NEW t \in Tasks, Send(t) PROVE board'.value = taken[t]
                    /\ mux' = mux /\ tray' = tray
      BY <3>2 DEF Send, Sent
    <3>3. CASE \E t \in Tasks : Send(t)
      BY <3>1, <3>2, <3>3 DEF CoveredInv
    <3>4. CASE ~\E t \in Tasks : Send(t)
      <4>1. /\ board'.value = board.value
            /\ {tray'.shown, tray'.slot}
                  \subseteq {board.value, tray.shown, tray.slot, None}
        BY <1>2, <3>4
        DEF Next, Take, Tick, Connection, Acquire, Register, Leave,
            StopReading, Release, Malformed, ManagerStep, Spawn, GiveUp,
            LoseChild, CleanUp, FileStep, WriterWakes, WriterEmpties,
            WriterFills, WriterRenames, WriterFails, Forward, TrayStep, TrayOpens,
            TrayTakes, TrayQuits, TrayStops, Click, Interrupt, Start,
            restOfFile, restOfTray, restOfConnection, vars, TypeInv, TypeOK
      <4> QED
        BY <3>1, <4>1 DEF Covered
    <3> QED
      BY <3>3, <3>4
  <2> QED
    BY <1>0, <2>3, <2>4 DEF CoveredInv
<1> QED
  BY <1>1, <1>2

(* No snapshot shows more clients connected than are active, except for    *)
(* those a malformed frame left behind, although it is taken and shown in  *)
(* different steps and the permits are counted without their own lock      *)
(* (publish_status, handle_client).                                        *)
THEOREM ConnectedCorrect ==
    ASSUME MarksAreMarks
    PROVE  Spec => []ConnectedWithinActive
<1>1. Init => CoveredInv
  <2> SUFFICES ASSUME Init PROVE CoveredInv
    OBVIOUS
  <2>1. /\ taken = FreshTaken /\ board = FreshBoard /\ tray = FreshTray
        /\ mux = FreshMux /\ pc = FreshPc
    BY DEF Init
  <2>2. Cardinality(mux.leaked) = 0
    BY <2>1, FS_EmptySet DEF FreshMux
  <2>3. Covered(FirstSnapshot, mux.leaked)
    BY <2>2 DEF Covered, FirstSnapshot
  <2>4. PermitInv
    BY <2>1, HandlersDiffer DEF PermitInv, FreshMux, FreshPc
  <2> QED
    BY <2>1, <2>3, <2>4 DEF CoveredInv, Covered, FreshTaken, FreshBoard, FreshTray
<1>2. CoveredInv => ConnectedWithinActive
  BY DEF CoveredInv, Covered, ConnectedWithinActive
<1> QED
  BY <1>1, <1>2, CoveredNext, TypeInit, TypeNext, PTL DEF Spec
=============================================================================
