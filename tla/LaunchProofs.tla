----------------------------- MODULE LaunchProofs -----------------------------
(***************************************************************************)
(* What a command line and a file resolve to, for any services, command    *)
(* lines and configurations: not only the ones one setting away from       *)
(* another that TLC enumerates.                                            *)
(***************************************************************************)
EXTENDS Launch, TLAPS

-----------------------------------------------------------------------------
(* The resolutions compared, setting by setting.                           *)

(* Without an entry in a file, an option or its default is what the        *)
(* builder's setter or default is (resolve_params, MuxConfig).             *)
LEMMA OptionOrDefault ==
    ASSUME NEW cli, NEW p, NEW default
    PROVE  /\ CliFirst(cli, NoServer, p, default) = Built(cli, p, default)
           /\ FileFirst(cli, NoServer, p, default) = Built(cli, p, default)
  BY DEF CliFirst, FileFirst, FileOr, NoServer, Built

(* The command line alone resolves as the library resolves (resolve_params, *)
(* From<MuxConfig>).                                                       *)
LEMMA ResolvesAsBuilt ==
    ASSUME NEW cli, cli \subseteq CliSettings, Required \subseteq cli
    PROVE  ResolveParams(cli, NoServer) = FromMuxConfig(cli)
<1>1. /\ "socket" \in cli
      /\ "cmd" \in cli
  BY DEF Required
<1>2. /\ SingleSocket(cli, NoServer) = Cli
      /\ CliFirst(cli, NoServer, "cmd", "missing") = Cli
  BY <1>1 DEF SingleSocket, CliFirst
<1>3. SingleTray(cli, NoServer) = BuiltTray(cli)
  <2>1. "tray_enabled" \notin NoServer.sets
    BY DEF NoServer
  <2>2. SingleTray(cli, NoServer) <=> BuiltTray(cli)
    BY <2>1 DEF SingleTray, BuiltTray
  <2>3. SingleTray(cli, NoServer) \in BOOLEAN /\ BuiltTray(cli) \in BOOLEAN
    BY DEF SingleTray, BuiltTray
  <2> QED
    BY <2>2, <2>3
<1>4. SingleName(cli, NoServer) = BuiltName(cli)
  BY <1>2 DEF SingleName, BuiltName, FileOr, NoServer
<1>5. FileOr(NoServer, "env", Default(<<>>)) = Built(cli, "env", <<>>)
  BY DEF FileOr, NoServer, Built, CliSettings
<1>6. 30 * 1000 = 30000 /\ 1 * 1000 = 1000
  OBVIOUS
<1>7. MaxActiveClients = 5 /\ LogLevel = "info"
  BY DEF MaxActiveClients, LogLevel
<1> QED
  BY <1>2, <1>3, <1>4, <1>5, <1>6, <1>7, OptionOrDefault, SMTT(60)
     DEF ResolveParams, FromMuxConfig

(* An entry of the file resolves alike in both modes when the command line *)
(* does not say what the service is (resolve_params, resolve_params_multi). *)
LEMMA ModesResolveAlike ==
    ASSUME NEW cli, NEW server,
           cli \cap OnlySingle = {},
           Required \subseteq server.sets,
           "service_name" \in server.sets,
           ~("tray_enabled" \in cli /\ "tray_enabled" \in server.sets
             /\ ~server.tray)
    PROVE  ResolveOne(cli, server) = ResolveParams(cli, server)
<1>1. /\ "socket" \notin cli /\ "cmd" \notin cli
      /\ "args" \notin cli /\ "service_name" \notin cli
  BY DEF OnlySingle
<1>2. "socket" \in server.sets /\ "cmd" \in server.sets
  BY DEF Required
<1>3. /\ SingleSocket(cli, server) = File
      /\ CliFirst(cli, server, "cmd", "missing") = File
      /\ CliFirst(cli, server, "args", <<>>) = FileOr(server, "args", Default(<<>>))
  BY <1>1, <1>2 DEF SingleSocket, CliFirst, FileOr
<1>4. SingleName(cli, server) = FileOr(server, "service_name", Key)
  BY <1>1 DEF SingleName, FileOr
<1>5. SingleTray(cli, server) = MultiTray(cli, server)
  <2>1. SingleTray(cli, server) <=> MultiTray(cli, server)
    BY DEF SingleTray, MultiTray
  <2>2. SingleTray(cli, server) \in BOOLEAN
    BY DEF SingleTray
  <2>3. MultiTray(cli, server) \in BOOLEAN
    BY DEF MultiTray
  <2> QED
    BY <2>1, <2>2, <2>3
<1> QED
  BY <1>3, <1>4, <1>5, SMTT(60) DEF ResolveOne, ResolveParams

(* Both modes resolve the same parameters.                                 *)
LEMMA SameParameters ==
    ASSUME NEW cli, NEW server
    PROVE  /\ DOMAIN ResolveOne(cli, server) = Parameters
           /\ DOMAIN ResolveParams(cli, server) = Parameters
  BY SMT DEF ResolveOne, ResolveParams, Parameters

(* The socket is the command line's, or else the file's (resolve_params).  *)
LEMMA SocketResolved ==
    ASSUME NEW cli, NEW server
    PROVE  /\ ResolveParams(cli, server).socket = SingleSocket(cli, server)
           /\ ResolveOne(cli, server).socket = File
  BY SMT DEF ResolveParams, ResolveOne

-----------------------------------------------------------------------------
(* Types.                                                                  *)

\* The inputs of a run do not change, and a check follows the start.
InputsInv ==
    /\ command \in Commands
    /\ config \in Configs
    /\ stage = "loading" => results = NoResults
    /\ stage = "single" => results = NoResults
    /\ stage # "running" => DOMAIN checked = {}

TypeInv == TypeOK /\ InputsInv

(* What the assumptions say of the inputs of a run.                        *)
LEMMA InputTypes ==
    ASSUME command \in Commands, config \in Configs
    PROVE  /\ command.sets \subseteq CliSettings
           /\ Nameless \notin Keys
           /\ Nobody \notin Keys
  BY CommandsAssumption, NamesAssumption, ConfigsAssumption
     DEF Keys

LEMMA TypeInit == Init => TypeInv
<1> SUFFICES ASSUME Init PROVE TypeInv
  OBVIOUS
<1>1. DOMAIN results = {} /\ DOMAIN checked = {}
  BY DEF Init, NoResults
<1> QED
  BY <1>1 DEF Init, TypeInv, TypeOK, InputsInv

LEMMA TypeNext == TypeInv /\ [Next]_vars => TypeInv'
<1> SUFFICES ASSUME TypeInv, [Next]_vars PROVE TypeInv'
  OBVIOUS
<1> USE DEF TypeInv, TypeOK, InputsInv, Keys, Parameters
<1>1. CASE Load
  BY <1>1 DEF Load
<1>2. CASE RunSingle
  <2>1. CASE SingleResolves
    <3>1. SingleKey \in Keys \cup {Nameless}
      BY <2>1 DEF SingleResolves, SingleKey
    <3>2. /\ results' = [s \in {SingleKey} |->
                ResolveParams(command.sets, SingleServer(s))]
          /\ stage' = "running"
          /\ UNCHANGED <<left, command, config, checked>>
      BY <1>2, <2>1 DEF RunSingle
    <3>3. stage = "single" /\ DOMAIN checked = {}
      BY <1>2 DEF RunSingle
    <3> QED
      BY <3>1, <3>2, <3>3, SameParameters
  <2>2. CASE ~SingleResolves
    BY <1>2, <2>2 DEF RunSingle, Fail
  <2> QED
    BY <2>1, <2>2
<1>3. ASSUME NEW s \in Services, ResolveNext(s) PROVE TypeInv'
  <2>1. /\ stage = "multi" /\ s \in Keys
        /\ left' = left \ {s}
        /\ UNCHANGED <<command, config, checked>>
    BY <1>3 DEF ResolveNext
  <2>2. CASE Skipped(s) /\ UNCHANGED <<stage, results>>
    BY <2>1, <2>2
  <2>3. CASE /\ results' = [t \in DOMAIN results \cup {s} |->
                 IF t = s THEN ResolveOne(command.sets, config.servers[s])
                 ELSE results[t]]
             /\ UNCHANGED stage
    BY <2>1, <2>3, SameParameters
  <2>4. CASE stage' = "failed" /\ UNCHANGED results
    BY <2>1, <2>4
  <2> QED
    BY <1>3, <2>2, <2>3, <2>4 DEF ResolveNext
<1>4. CASE RunMulti
  <2>1. CASE results # NoResults
    BY <1>4, <2>1 DEF RunMulti
  <2>2. CASE results = NoResults
    BY <1>4, <2>2 DEF RunMulti, Fail
  <2> QED
    BY <2>1, <2>2
<1>5. ASSUME NEW s \in Services \cup {Nameless}, Health(s) PROVE TypeInv'
  <2>1. /\ stage = "running" /\ s \in DOMAIN results
        /\ DOMAIN checked' = DOMAIN checked \cup {s}
        /\ UNCHANGED <<command, config, stage, left, results>>
    BY <1>5 DEF Health, Unchecked
  <2> QED
    BY <2>1
<1>6. CASE UNCHANGED vars
  BY <1>6 DEF vars
<1> QED
  BY <1>1, <1>2, <1>3, <1>4, <1>5, <1>6 DEF Next

(* Every variable keeps its type and every service that is resolved has a  *)
(* value for each parameter, for any command line and any configuration    *)
(* (resolve_params, resolve_params_multi).                                 *)
THEOREM LaunchTypeCorrect == Spec => []TypeOK
<1>1. TypeInv => TypeOK
  BY DEF TypeInv
<1> QED
  BY TypeInit, TypeNext, <1>1, PTL DEF Spec

-----------------------------------------------------------------------------
(* What each mode resolves.                                                *)
Complete(s) == Required \subseteq config.servers[s].sets

MultiResults(done) ==
    [s \in done |-> ResolveOne(command.sets, config.servers[s])]
SingleResults ==
    [s \in {SingleKey} |-> ResolveParams(command.sets, SingleServer(s))]

\* The services visited so far are resolved, and all of them were complete.
MultiInv == IsMultiMode =>
    /\ stage # "single"
    /\ stage \in {"multi", "running"} =>
           /\ results = MultiResults(Wanted \ left)
           /\ \A s \in Wanted \ left : Complete(s)
    /\ stage = "running" => left = {} /\ Wanted # {}
    /\ stage = "failed" => Wanted = {} \/ \E s \in Wanted : ~Complete(s)

SingleInv == ~IsMultiMode =>
    /\ stage # "multi"
    /\ stage = "running" => SingleResolves /\ results = SingleResults

\* A check resolved the socket as a single run does.
CheckedInv == \A s \in DOMAIN checked :
    /\ s \in DOMAIN results
    /\ Required \subseteq HealthOptions \cup SingleServer(s).sets
    /\ checked[s] = SingleSocket(HealthOptions, SingleServer(s))

ResolvedInv == MultiInv /\ SingleInv /\ CheckedInv

(* The mode, the selected services and what their entries say are settled  *)
(* by the inputs.                                                          *)
LEMMA InputsSettle ==
    ASSUME UNCHANGED <<command, config>>
    PROVE  /\ IsMultiMode' <=> IsMultiMode
           /\ SingleResolves' <=> SingleResolves
           /\ UNCHANGED <<Keys, Wanted, SingleKey, SingleResults>>
           /\ UNCHANGED HealthOptions
           /\ \A s : SingleServer(s)' = SingleServer(s)
           /\ \A s : Complete(s)' <=> Complete(s)
           /\ \A done : MultiResults(done)' = MultiResults(done)
  BY DEF IsMultiMode, HasConfig, SingleResolves, Keys, Wanted, SingleKey,
         SingleResults, HealthOptions, SingleServer, Complete, MultiResults

LEMMA ResolvedInit == Init => ResolvedInv
<1> SUFFICES ASSUME Init PROVE ResolvedInv
  OBVIOUS
<1>1. DOMAIN checked = {}
  BY DEF Init
<1> QED
  BY <1>1 DEF Init, ResolvedInv, MultiInv, SingleInv, CheckedInv

LEMMA ResolvedNext == TypeInv /\ ResolvedInv /\ [Next]_vars => ResolvedInv'
<1> SUFFICES ASSUME TypeInv, ResolvedInv, [Next]_vars PROVE ResolvedInv'
  OBVIOUS
<1> USE DEF ResolvedInv
<1>1. CASE Load
  <2>1. UNCHANGED <<command, config, checked, results>> /\ results = NoResults
    BY <1>1 DEF Load, TypeInv, InputsInv
  <2>2. DOMAIN checked = {}
    BY <1>1 DEF Load, TypeInv, InputsInv
  <2>3. CASE IsMultiMode
    <3>1. stage' = "multi" /\ left' = Keys /\ Wanted \ Keys = {}
      BY <1>1, <2>3 DEF Load, IsMultiMode, HasConfig, Wanted
    <3>2. results' = MultiResults(Wanted \ left')
      BY <2>1, <3>1 DEF NoResults, MultiResults
    <3> QED
      BY <2>1, <2>2, <2>3, <3>1, <3>2, InputsSettle
         DEF MultiInv, SingleInv, CheckedInv
  <2>4. CASE ~IsMultiMode
    <3>1. stage' \in {"failed", "single"}
      BY <1>1, <2>4 DEF Load
    <3> QED
      BY <2>1, <2>2, <2>4, <3>1, InputsSettle
         DEF MultiInv, SingleInv, CheckedInv
  <2> QED
    BY <2>3, <2>4
<1>2. CASE RunSingle
  <2>1. /\ UNCHANGED <<command, config, checked>>
        /\ stage = "single" /\ ~IsMultiMode
    BY <1>2 DEF RunSingle, MultiInv
  <2>2. DOMAIN checked' = {}
    BY <2>1 DEF TypeInv, InputsInv
  <2>3. \/ stage' = "failed"
        \/ stage' = "running" /\ SingleResolves /\ results' = SingleResults
    BY <1>2 DEF RunSingle, Fail, SingleResults
  <2> QED
    BY <2>1, <2>2, <2>3, InputsSettle DEF MultiInv, SingleInv, CheckedInv
<1>3. ASSUME NEW s \in Services, ResolveNext(s) PROVE ResolvedInv'
  <2>1. /\ UNCHANGED <<command, config, checked>>
        /\ stage = "multi" /\ IsMultiMode
        /\ s \in left /\ s \in Keys /\ left' = left \ {s}
    BY <1>3 DEF ResolveNext, SingleInv, TypeInv, TypeOK
  <2>2. DOMAIN checked' = {}
    BY <2>1 DEF TypeInv, InputsInv
  <2>3. s \in Wanted <=> ~Skipped(s)
    BY <2>1 DEF Wanted, Skipped
  <2>4. /\ results = MultiResults(Wanted \ left)
        /\ \A t \in Wanted \ left : Complete(t)
    BY <2>1 DEF MultiInv
  <2>5. CASE Skipped(s) /\ UNCHANGED <<stage, results>>
    <3>1. Wanted \ left' = Wanted \ left
      BY <2>1, <2>3, <2>5
    <3> QED
      BY <2>1, <2>2, <2>4, <2>5, <3>1, InputsSettle
         DEF MultiInv, SingleInv, CheckedInv
  <2>6. CASE /\ ~Skipped(s)
             /\ Resolvable(config.servers[s])
             /\ results' = [t \in DOMAIN results \cup {s} |->
                    IF t = s THEN ResolveOne(command.sets, config.servers[s])
                    ELSE results[t]]
             /\ UNCHANGED stage
    <3>1. Wanted \ left' = (Wanted \ left) \cup {s}
      BY <2>1, <2>3, <2>6
    <3>2. results' = MultiResults(Wanted \ left')
      BY <2>4, <2>6, <3>1 DEF MultiResults
    <3>3. Complete(s)
      BY <2>6 DEF Complete, Resolvable
    <3> QED
      BY <2>1, <2>2, <2>4, <2>6, <3>1, <3>2, <3>3, InputsSettle
         DEF MultiInv, SingleInv, CheckedInv
  <2>7. CASE /\ ~Skipped(s)
             /\ ~Resolvable(config.servers[s])
             /\ stage' = "failed"
    <3>1. s \in Wanted /\ ~Complete(s)
      BY <2>3, <2>7 DEF Complete, Resolvable
    <3> QED
      BY <2>1, <2>2, <2>7, <3>1, InputsSettle
         DEF MultiInv, SingleInv, CheckedInv
  <2> QED
    BY <1>3, <2>5, <2>6, <2>7 DEF ResolveNext
<1>4. CASE RunMulti
  <2>1. /\ UNCHANGED <<command, config, checked>>
        /\ stage = "multi" /\ left = {} /\ IsMultiMode
    BY <1>4 DEF RunMulti, SingleInv
  <2>2. DOMAIN checked' = {}
    BY <2>1 DEF TypeInv, InputsInv
  <2>3. results = MultiResults(Wanted \ left)
    BY <2>1 DEF MultiInv
  <2>4. results = NoResults <=> Wanted = {}
    <3>1. DOMAIN results = Wanted
      BY <2>1, <2>3 DEF MultiResults
    <3>2. DOMAIN NoResults = {}
      BY DEF NoResults
    <3>3. Wanted = {} => results = NoResults
      BY <2>1, <2>3 DEF MultiResults, NoResults
    <3> QED
      BY <3>1, <3>2, <3>3
  <2>5. \/ stage' = "failed" /\ Wanted = {}
        \/ stage' = "running" /\ Wanted # {} /\ UNCHANGED <<left, results>>
    BY <1>4, <2>4 DEF RunMulti, Fail
  <2> QED
    BY <2>1, <2>2, <2>5, InputsSettle DEF MultiInv, SingleInv, CheckedInv
<1>5. ASSUME NEW s \in Services \cup {Nameless}, Health(s) PROVE ResolvedInv'
  <2>1. /\ UNCHANGED <<command, config, stage, left, results>>
        /\ s \in DOMAIN results
        /\ Required \subseteq HealthOptions \cup SingleServer(s).sets
        /\ checked' = [t \in DOMAIN checked \cup {s} |->
               IF t = s
               THEN ResolveParams(HealthOptions, SingleServer(s)).socket
               ELSE checked[t]]
    BY <1>5 DEF Health, Unchecked
  <2>2. MultiInv' /\ SingleInv'
    BY <2>1, InputsSettle DEF MultiInv, SingleInv
  <2>3. CheckedInv'
    BY <2>1, InputsSettle, SocketResolved DEF CheckedInv
  <2> QED
    BY <2>2, <2>3
<1>6. CASE UNCHANGED vars
  BY <1>6, InputsSettle DEF vars, MultiInv, SingleInv, CheckedInv
<1> QED
  BY <1>1, <1>2, <1>3, <1>4, <1>5, <1>6 DEF Next

-----------------------------------------------------------------------------
(* The order in which the services are visited decides nothing: all the    *)
(* selected ones start or none does (resolve_params_multi, async_main).    *)
THEOREM AllOrNothingCorrect == Spec => []AllOrNothing
<1>1. ResolvedInv => AllOrNothing
  <2> SUFFICES ASSUME ResolvedInv, IsMultiMode
               PROVE  /\ stage = "running" =>
                             /\ Wanted # {}
                             /\ \A s \in Wanted : Complete(s)
                             /\ DOMAIN results = Wanted
                      /\ stage = "failed" =>
                             Wanted = {} \/ ~(\A s \in Wanted : Complete(s))
    BY DEF AllOrNothing, Complete
  <2> QED
    BY DEF ResolvedInv, MultiInv, MultiResults
<1> QED
  BY TypeInit, TypeNext, ResolvedInit, ResolvedNext, <1>1, PTL DEF Spec

(* A service resolves alike alone and with the others, unless the command  *)
(* line says what it is or contradicts the file on the tray                *)
(* (resolve_params, resolve_params_multi).                                 *)
THEOREM ModesAgreeCorrect == Spec => []ModesAgree
<1>1. ResolvedInv => ModesAgree
  <2> SUFFICES ASSUME ResolvedInv, stage = "running", IsMultiMode,
                      command.sets \cap OnlySingle = {},
                      NEW s \in DOMAIN results,
                      "service_name" \in config.servers[s].sets,
                      ~("tray_enabled" \in command.sets
                        /\ "tray_enabled" \in config.servers[s].sets
                        /\ ~config.servers[s].tray)
               PROVE  results[s]
                        = ResolveParams(command.sets, config.servers[s])
    BY DEF ModesAgree
  <2>1. s \in Wanted /\ results[s] = ResolveOne(command.sets, config.servers[s])
    BY DEF ResolvedInv, MultiInv, MultiResults
  <2>2. Required \subseteq config.servers[s].sets
    BY <2>1 DEF ResolvedInv, MultiInv, Complete
  <2> QED
    BY <2>1, <2>2, ModesResolveAlike
<1> QED
  BY TypeInit, TypeNext, ResolvedInit, ResolvedNext, <1>1, PTL DEF Spec

(* The defaults agree: the command line alone resolves to what the library *)
(* makes of the same settings (MuxConfig::new, Cli, resolve_params).       *)
THEOREM LibraryAgreesCorrect == Spec => []LibraryAgrees
<1>1. TypeInv /\ ResolvedInv => LibraryAgrees
  <2> SUFFICES ASSUME TypeInv, ResolvedInv, stage = "running", ~HasConfig
               PROVE  results[Nameless] = FromMuxConfig(command.sets)
    BY DEF LibraryAgrees
  <2>1. SingleResolves /\ results = SingleResults
    BY DEF ResolvedInv, SingleInv, IsMultiMode
  <2>2. SingleKey = Nameless /\ SingleServer(Nameless) = NoServer
    BY DEF SingleKey, SingleServer
  <2>3. Required \subseteq command.sets
    BY <2>1, <2>2 DEF SingleResolves, NoServer
  <2>4. command.sets \subseteq CliSettings
    BY InputTypes DEF TypeInv, InputsInv
  <2>5. results[Nameless] = ResolveParams(command.sets, NoServer)
    BY <2>1, <2>2 DEF SingleResults
  <2> QED
    BY <2>3, <2>4, <2>5, ResolvesAsBuilt
<1> QED
  BY TypeInit, TypeNext, ResolvedInit, ResolvedNext, <1>1, PTL DEF Spec

(* A health check with the options of the run looks at the socket the run  *)
(* serves, unless these name one the multi-service mode ignores            *)
(* (run_health).                                                           *)
THEOREM HealthCorrect == Spec => []HealthReachesService
<1>1. TypeInv /\ ResolvedInv => HealthReachesService
  <2> SUFFICES ASSUME TypeInv, ResolvedInv, NEW s \in DOMAIN checked,
                      ~(IsMultiMode /\ "socket" \in command.sets)
               PROVE  checked[s] = results[s].socket
    BY DEF HealthReachesService
  <2>1. /\ s \in DOMAIN results
        /\ "socket" \in HealthOptions \cup SingleServer(s).sets
        /\ checked[s] = SingleSocket(command.sets, SingleServer(s))
    BY DEF ResolvedInv, CheckedInv, Required, HealthOptions
  <2>2. stage = "running"
    BY DEF TypeInv, InputsInv
  <2>3. CASE IsMultiMode
    <3>1. results[s].socket = File
      BY <2>1, <2>2, <2>3, SocketResolved
         DEF ResolvedInv, MultiInv, MultiResults
    <3>2. "socket" \notin command.sets /\ "socket" \in SingleServer(s).sets
      BY <2>1, <2>3 DEF HealthOptions
    <3> QED
      BY <2>1, <3>1, <3>2 DEF SingleSocket, CliFirst, FileOr
  <2>4. CASE ~IsMultiMode
    BY <2>1, <2>2, <2>4, SocketResolved
       DEF ResolvedInv, SingleInv, SingleResults
  <2> QED
    BY <2>3, <2>4
<1> QED
  BY TypeInit, TypeNext, ResolvedInit, ResolvedNext, <1>1, PTL DEF Spec
=============================================================================
