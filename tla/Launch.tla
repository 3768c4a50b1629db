-------------------------------- MODULE Launch --------------------------------
(***************************************************************************)
(* From a command line and a configuration file to the parameters of the   *)
(* muxes that are started (src/src/bin/rmcp_mux.rs, src/src/config.rs), and *)
(* what the library's MuxConfig makes of the same settings                 *)
(* (src/src/lib.rs).                                                       *)
(*                                                                         *)
(* A setting is given on the command line, in the file or nowhere; what a  *)
(* parameter resolves to is where its value is from, and the value itself  *)
(* only when it is a default.  Log levels parse.                           *)
(***************************************************************************)
EXTENDS Integers

CONSTANTS
    Services,  \* the keys a configuration can have
    Commands,  \* the command lines: [sets, service, only, except]
    Configs,   \* what is at the configuration path: [file, servers]
    Nobody,    \* no such option
    Nameless   \* the one service of a run without configuration

\* What the command line can set, and what servers.<name> can.
CliSettings == {"socket", "cmd", "args", "max_clients", "tray_enabled",
    "log_level", "service_name", "lazy_start", "max_request_bytes",
    "request_timeout", "restart_backoff", "restart_backoff_max",
    "max_restarts", "status_file", "heartbeat_interval", "heartbeat_timeout",
    "heartbeat_max_failures", "heartbeat_enabled"}
FileSettings == CliSettings \cup {"env"}

\* tray: what the file says if it sets tray_enabled; the option only says yes.
ServerConfig == [sets : SUBSET FileSettings, tray : BOOLEAN]

ASSUME CommandsAssumption ==
    Commands \subseteq [sets : SUBSET CliSettings,
                        service : Services \cup {Nobody},
                        only : {Nobody} \cup SUBSET Services,
                        except : {Nobody} \cup SUBSET Services]
ASSUME NamesAssumption ==
    Nobody \notin Services /\ Nameless \notin Services
ASSUME ConfigsAssumption ==
    \A config \in Configs :
        /\ config.file \in {"absent", "broken", "present"}
        /\ DOMAIN config.servers \subseteq Services
        /\ \A s \in DOMAIN config.servers : config.servers[s] \in ServerConfig

VARIABLES
    command,  \* the command line of this run
    config,   \* what load_config finds
    stage,    \* where the run is
    left,     \* the services resolve_params_multi has still to visit
    results,  \* the resolved parameters of each service
    checked   \* the socket a health check of each service connected to

vars == <<command, config, stage, left, results, checked>>

-----------------------------------------------------------------------------
(* The value of one parameter.                                             *)
Cli == [from |-> "cli"]
File == [from |-> "file"]
Key == [from |-> "key"]
Stem(socket) == [from |-> "stem", of |-> socket.from]
Default(value) == [from |-> "default", is |-> value]

NoServer == [sets |-> {}, tray |-> FALSE]

FileOr(server, p, otherwise) == IF p \in server.sets THEN File ELSE otherwise

\* cli.p().or(server.p).unwrap_or(default)
CliFirst(cli, server, p, default) ==
    IF p \in cli THEN Cli ELSE FileOr(server, p, Default(default))

\* server.p.unwrap_or(cli.p()): the option has a default of its own.
FileFirst(cli, server, p, default) ==
    FileOr(server, p, IF p \in cli THEN Cli ELSE Default(default))

-----------------------------------------------------------------------------
(* The defaults of the command line, then the three resolutions.           *)
MaxActiveClients == 5
LogLevel == "info"

\* A value must be there already: a missing socket or cmd is an error before.
SingleSocket(cli, server) == CliFirst(cli, server, "socket", "missing")

SingleTray(cli, server) ==
    \/ "tray_enabled" \in cli
    \/ "tray_enabled" \in server.sets /\ server.tray

SingleName(cli, server) ==
    IF "service_name" \in cli THEN Cli
    ELSE FileOr(server, "service_name", Stem(SingleSocket(cli, server)))

ResolveParams(cli, server) ==
    [ socket |-> SingleSocket(cli, server),
      cmd |-> CliFirst(cli, server, "cmd", "missing"),
      args |-> CliFirst(cli, server, "args", <<>>),
      env |-> FileOr(server, "env", Default(<<>>)),
      max_clients |-> FileFirst(cli, server, "max_clients", MaxActiveClients),
      tray_enabled |-> SingleTray(cli, server),
      log_level |-> FileFirst(cli, server, "log_level", LogLevel),
      service_name |-> SingleName(cli, server),
      lazy_start |-> CliFirst(cli, server, "lazy_start", "off"),
      max_request_bytes |-> CliFirst(cli, server, "max_request_bytes", 1048576),
      request_timeout |-> CliFirst(cli, server, "request_timeout", 30000),
      restart_backoff |-> CliFirst(cli, server, "restart_backoff", 1000),
      restart_backoff_max |->
          CliFirst(cli, server, "restart_backoff_max", 30000),
      max_restarts |-> CliFirst(cli, server, "max_restarts", 5),
      status_file |-> CliFirst(cli, server, "status_file", "none"),
      heartbeat_interval |-> CliFirst(cli, server, "heartbeat_interval", 30000),
      heartbeat_timeout |-> CliFirst(cli, server, "heartbeat_timeout", 30000),
      heartbeat_max_failures |->
          CliFirst(cli, server, "heartbeat_max_failures", 3),
      heartbeat_enabled |-> CliFirst(cli, server, "heartbeat_enabled", "on") ]

MultiTrayWrong(cli, server) == "tray_enabled" \in server.sets /\ server.tray
MultiTray(cli, server) ==
    \/ "tray_enabled" \in server.sets /\ server.tray
    \/ "tray_enabled" \notin server.sets /\ "tray_enabled" \in cli

\* What a service is, only its entry says.
ResolveOne(cli, server) ==
    [ socket |-> File,
      cmd |-> File,
      args |-> FileOr(server, "args", Default(<<>>)),
      env |-> FileOr(server, "env", Default(<<>>)),
      max_clients |-> FileFirst(cli, server, "max_clients", MaxActiveClients),
      tray_enabled |-> MultiTray(cli, server),
      log_level |-> FileFirst(cli, server, "log_level", LogLevel),
      service_name |-> FileOr(server, "service_name", Key),
      lazy_start |-> CliFirst(cli, server, "lazy_start", "off"),
      max_request_bytes |-> CliFirst(cli, server, "max_request_bytes", 1048576),
      request_timeout |-> CliFirst(cli, server, "request_timeout", 30000),
      restart_backoff |-> CliFirst(cli, server, "restart_backoff", 1000),
      restart_backoff_max |->
          CliFirst(cli, server, "restart_backoff_max", 30000),
      max_restarts |-> CliFirst(cli, server, "max_restarts", 5),
      status_file |-> CliFirst(cli, server, "status_file", "none"),
      heartbeat_interval |-> CliFirst(cli, server, "heartbeat_interval", 30000),
      heartbeat_timeout |-> CliFirst(cli, server, "heartbeat_timeout", 30000),
      heartbeat_max_failures |->
          CliFirst(cli, server, "heartbeat_max_failures", 3),
      heartbeat_enabled |-> CliFirst(cli, server, "heartbeat_enabled", "on") ]

\* MuxConfig::new, its setters, and From<MuxConfig>.
Built(given, p, default) == IF p \in given THEN Cli ELSE Default(default)
BuiltTray(given) == "tray_enabled" \in given
BuiltName(given) == IF "service_name" \in given THEN Cli ELSE Stem(Cli)

FromMuxConfig(given) ==
    [ socket |-> Cli,
      cmd |-> Cli,
      args |-> Built(given, "args", <<>>),
      env |-> Built(given, "env", <<>>),
      max_clients |-> Built(given, "max_clients", 5),
      tray_enabled |-> BuiltTray(given),
      log_level |-> Built(given, "log_level", "info"),
      service_name |-> BuiltName(given),
      lazy_start |-> Built(given, "lazy_start", "off"),
      max_request_bytes |-> Built(given, "max_request_bytes", 1048576),
      request_timeout |-> Built(given, "request_timeout", 30 * 1000),
      restart_backoff |-> Built(given, "restart_backoff", 1 * 1000),
      restart_backoff_max |-> Built(given, "restart_backoff_max", 30 * 1000),
      max_restarts |-> Built(given, "max_restarts", 5),
      status_file |-> Built(given, "status_file", "none"),
      heartbeat_interval |-> Built(given, "heartbeat_interval", 30 * 1000),
      heartbeat_timeout |-> Built(given, "heartbeat_timeout", 30 * 1000),
      heartbeat_max_failures |-> Built(given, "heartbeat_max_failures", 3),
      heartbeat_enabled |-> Built(given, "heartbeat_enabled", "on") ]

-----------------------------------------------------------------------------
(* A run of the binary.                                                    *)
Required == {"socket", "cmd"}
Keys == DOMAIN config.servers
HasConfig == config.file = "present"
NoResults == [s \in {} |-> ResolveOne({}, NoServer)]

Init ==
    /\ command \in Commands
    /\ config \in Configs
    /\ stage = "loading"
    /\ left = {}
    /\ results = NoResults
    /\ checked = [s \in {} |-> Cli]

Fail == stage' = "failed" /\ UNCHANGED <<left, results>>

IsMultiMode ==
    /\ HasConfig
    /\ command.service = Nobody
    /\ \/ command.only # Nobody
       \/ command.except # Nobody
       \/ "socket" \notin command.sets

\* load_config, and the choice of the mode.
Load ==
    /\ stage = "loading"
    /\ stage' = IF config.file = "broken" THEN "failed"
                ELSE IF IsMultiMode THEN "multi" ELSE "single"
    /\ left' = IF IsMultiMode THEN Keys ELSE {}
    /\ UNCHANGED <<command, config, results, checked>>

SingleKey == IF HasConfig THEN command.service ELSE Nameless
SingleServer(key) ==
    IF key = Nameless THEN NoServer ELSE config.servers[key]

SingleResolves ==
    /\ HasConfig => command.service \in Keys
    /\ Required \subseteq command.sets \cup SingleServer(SingleKey).sets

RunSingle ==
    /\ stage = "single"
    /\ IF SingleResolves
       THEN /\ stage' = "running"
            /\ results' = [s \in {SingleKey} |->
                   ResolveParams(command.sets, SingleServer(s))]
            /\ UNCHANGED left
       ELSE Fail
    /\ UNCHANGED <<command, config, checked>>

Skipped(s) ==
    \/ command.only # Nobody /\ s \notin command.only
    \/ command.except # Nobody /\ s \in command.except

ResolvableWrong(server) == "socket" \in server.sets
Resolvable(server) == Required \subseteq server.sets

\* The next entry of the hash map, whichever that is.
ResolveNext(s) ==
    /\ stage = "multi"
    /\ s \in left
    /\ \/ Skipped(s) /\ UNCHANGED <<stage, results>>
       \/ /\ ~Skipped(s)
          /\ Resolvable(config.servers[s])
          /\ results' = [t \in DOMAIN results \cup {s} |->
                 IF t = s THEN ResolveOne(command.sets, config.servers[s])
                 ELSE results[t]]
          /\ UNCHANGED stage
       \/ /\ ~Skipped(s)
          /\ ~Resolvable(config.servers[s])
          /\ stage' = "failed"
          /\ UNCHANGED results
    /\ left' = left \ {s}
    /\ UNCHANGED <<command, config, checked>>

RunMulti ==
    /\ stage = "multi"
    /\ left = {}
    /\ IF results # NoResults
       THEN stage' = "running" /\ UNCHANGED <<left, results>>
       ELSE Fail
    /\ UNCHANGED <<command, config, checked>>

Unchecked == DOMAIN results \ DOMAIN checked

HealthOptionsWrong == command.sets \ {"socket"}
\* HealthArgs takes every option of a run.
HealthOptions == command.sets

\* rmcp_mux health, with the same options and --service for one of several.
Health(s) ==
    /\ stage = "running"
    /\ s \in Unchecked
    /\ Required \subseteq HealthOptions \cup SingleServer(s).sets
    /\ checked' = [t \in DOMAIN checked \cup {s} |->
           IF t = s THEN ResolveParams(HealthOptions, SingleServer(s)).socket
           ELSE checked[t]]
    /\ UNCHANGED <<command, config, stage, left, results>>

Next ==
    \/ Load
    \/ RunSingle
    \/ \E s \in Services : ResolveNext(s)
    \/ RunMulti
    \/ \E s \in Services \cup {Nameless} : Health(s)

Spec == Init /\ [][Next]_vars

-----------------------------------------------------------------------------
Parameters == DOMAIN ResolveOne({}, NoServer)

(* Every variable keeps its type, and every service resolves to one value  *)
(* for each parameter.                                                     *)
TypeOK ==
    /\ stage \in {"loading", "single", "multi", "running", "failed"}
    /\ left \subseteq Keys
    /\ DOMAIN results \subseteq Keys \cup {Nameless}
    /\ \A s \in DOMAIN results : DOMAIN results[s] = Parameters
    /\ DOMAIN checked \subseteq DOMAIN results

Wanted == {s \in Keys :
    (command.only # Nobody => s \in command.only) /\
    (command.except # Nobody => s \notin command.except)}

(* The order in which the hash map yields the services decides nothing:    *)
(* all the selected ones start, or, when one of them is incomplete or none *)
(* is selected, none (resolve_params_multi, async_main).                   *)
AllOrNothing ==
    IsMultiMode =>
        LET complete == \A s \in Wanted : Required \subseteq config.servers[s].sets
        IN /\ stage = "running" =>
                 Wanted # {} /\ complete /\ DOMAIN results = Wanted
           /\ stage = "failed" => Wanted = {} \/ ~complete

\* The settings whose treatment differs in the two modes, by the code.
OnlySingle == {"socket", "cmd", "args", "service_name"}

(* A service resolves to the same parameters whether it is started alone   *)
(* or with the others, as long as the command line does not say what the   *)
(* service is or contradicts the file on the tray, and the file names it   *)
(* (resolve_params, resolve_params_multi).                                 *)
ModesAgree ==
    stage = "running" /\ IsMultiMode /\ command.sets \cap OnlySingle = {} =>
        \A s \in DOMAIN results :
            /\ "service_name" \in config.servers[s].sets
            /\ ~("tray_enabled" \in command.sets
                 /\ "tray_enabled" \in config.servers[s].sets
                 /\ ~config.servers[s].tray)
            => results[s] = ResolveParams(command.sets, config.servers[s])

(* What the command line resolves to without a configuration is what the   *)
(* library makes of the same settings: the defaults, which are written     *)
(* down three times, agree (MuxConfig::new, Cli, resolve_params).          *)
LibraryAgrees ==
    stage = "running" /\ ~HasConfig =>
        results[Nameless] = FromMuxConfig(command.sets)

(* A health check given the options of a run looks at the socket the run   *)
(* serves, unless these name a socket that the multi-service mode ignores  *)
(* (run_health).                                                           *)
HealthReachesService ==
    \A s \in DOMAIN checked :
        ~(IsMultiMode /\ "socket" \in command.sets)
            => checked[s] = results[s].socket

-----------------------------------------------------------------------------
(* "Merges CLI flags and config values, giving CLI precedence when both    *)
(* are present" (src/docs/dev/guidelines.md:227).                          *)
CliTakesPrecedence ==
    \A s \in DOMAIN results : \A p \in Parameters \ {"tray_enabled"} :
        p \in command.sets => results[s][p] = Cli
(* A health check looks at the socket of the service it is asked about.    *)
HealthAlwaysReachesService ==
    \A s \in DOMAIN checked : checked[s] = results[s].socket
=============================================================================
