------------------------------ MODULE MCLaunch ------------------------------
(* One setting more or less than a small or a full command line and entry.  *)
EXTENDS Launch

Near(base, all) ==
    {base} \cup {base \cup {p} : p \in all} \cup {base \ {p} : p \in all}

MCCommands ==
    LET sets == Near({}, CliSettings) \cup Near(Required, CliSettings)
                \cup {CliSettings}
        filters == {Nobody, {CHOOSE s \in Services : TRUE}}
    IN [sets : sets, service : Services \cup {Nobody}, only : filters,
        except : filters]

MCConfigs ==
    LET some == Near(Required, FileSettings) \cup Near(FileSettings, FileSettings)
        first == {[sets |-> sets, tray |-> FALSE] : sets \in some}
                 \cup {[sets |-> Required \cup {"tray_enabled"}, tray |-> TRUE]}
        second == {[sets |-> sets, tray |-> FALSE] :
                      sets \in {Required, {"socket"}}}
        pick == CHOOSE s \in Services : TRUE
    IN {[file |-> file, servers |-> [s \in {} |-> NoServer]] :
           file \in {"absent", "broken", "present"}}
       \cup {[file |-> "present", servers |-> [s \in {pick} |-> server]] :
           server \in first}
       \cup {[file |-> "present", servers |->
               [s \in Services |-> IF s = pick THEN a ELSE b]] :
           a \in first, b \in second}
=============================================================================
