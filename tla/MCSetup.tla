------------------------------ MODULE MCSetup -------------------------------
(* Two hosts for the commands, at most one for the wizard, each in TOML and  *)
(* in JSON; the dry run is the one that finds no configuration, and with     *)
(* TOML files nothing is typed in the wizard.                                *)
EXTENDS Setup

Own(s) == [cmd |-> s, socket |-> "none", dest |-> "none"]
OwnAt(s) == [cmd |-> s, socket |-> "own", dest |-> "none"]
Broken == [cmd |-> "none", socket |-> "none", dest |-> "none"]
Host(S, T) == [s \in S \cup T |-> IF s \in S THEN Own(s) ELSE OwnAt(s)]

MCNames == {"files", "memory"}
MCNameRank == [n \in MCNames |-> IF n = "files" THEN 1 ELSE 2]
MCFresh == <<"files", "memory">>
MCRank == CHOOSE r \in [Hosts -> 1..Cardinality(Hosts)] :
              \A g, h \in Hosts : r[g] = r[h] => g = h
First == CHOOSE h \in Hosts : MCRank[h] = 1

Contents(mux, first, others) ==
    [p \in Paths |-> IF p = Mux THEN mux ELSE IF p = First THEN first ELSE others]

Configured == [s \in {"files"} |-> [cmd |-> s, socket |-> "own", rest |-> "kept"]]

MCScenes ==
    {[tools |-> {"commands"}, contents |-> Contents(Missing, a, b),
      toml |-> formats, running |-> {}, dry |-> FALSE, edits |-> 0] :
        formats \in {{}, {First, Mux}},
        a \in {Host({"files"}, {}), Host({}, {"files"}), Host({"memory"}, {"files"})},
        b \in {Missing, Host({"memory"}, {}), Host({}, {"files"}),
               [s \in {"memory"} |-> Broken]}}
    \cup
    {[tools |-> {"wizard"}, contents |-> Contents(scene.mux, scene.host, Missing),
      toml |-> scene.toml, running |-> {"memory"}, dry |-> scene.mux = Missing,
      edits |-> IF scene.toml = {} THEN 0 ELSE MaxEdits] :
        scene \in {[mux |-> Configured, toml |-> {}, host |-> Host({"files"}, {})],
                   [mux |-> Missing, toml |-> {}, host |-> Host({"files"}, {})],
                   [mux |-> Configured, toml |-> {First}, host |-> Host({"files"}, {})],
                   [mux |-> Configured, toml |-> {Mux}, host |-> Missing]}}
=============================================================================
