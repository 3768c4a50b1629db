-------------------------------- MODULE Setup --------------------------------
(***************************************************************************)
(* The set-up tools on one set of files: scan, rewire and the wizard, one  *)
(* after the other, each of which may be killed at any moment.             *)
(***************************************************************************)
EXTENDS Wizard

CONSTANTS
    Scenes,  \* bound: [tools, contents, toml, running, dry, edits] of a start
    MaxCuts  \* bound: the writes that are cut short where the rest parses

ASSUME ScenesAssumption ==
    \A scene \in Scenes :
        /\ scene.tools \subseteq {"commands", "wizard"}
        /\ DOMAIN scene.contents = Paths
        /\ \A p \in Paths : MayHold(p, scene.contents[p])
        /\ scene.toml \subseteq Paths
        /\ scene.running \subseteq Names
        /\ scene.dry \in BOOLEAN
        /\ scene.edits \in 0..MaxEdits

VARIABLES
    tools,  \* the tools that are used: "commands", "wizard", or both
    cuts    \* how many writes were cut short to something that parses

vars == <<fileVars, wizardVars, toml, tools, cuts>>

Init ==
    \E scene \in Scenes :
        /\ tools = scene.tools
        /\ cuts = 0
        /\ FilesInit(scene.contents, scene.toml)
        /\ WizardInit(scene.running, scene.dry, scene.edits)

Crash ==
    /\ program # "none"
    /\ BreaksOff

CutShort ==
    phase = "writing" /\ phase' = "idle" /\ file'[writing] \notin {Partial, data}

Next ==
    /\ \/ /\ "commands" \in tools
          /\ Command
          /\ UNCHANGED wizardVars
       \/ (Writes \/ WriteFails) /\ UNCHANGED wizardVars
       \/ "wizard" \in tools /\ WizardStep
       \/ Crash
    /\ cuts' = IF CutShort THEN cuts + 1 ELSE cuts
    /\ cuts' <= MaxCuts
    /\ UNCHANGED <<toml, tools>>

Spec == Init /\ [][Next]_vars

TypeOK == FilesTypeOK /\ WizardTypeOK

(* A host in JSON can be restored, however many attempts to rewire it were *)
(* broken off, and so can a configuration of the mux in JSON that only the *)
(* wizard writes (write_with_backup, persist_all).                         *)
AllRecoverable ==
    /\ \A h \in Hosts \ toml : Recoverable(h)
    /\ Mux \notin toml /\ "commands" \notin tools => Recoverable(Mux)

(* Scanning, then rewiring, with the commands.                             *)
CommandsAgree == "wizard" \notin tools => RewiredOnceAgrees

-----------------------------------------------------------------------------
(* "Rewire a host config to use rmcp-mux proxy (creates .bak backup)"      *)
(* (src/README.md:254): what a host said before is still somewhere.        *)
OriginalKept ==
    \A h \in Hosts :
        Whole(file[h]) /\ Whole(bak[h]) =>
            \A s \in DOMAIN file[h] \cap DOMAIN bak[h] :
                file[h][s].cmd # "proxy" \/ bak[h][s].cmd # "proxy"
(* The same of an attempt that was broken off and repeated: a service a    *)
(* host named is named by its file or by its backup.  A host in TOML may   *)
(* lose it from both.                                                      *)
ServicesKept ==
    \A h \in Hosts, s \in Names :
        Whole(file[h]) /\ s \in DOMAIN file[h] =>
            [](\E content \in {file[h], bak[h]} :
                  Whole(content) /\ s \in DOMAIN content)
(* The manifest tells the mux which servers to run.                        *)
ManifestRunsServers ==
    Whole(file[Mux]) => \A s \in DOMAIN file[Mux] : file[Mux][s].cmd # "proxy"
(* "Whether this server is selected for inclusion in mux config"           *)
(* (src/src/wizard/types.rs:89).                                           *)
OnlySelectedSaved ==
    [][saving # "no" /\ file'[Mux] # file[Mux] /\ Whole(file'[Mux]) =>
          DOMAIN file'[Mux] = {app.services[i].name : i \in Selected(app.services)}
      ]_vars
(* An edit is kept until the wizard is left.                               *)
EditsKept ==
    [][app.form.dirty /\ ~app'.form.dirty /\ program' = "wizard" =>
          app'.services[app.selected_service].name = app.form.name]_vars
(* "Save all" rewires the chosen hosts.                                    *)
SaveAllRewires ==
    [][saving = "no" /\ saving' # "no" /\ app.confirm_choice = "SaveAll" =>
          saving' = "all"]_vars
=============================================================================
