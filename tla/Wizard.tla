-------------------------------- MODULE Wizard --------------------------------
(***************************************************************************)
(* The set-up wizard (src/src/wizard): one action per key and outcome, on  *)
(* the record app, which is its AppState.  A save writes the configuration *)
(* of the mux and then the chosen hosts, through the steps of HostFiles;   *)
(* meanwhile no key is read.                                               *)
(*                                                                         *)
(* Of the fields of the form two are kept: the name, for all text fields,  *)
(* and the tray switch.                                                    *)
(***************************************************************************)
EXTENDS HostFiles

CONSTANTS
    NameRank,     \* the places of the names in alphabetical order
    FreshName,    \* new-service-N, for the N-th entry of the list
    DefaultName,  \* general-memory
    Installed,    \* the hosts whose application is installed
    MaxServices,  \* bound: the entries in the list
    MaxEdits      \* bound: the changes of the form

ASSUME WizardAssumption ==
    /\ NameRank \in [Names -> Nat]
    /\ \A m, n \in Names : NameRank[m] = NameRank[n] => m = n
    /\ DefaultName \in Names
    /\ MaxServices \in Nat \ {0}
    /\ MaxEdits \in Nat
    /\ FreshName \in [1..MaxServices -> Names]
    /\ Installed \subseteq Hosts

VARIABLES
    app,      \* the state of the wizard
    saving,   \* what the save under way was asked for, or "no"
    detected, \* the servers that ps shows
    dryRuns,  \* the wizard is started with --dry-run
    edits     \* how often the form was changed

wizardVars == <<app, saving, detected, dryRuns, edits>>

Fields == <<"ServiceName", "Tray">>
\* CopyToClipboard changes nothing that is kept here.
Choices == <<"SaveAll", "SaveMuxOnly", "Back", "Exit">>

\* The neighbours in a sequence, which wraps around; +1 or -1.
Turn(seq, x, by) ==
    LET i == CHOOSE j \in 1..Len(seq) : seq[j] = x
    IN seq[((i - 1 + by + Len(seq)) % Len(seq)) + 1]

-----------------------------------------------------------------------------
(* Services, the form, clients.                                            *)
Service(name, config) == [name |-> name, config |-> config, selected |-> TRUE]

Config(n) == [cmd |-> n, socket |-> "wizard", rest |-> "default"]
DefaultConfig == Config(DefaultName)

\* load_all_services: the configuration, then the servers that run and are not
\* in it by name or command, both by name.
LoadAllServices(content) ==
    LET configured == IF Whole(content) THEN DOMAIN content ELSE {}
        unknown == {n \in detected :
                       \A c \in configured : n # c /\ content[c].cmd # n}
        entry(n) == Service(n, IF n \in configured THEN content[n]
                               ELSE Config(n))
        listed == Ranked(configured, NameRank) \o Ranked(unknown, NameRank)
    IN [i \in DOMAIN listed |-> entry(listed[i])]

FormFromService(service) ==
    [name |-> service.name, socket |-> service.config.socket, dirty |-> FALSE]

\* Everything the form does not show is reset to its default.
ServiceFromForm(form, service) ==
    [service EXCEPT !.name = form.name,
                    !.config = [cmd |-> @.cmd, socket |-> form.socket,
                                rest |-> "default"]]

\* detect_clients: a file that cannot be scanned counts as not rewired; behind
\* the files come the applications that are installed and have none.
DetectClients ==
    LET rewired(h) == /\ Scannable(file[h])
                      /\ \E s \in DOMAIN file[h] : file[h][s].cmd = "proxy"
        found == {h \in Hosts : file[h] # Missing}
        listed == Ranked(found, Rank) \o Ranked(Installed \ found, Rank)
    IN [i \in DOMAIN listed |->
           [host |-> listed[i], selected |-> ~rewired(listed[i]),
            already_rewired |-> rewired(listed[i])]]

Selected(entries) == {i \in DOMAIN entries : entries[i].selected}
Toggle(entries, i) == [entries EXCEPT ![i].selected = ~@]

SyncForm(a) ==
    LET k == a.selected_service
        stored == [a.services EXCEPT ![k] = ServiceFromForm(a.form, @)]
    IN IF a.form.dirty
       THEN [a EXCEPT !.services = IF k \in DOMAIN a.services THEN stored ELSE @,
                      !.form.dirty = FALSE]
       ELSE a

LoadForm(a) ==
    IF a.selected_service \in DOMAIN a.services
    THEN [a EXCEPT !.form = FormFromService(a.services[a.selected_service])]
    ELSE a

\* persist_all writes every entry, selected or not; of two with one name the
\* later one stays.
ConfigOf(services) ==
    [n \in {services[i].name : i \in DOMAIN services} |->
        LET last == CHOOSE i \in DOMAIN services :
                        /\ services[i].name = n
                        /\ \A j \in DOMAIN services :
                              services[j].name = n => j <= i
        IN services[last].config]

Chosen(c) == c.selected /\ ~c.already_rewired

ToRewire(clients) ==
    LET chosen == {i \in DOMAIN clients : Chosen(clients[i])}
        todo == Ranked(chosen, [i \in chosen |-> i])
    IN [k \in DOMAIN todo |-> clients[todo[k]].host]

-----------------------------------------------------------------------------
(* run_wizard.                                                             *)
NoForm == [name |-> DefaultName, socket |-> "wizard", dirty |-> FALSE]

IdleApp ==
    [ wizard_step |-> "ServerSelection", services |-> <<>>,
      selected_service |-> 1, clients |-> <<>>, selected_client |-> 1,
      form |-> NoForm, current_field |-> "ServiceName", editing |-> "none",
      active_panel |-> "ServiceList", confirm_choice |-> "SaveAll",
      health_choice |-> "Ok", dry_run |-> FALSE ]

WizardInit(running, dry, done) ==
    /\ app = IdleApp
    /\ saving = "no"
    /\ detected = running
    /\ dryRuns = dry
    /\ edits = done

\* wanted: the argument of --service, or none.  A configuration that cannot be
\* loaded is an error; part of a TOML file may be one that can.
StartWizard(wanted) ==
    LET loaded == LoadAllServices(file[Mux])
        missing == wanted # "none"
                   /\ \A i \in DOMAIN loaded : loaded[i].name # wanted
        extended == IF missing THEN Append(loaded, Service(wanted, DefaultConfig))
                    ELSE loaded
        services == IF extended = <<>>
                    THEN <<Service(DefaultName, DefaultConfig)>> ELSE extended
        first == IF wanted = "none" THEN 1
                 ELSE CHOOSE i \in DOMAIN services :
                          /\ services[i].name = wanted
                          /\ \A j \in 1..(i - 1) : services[j].name # wanted
    IN /\ program = "none"
       /\ file[Mux] # Partial
       /\ program' = "wizard"
       /\ app' = LoadForm([IdleApp EXCEPT !.services = services,
                                          !.selected_service = first,
                                          !.dry_run = dryRuns])
       /\ UNCHANGED <<file, bak, queue, phase, data, saving, detected, dryRuns, edits>>

Reads == program = "wizard" /\ saving = "no"
Editing == app.editing # "none"
InDialog == app.active_panel = "ConfirmDialog"
Step(s) == app.wizard_step = s
On(s, p) == Step(s) /\ app.active_panel = p

Edits(a) ==
    /\ edits < MaxEdits
    /\ edits' = edits + 1
    /\ app' = [a EXCEPT !.form.dirty = TRUE]
    /\ UNCHANGED <<fileVars, saving, detected, dryRuns>>

\* The key changes app and nothing else.
Becomes(a) == app' = a /\ UNCHANGED <<fileVars, saving, detected, dryRuns, edits>>

\* Nothing of the wizard outlives it.
Forgets ==
    /\ app' = IdleApp
    /\ saving' = "no"
    /\ UNCHANGED <<detected, dryRuns, edits>>

\* The wizard ends.
Leaves == Ends /\ Forgets

\* It ends in the middle of a save.
BreaksOff == Stops /\ Interrupted /\ Forgets

-----------------------------------------------------------------------------
(* handle_key, outside the confirm dialog.                                 *)
Key == Reads /\ ~InDialog

KeyQuit == Key /\ ~Editing /\ Leaves

PlainSaves == ~Editing /\ app.active_panel # "Editor"

BeforeDialogWrong(a) == a
BeforeDialog(a) == SyncForm(a)

\* Ctrl-S, and plain s where it is not text.
KeySave(control) ==
    /\ Key
    /\ control \/ PlainSaves
    /\ Becomes([BeforeDialog(app) EXCEPT !.active_panel = "ConfirmDialog",
                                         !.confirm_choice = "SaveAll"])

MayTab == ~Editing

KeyTab ==
    /\ Key
    /\ MayTab
    /\ Becomes([app EXCEPT !.active_panel =
                   IF @ = "ServiceList" THEN "Editor" ELSE "ServiceList"])

AfterMoveWrong(a) == a
AfterMove(a) == LoadForm(a)

\* Up and Down: by is -1 or 1.
KeyArrow(by) ==
    /\ Key
    /\ ~Editing
    /\ \/ /\ On("ServerSelection", "ServiceList")
          /\ app.selected_service + by \in DOMAIN app.services
          /\ Becomes(AfterMove([SyncForm(app) EXCEPT !.selected_service = @ + by]))
       \/ /\ On("ServerSelection", "Editor")
          /\ Becomes([app EXCEPT !.current_field = Turn(Fields, @, by)])
       \/ /\ On("ClientSelection", "ServiceList")
          /\ app.selected_client + by \in DOMAIN app.clients
          /\ Becomes([app EXCEPT !.selected_client = @ + by])
       \/ /\ Step("Confirmation")
          /\ Becomes([app EXCEPT !.confirm_choice = Turn(Choices, @, by)])
       \/ /\ Step("HealthCheck")
          /\ Becomes([app EXCEPT !.health_choice =
                         IF @ = "Ok" THEN "TryAgain" ELSE "Ok"])

ToggleTray ==
    /\ On("ServerSelection", "Editor")
    /\ app.current_field = "Tray"
    /\ Edits(app)

ToggleClient ==
    /\ On("ClientSelection", "ServiceList")
    /\ app.selected_client \in DOMAIN app.clients
    /\ Becomes([app EXCEPT
           !.clients = Toggle(app.clients, app.selected_client)])

KeySpace ==
    /\ Key
    /\ \/ /\ On("ServerSelection", "ServiceList")
          /\ app.selected_service \in DOMAIN app.services
          /\ Becomes([app EXCEPT
                 !.services = Toggle(app.services, app.selected_service)])
       \/ ToggleTray
       \/ ToggleClient

\* What a text field can be made to say.
KeyText ==
    /\ Key
    /\ app.editing = "ServiceName"
    /\ \E n \in Names \ {app.form.name} : Edits([app EXCEPT !.form.name = n])

KeyEsc ==
    /\ Key
    /\ Editing
    /\ Becomes([app EXCEPT !.editing = "none"])

KeyNext ==
    /\ Key
    /\ ~Editing
    /\ \/ /\ Step("ServerSelection")
          /\ Selected(app.services) # {}
          /\ Becomes([SyncForm(app) EXCEPT !.wizard_step = "ClientSelection",
                                           !.clients = DetectClients,
                                           !.selected_client = 1,
                                           !.active_panel = "ServiceList"])
       \/ /\ Step("ClientSelection")
          /\ Becomes([app EXCEPT !.wizard_step = "Confirmation",
                                 !.active_panel = "ConfirmDialog",
                                 !.confirm_choice = "SaveAll"])

KeyPrevious ==
    /\ Key
    /\ ~Editing
    /\ \/ /\ Step("ClientSelection")
          /\ Becomes([app EXCEPT !.wizard_step = "ServerSelection",
                                 !.active_panel = "ServiceList"])
       \/ /\ Step("Confirmation")
          /\ Becomes([app EXCEPT !.wizard_step = "ClientSelection",
                                 !.active_panel = "ServiceList"])
       \/ /\ Step("HealthCheck")
          /\ Becomes([app EXCEPT !.wizard_step = "Confirmation",
                                 !.active_panel = "ConfirmDialog",
                                 !.confirm_choice = "SaveAll"])

\* The form is loaded without being synced: an edit under way is lost.
KeyAdd ==
    /\ Key
    /\ ~Editing
    /\ On("ServerSelection", "ServiceList")
    /\ Len(app.services) < MaxServices
    /\ LET n == Len(app.services) + 1
       IN Becomes(LoadForm([app EXCEPT
              !.services = Append(@, Service(FreshName[n], DefaultConfig)),
              !.selected_service = n]))

-----------------------------------------------------------------------------
(* Saving: persist_all, rewire_selected_clients.                           *)
Saves(why, paths) ==
    /\ saving' = why
    /\ queue' = paths
    /\ UNCHANGED <<file, bak, program, phase, data, app, detected, dryRuns, edits>>

SaveOrderWrong(clients) == clients \o <<Mux>>
SaveOrder(clients) == <<Mux>> \o clients

WizardWrites ==
    /\ saving # "no"
    /\ UNCHANGED wizardVars
    /\ \/ queue # <<>> /\ writing = Mux /\ Begin(ConfigOf(app.services))
       \/ RewireWrites("wizard")

\* persist_all returns an error: so does run_wizard.
PersistFails == saving # "no" /\ queue # <<>> /\ writing = Mux /\ BreaksOff

HealthStep ==
    [app EXCEPT !.wizard_step = "HealthCheck", !.active_panel = "ServiceList",
                !.health_choice = "Ok"]

Saved ==
    /\ saving # "no"
    /\ queue = <<>>
    /\ IF saving = "dialog" THEN Leaves
       ELSE /\ app' = HealthStep
            /\ saving' = "no"
            /\ UNCHANGED <<fileVars, detected, dryRuns, edits>>

Dry == app.dry_run

\* execute_confirm_choice; Enter elsewhere opens the editor, edits, toggles.
KeyEnter ==
    /\ Key
    /\ \/ /\ On("ServerSelection", "ServiceList")
          /\ Becomes([app EXCEPT !.active_panel = "Editor"])
       \/ ToggleTray
       \/ /\ On("ServerSelection", "Editor")
          /\ app.current_field # "Tray"
          /\ Becomes([app EXCEPT !.editing = app.current_field])
       \/ ToggleClient
       \/ /\ Step("Confirmation")
          /\ \/ /\ app.confirm_choice \in {"SaveAll", "SaveMuxOnly"}
                /\ IF Dry THEN Becomes(HealthStep)
                   ELSE IF app.confirm_choice = "SaveAll"
                   THEN Saves("all", SaveOrder(ToRewire(app.clients)))
                   ELSE Saves("mux", <<Mux>>)
             \/ /\ app.confirm_choice = "Back"
                /\ Becomes([app EXCEPT !.wizard_step = "ClientSelection",
                                       !.active_panel = "ServiceList"])
             \/ app.confirm_choice = "Exit" /\ Leaves
       \/ Step("HealthCheck") /\ app.health_choice = "Ok" /\ Leaves

CursorAfterReloadWrong(a) == a.selected_service
CursorAfterReload(a) == 1

\* execute_health_check_choice, TryAgain: a configuration that cannot be
\* loaded leaves the list as it is.
KeyTryAgain ==
    /\ Key
    /\ Step("HealthCheck")
    /\ app.health_choice = "TryAgain"
    /\ Becomes(LoadForm([app EXCEPT
           !.services = IF file[Mux] = Partial THEN @
                        ELSE LoadAllServices(file[Mux]),
           !.clients = <<>>,
           !.selected_client = 1,
           !.wizard_step = "ServerSelection",
           !.selected_service = CursorAfterReload(app),
           !.active_panel = "ServiceList",
           !.health_choice = "Ok"]))

-----------------------------------------------------------------------------
(* handle_confirm_dialog_key.                                              *)
DialogArrow(by) ==
    /\ Reads
    /\ InDialog
    /\ Becomes([app EXCEPT !.confirm_choice = Turn(Choices, @, by)])

DialogEnter ==
    /\ Reads
    /\ InDialog
    /\ \/ /\ app.confirm_choice \in {"SaveAll", "SaveMuxOnly"}
          /\ IF Dry THEN Leaves ELSE Saves("dialog", <<Mux>>)
       \/ app.confirm_choice = "Exit" /\ Leaves

DialogBack ==
    /\ Reads
    /\ InDialog
    /\ Becomes([app EXCEPT !.active_panel = "Editor"])

WizardStep ==
    \/ \E wanted \in Names \cup {"none"} : StartWizard(wanted)
    \/ KeyQuit
    \/ \E control \in BOOLEAN : KeySave(control)
    \/ KeyTab
    \/ \E by \in {-1, 1} : KeyArrow(by) \/ DialogArrow(by)
    \/ KeySpace
    \/ KeyText
    \/ KeyEsc
    \/ KeyNext
    \/ KeyPrevious
    \/ KeyAdd
    \/ KeyEnter
    \/ KeyTryAgain
    \/ WizardWrites
    \/ PersistFails
    \/ Saved
    \/ DialogEnter
    \/ DialogBack

-----------------------------------------------------------------------------
ServiceEntry == [name : Names, config : MuxEntry, selected : BOOLEAN]
ClientEntry == [host : Hosts, selected : BOOLEAN, already_rewired : BOOLEAN]
FormState == [name : Names, socket : {"own", "cli", "wizard", "none"},
              dirty : BOOLEAN]
AppState ==
    [ wizard_step : {"ServerSelection", "ClientSelection", "Confirmation",
                     "HealthCheck"},
      services : Seq(ServiceEntry), selected_service : Nat,
      clients : Seq(ClientEntry), selected_client : Nat,
      form : FormState, current_field : {"ServiceName", "Tray"},
      editing : {"none", "ServiceName"},
      active_panel : {"ServiceList", "Editor", "ConfirmDialog"},
      confirm_choice : {"SaveAll", "SaveMuxOnly", "Back", "Exit"},
      health_choice : {"Ok", "TryAgain"}, dry_run : BOOLEAN ]

WizardTypeOK ==
    /\ app \in AppState
    /\ app.services # <<>> => app.selected_service \in DOMAIN app.services
    /\ app.clients # <<>> => app.selected_client \in DOMAIN app.clients
    /\ saving \in {"no", "dialog", "mux", "all"}
    /\ saving # "no" => program = "wizard"
    /\ detected \subseteq Names
    /\ dryRuns \in BOOLEAN
    /\ edits \in 0..MaxEdits

(* The form is that of the highlighted service, so that what is typed is   *)
(* not stored in another (sync_form_to_service, load_service_to_form).     *)
FormBelongsToSelected ==
    app.services # <<>> /\ ~app.form.dirty =>
        /\ app.form.name = app.services[app.selected_service].name
        /\ app.form.socket = app.services[app.selected_service].config.socket

(* Whatever way leads to a save, the edits were taken over from the form   *)
(* (sync_form_to_service before every way into the dialog).                *)
SavesNoPendingEdit ==
    [][saving' # saving /\ saving' # "no" => ~app.form.dirty]_<<fileVars, wizardVars>>

(* When the wizard begins to overwrite a host, the configuration of the    *)
(* mux is on disk already, as the wizard shows it (execute_confirm_choice). *)
HostsAfterMux ==
    [][program = "wizard" =>
          \A h \in Hosts : file'[h] # file[h] =>
              file[Mux] = ConfigOf(app.services)]_<<fileVars, wizardVars>>

(* A dry run changes no file (persist_all and rewire_host are reached from *)
(* three places).                                                          *)
DryRunWritesNothing ==
    [][program = "wizard" /\ app.dry_run =>
          UNCHANGED <<file, bak>>]_<<fileVars, wizardVars>>
=============================================================================
