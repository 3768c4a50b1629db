----------------------------- MODULE SetupProofs ------------------------------
(***************************************************************************)
(* What the set-up tools may do to the files they rewrite, for any hosts,  *)
(* services, contents and keys.  The wizard's many keys come down to a few *)
(* kinds of steps (KeyKinds); the files only see those.  Key by key, what  *)
(* is typed is taken over before a save, and the form and the cursors stay *)
(* those of the lists.                                                     *)
(***************************************************************************)
EXTENDS Setup, FiniteSetTheorems, TLAPS

\* What a tool writes is never taken for a file that is missing or cut short.
ContentsAreWhole == \A f : f = [x \in DOMAIN f |-> f[x]] => Whole(f)

-----------------------------------------------------------------------------
(* The kinds of steps of the wizard.                                       *)
Quiet ==
    /\ UNCHANGED <<fileVars, saving>>
    /\ saving = "no" \/ UNCHANGED app

Starts ==
    /\ program = "none"
    /\ program' = "wizard"
    /\ file[Mux] # Partial
    /\ UNCHANGED <<file, bak, queue, phase, data, saving>>

SaveBegins ==
    /\ Reads
    /\ ~app.dry_run
    /\ saving' \in {"dialog", "mux", "all"}
    /\ queue' \in {<<Mux>>, SaveOrder(ToRewire(app.clients))}
    /\ UNCHANGED <<file, bak, program, phase, data, app, detected, dryRuns, edits>>

SaveEnds ==
    /\ saving # "no"
    /\ queue = <<>>
    /\ saving' = "no"
    /\ UNCHANGED fileVars

LEMMA KeyKinds ==
    ASSUME WizardStep
    PROVE  \/ Quiet \/ Starts \/ Leaves \/ SaveBegins \/ SaveEnds
           \/ WizardWrites \/ PersistFails
<1> USE DEF Becomes, Edits, Quiet, Key, Reads
<1>1. ASSUME NEW wanted, StartWizard(wanted) PROVE Starts
  BY <1>1 DEF StartWizard, Starts
<1>2. ASSUME NEW control, KeySave(control) PROVE Quiet
  BY <1>2 DEF KeySave
<1>3. ASSUME NEW by, KeyArrow(by) \/ DialogArrow(by) PROVE Quiet
  BY <1>3 DEF KeyArrow, DialogArrow
<1>4. CASE KeyTab \/ KeyText \/ KeyEsc \/ KeyAdd \/ DialogBack
  BY <1>4 DEF KeyTab, KeyText, KeyEsc, KeyAdd, DialogBack
<1>5. CASE KeySpace
  BY <1>5 DEF KeySpace, ToggleTray, ToggleClient
<1>6. CASE KeyNext \/ KeyPrevious \/ KeyTryAgain
  BY <1>6 DEF KeyNext, KeyPrevious, KeyTryAgain
<1>7. CASE KeyEnter
  <2>1. ASSUME NEW paths \in {<<Mux>>, SaveOrder(ToRewire(app.clients))},
               NEW why \in {"mux", "all"}, Reads, ~app.dry_run,
               Saves(why, paths)
        PROVE  SaveBegins
    BY <2>1 DEF Saves, SaveBegins
  <2> QED
    BY <1>7, <2>1 DEF KeyEnter, Dry, ToggleTray, ToggleClient
<1>8. CASE DialogEnter
  BY <1>8 DEF DialogEnter, Dry, Saves, SaveBegins
<1>9. CASE KeyQuit
  BY <1>9 DEF KeyQuit
<1>10. CASE Saved
  BY <1>10 DEF Saved, SaveEnds
<1> QED
  BY <1>1, <1>2, <1>3, <1>4, <1>5, <1>6, <1>7, <1>8, <1>9, <1>10 DEF WizardStep

-----------------------------------------------------------------------------
(* Whose turn it is.                                                       *)
Phases == {"idle", "copy", "copying", "write", "writing"}

\* A write under way belongs to a tool that runs, and in the wizard to a save,
\* which no dry run begins.
TurnInv ==
    /\ DOMAIN file = Paths
    /\ DOMAIN bak = Paths
    /\ phase \in Phases
    /\ program \in {"none", "scan", "rewire", "wizard"}
    /\ "commands" \notin tools => program \in {"none", "wizard"}
    /\ "wizard" \notin tools => program # "wizard"
    /\ phase # "idle" => program # "none" /\ queue # <<>>
    /\ saving # "no" => program = "wizard" /\ ~app.dry_run
    /\ phase # "idle" /\ program = "wizard" => saving # "no"
    /\ program = "scan" => queue \in {<<>>, <<Mux>>}

\* How a write may begin.
Begins ==
    \/ program = "scan" /\ queue # <<>> /\ writing = Mux /\ Begin(Manifest)
    \/ /\ saving # "no" /\ queue # <<>> /\ writing = Mux
       /\ Begin(ConfigOf(app.services))
    \/ /\ queue # <<>> /\ writing # Mux
       /\ CanRewire(file[writing])
       /\ \/ program = "rewire" /\ Begin(Rewired("cli", file[writing]))
          \/ saving # "no" /\ Begin(Rewired("wizard", file[writing]))

\* A command is started.
Launches ==
    /\ "commands" \in tools
    /\ program = "none"
    /\ \/ program' = "scan" /\ queue' = <<Mux>>
       \/ program' = "rewire" /\ \E h \in Hosts : queue' = <<h>>
    /\ UNCHANGED <<file, bak, phase, data>>

\* A host that cannot be read, or copied: the wizard goes on with the next.
NextHost == queue # <<>> /\ Survives /\ Skips

\* A write is broken off.
CutOff ==
    /\ phase = "writing"
    /\ UNCHANGED bak
    /\ \E part \in Parts(writing, data) : file' = [file EXCEPT ![writing] = part]
    /\ \/ Stops /\ Forgets
       \/ Survives /\ GoesOn /\ UNCHANGED wizardVars

\* What a step may do to the files, the queue and the turns.
FileStep ==
    \/ Quiet
    \/ "wizard" \in tools /\ Starts
    \/ Leaves
    \/ SaveBegins
    \/ SaveEnds
    \/ Launches /\ UNCHANGED wizardVars
    \/ Begins /\ UNCHANGED wizardVars
    \/ Writes /\ UNCHANGED wizardVars
    \/ NextHost /\ UNCHANGED wizardVars
    \/ CutOff
    \/ program \in {"scan", "rewire"} /\ Ends /\ UNCHANGED wizardVars

LEMMA RewireKinds ==
    ASSUME \/ program = "rewire" /\ RewireWrites("cli")
           \/ saving # "no" /\ RewireWrites("wizard")
    PROVE  \/ Begins
           \/ NextHost
           \/ ~Survives /\ Ends
<1>1. CASE CanRewire(file[writing])
  <2>1. Whole(file[writing])
    BY <1>1 DEF CanRewire, Scannable
  <2> QED
    BY <1>1, <2>1 DEF RewireWrites, Begins
<1>2. CASE ~CanRewire(file[writing])
  BY <1>2 DEF RewireWrites, NextHost
<1> QED
  BY <1>1, <1>2

LEMMA StepKinds ==
    ASSUME TurnInv, [Next]_vars
    PROVE  FileStep /\ UNCHANGED <<toml, tools>>
<1>0. UNCHANGED <<toml, tools>>
  BY DEF Next, vars
<1> SUFFICES FileStep
  BY <1>0
<1> USE DEF FileStep
<1>6. CASE BreaksOff
  <2>1. CASE phase = "writing"
    BY <1>6, <2>1 DEF BreaksOff, Interrupted, CutOff
  <2>2. CASE phase # "writing"
    BY <1>6, <2>2 DEF BreaksOff, Interrupted, Leaves, Ends
  <2> QED
    BY <2>1, <2>2
<1>7. CASE WriteFails /\ UNCHANGED wizardVars
  <2>1. CASE phase = "writing"
    BY <1>7, <2>1 DEF WriteFails, Interrupted, CutOff
  <2>2. CASE phase # "writing"
    BY <1>7, <2>2 DEF WriteFails, Interrupted, NextHost, Skips, TurnInv
  <2> QED
    BY <2>1, <2>2
<1>1. CASE "commands" \in tools /\ Command /\ UNCHANGED wizardVars
  <2>1. CASE StartScan \/ \E h \in Hosts : StartRewire(h)
    BY <1>1, <2>1 DEF StartScan, StartRewire, Launches
  <2>2. CASE ScanWrites
    <3>1. writing = Mux
      BY <2>2 DEF ScanWrites, TurnInv, writing
    <3> QED
      BY <1>1, <2>2, <3>1 DEF ScanWrites, Begins, Begin
  <2>3. CASE program = "rewire" /\ RewireWrites("cli")
    BY <1>1, <2>3, RewireKinds DEF Survives
  <2>4. CASE CommandEnds
    BY <1>1, <2>4 DEF CommandEnds
  <2> QED
    BY <1>1, <2>1, <2>2, <2>3, <2>4 DEF Command
<1>2. CASE "wizard" \in tools /\ WizardStep
  <2>1. CASE WizardWrites
    <3>1. CASE queue # <<>> /\ writing = Mux /\ Begin(ConfigOf(app.services))
      BY <2>1, <3>1 DEF WizardWrites, Begins
    <3>2. CASE RewireWrites("wizard")
      <4>1. program = "wizard" /\ writing # Mux
        BY <2>1, <3>2 DEF WizardWrites, TurnInv, RewireWrites
      <4> QED
        BY <2>1, <3>2, <4>1, RewireKinds DEF WizardWrites, NextHost, Survives
    <3> QED
      BY <2>1, <3>1, <3>2 DEF WizardWrites
  <2>2. CASE PersistFails
    BY <1>6, <2>2 DEF PersistFails
  <2> QED
    BY <1>2, <2>1, <2>2, KeyKinds
<1>3. CASE (Writes \/ WriteFails) /\ UNCHANGED wizardVars
  BY <1>3, <1>7
<1>4. CASE Crash
  BY <1>4, <1>6 DEF Crash
<1>5. CASE UNCHANGED vars
  BY <1>5 DEF vars, Quiet, wizardVars
<1> QED
  BY <1>1, <1>2, <1>3, <1>4, <1>5 DEF Next

LEMMA TurnInit == Init => TurnInv
  BY ScenesAssumption
     DEF Init, FilesInit, WizardInit, TurnInv, Phases

LEMMA TurnNext == TurnInv /\ [Next]_vars => TurnInv'
<1> SUFFICES ASSUME TurnInv, [Next]_vars PROVE TurnInv'
  OBVIOUS
<1>0. FileStep /\ UNCHANGED <<toml, tools>>
  BY StepKinds
<1> USE DEF TurnInv, Phases, fileVars, wizardVars
<1>1. CASE Quiet
  BY <1>0, <1>1 DEF Quiet
<1>2. CASE "wizard" \in tools /\ Starts
  BY <1>0, <1>2 DEF Starts
<1>3. CASE Leaves
  BY <1>0, <1>3 DEF Leaves, Ends, Stops, Forgets
<1>4. CASE SaveBegins
  BY <1>0, <1>4 DEF SaveBegins, Reads
<1>5. CASE SaveEnds
  BY <1>0, <1>5 DEF SaveEnds
<1>6. CASE Launches /\ UNCHANGED wizardVars
  BY <1>0, <1>6 DEF Launches
<1>7. CASE Begins /\ UNCHANGED wizardVars
  BY <1>0, <1>7 DEF Begins, Begin
<1>8. CASE Writes /\ UNCHANGED wizardVars
  <2>1. CASE WriteEnds
    <3>1. Tail(<<Mux>>) = <<>>
      OBVIOUS
    <3>2. program = "scan" => queue' = <<>>
      BY <2>1, <3>1 DEF WriteEnds
    <3> QED
      BY <1>0, <1>8, <2>1, <3>2 DEF WriteEnds
  <2> QED
    BY <1>0, <1>8, <2>1 DEF Writes, CopyStarts, CopyEnds, WriteStarts
<1>9. CASE NextHost /\ UNCHANGED wizardVars
  BY <1>0, <1>9 DEF NextHost, Survives, Skips, GoesOn
<1>10. CASE program \in {"scan", "rewire"} /\ Ends /\ UNCHANGED wizardVars
  BY <1>0, <1>10 DEF Ends, Stops
<1>11. CASE CutOff
  BY <1>0, <1>11 DEF CutOff, Stops, Forgets, Survives, GoesOn
<1> QED
  BY <1>0, <1>1, <1>2, <1>3, <1>4, <1>5, <1>6, <1>7, <1>8, <1>9, <1>10, <1>11
     DEF FileStep

-----------------------------------------------------------------------------
(* Backups.                                                                *)

\* The backup is complete before the file is opened for writing.
BackupInv ==
    /\ phase = "write" /\ writing \in Paths =>
           file[writing] = Missing \/ bak[writing] = file[writing]
    /\ phase = "writing" /\ writing \in Paths => file[writing] = Partial

LEMMA BackupInit == Init => BackupInv
  BY DEF Init, FilesInit, BackupInv

LEMMA BackupNext == TurnInv /\ BackupInv /\ [Next]_vars => BackupInv'
<1> SUFFICES ASSUME TurnInv, BackupInv, [Next]_vars PROVE BackupInv'
  OBVIOUS
<1>0. FileStep
  BY StepKinds
<1> USE DEF BackupInv, TurnInv, Phases, fileVars, writing
<1>1. CASE Quiet \/ Starts \/ Leaves
  BY <1>1 DEF Quiet, Starts, Leaves, Ends, Stops
<1>2. CASE SaveBegins \/ SaveEnds \/ Launches
  BY <1>2 DEF SaveBegins, SaveEnds, Launches, Reads
<1>3. CASE Begins
  BY <1>3 DEF Begins, Begin, NeedsBackup
<1>4. CASE CopyStarts \/ CopyEnds
  BY <1>4 DEF CopyStarts, CopyEnds
<1>5. CASE WriteStarts \/ WriteEnds
  BY <1>5 DEF WriteStarts, WriteEnds
<1>6. CASE \/ NextHost
           \/ CutOff
           \/ program \in {"scan", "rewire"} /\ Ends
  BY <1>6 DEF NextHost, CutOff, Skips, GoesOn, Ends, Stops
<1> QED
  BY <1>0, <1>1, <1>2, <1>3, <1>4, <1>5, <1>6 DEF FileStep, Writes

(* A file is overwritten only when its backup says what it said, whichever *)
(* tool writes and wherever it is killed (write_with_backup, persist_all). *)
THEOREM BackedUpCorrect == Spec => BackedUp
<1>1. ASSUME TurnInv, BackupInv, [Next]_vars
      PROVE  [\A p \in Paths : file'[p] # file[p] /\ Whole(file[p])
                  => bak'[p] = file[p]]_fileVars
  <2> SUFFICES ASSUME NEW p \in Paths, file'[p] # file[p], Whole(file[p])
               PROVE  bak'[p] = file[p]
    OBVIOUS
  <2>1. WriteStarts \/ WriteEnds \/ CutOff
    BY <1>1, StepKinds
       DEF FileStep, Quiet, Starts, Leaves, SaveBegins, SaveEnds, Launches,
           Begins, Begin, Writes, CopyStarts, CopyEnds, NextHost, Skips, Ends,
           fileVars
  <2>2. p = writing /\ UNCHANGED bak
    BY <1>1, <2>1 DEF WriteStarts, WriteEnds, CutOff, TurnInv
  <2> QED
    BY <1>1, <2>1, <2>2 DEF BackupInv, WriteStarts, WriteEnds, CutOff, Whole
<1> QED
  BY TurnInit, TurnNext, BackupInit, BackupNext, <1>1, PTL DEF Spec, BackedUp

(* A dry run of the wizard changes no file, by whatever keys (persist_all  *)
(* and rewire_selected_clients are called from three places).              *)
THEOREM DryRunCorrect == Spec => DryRunWritesNothing
<1>1. ASSUME TurnInv, [Next]_vars
      PROVE  [program = "wizard" /\ app.dry_run => UNCHANGED <<file, bak>>
             ]_<<fileVars, wizardVars>>
  <2> SUFFICES ASSUME program = "wizard", app.dry_run
               PROVE  UNCHANGED <<file, bak>>
    OBVIOUS
  <2>1. phase = "idle"
    BY <1>1 DEF TurnInv
  <2> QED
    BY <1>1, <2>1, StepKinds
       DEF FileStep, Quiet, Starts, Leaves, SaveBegins, SaveEnds, Launches,
           Begins, Begin, Writes, CopyStarts, CopyEnds, WriteStarts, WriteEnds,
           CutOff, NextHost, Skips, Ends, fileVars
<1> QED
  BY TurnInit, TurnNext, <1>1, PTL DEF Spec, DryRunWritesNothing

-----------------------------------------------------------------------------
(* Recovery.                                                               *)

\* scan writes the configuration of the mux without having read it, and of a
\* path in TOML part may be taken for the whole.
Guarded == (IF "commands" \in tools THEN Hosts ELSE Paths) \ toml

RecoverInv ==
    /\ \A p \in Guarded : Recoverable(p)
    /\ \A p \in Paths : file[p] = Missing => bak[p] = Missing
    /\ phase # "idle" => Whole(data)
    /\ phase \in {"copy", "copying"} => file[writing] # Missing
    /\ phase \in {"copy", "copying"} /\ writing \in Guarded =>
           Whole(file[writing])
    /\ phase \in {"write", "writing"} /\ writing \in Guarded =>
           bak[writing] # Partial
    /\ program = "wizard" /\ file[Mux] = Partial =>
           phase = "writing" /\ writing = Mux

LEMMA RecoverInit == Init => RecoverInv
  BY FilesAssumption
     DEF Init, FilesInit, RecoverInv, Recoverable, Guarded, Paths

\* What the tools write are contents.
LEMMA BeginsWhole ==
    ASSUME ContentsAreWhole, Begins
    PROVE  Whole(data')
<1>1. Whole(Manifest)
  BY DEF ContentsAreWhole, Manifest
<1>2. Whole(ConfigOf(app.services))
  BY DEF ContentsAreWhole, ConfigOf
<1>3. ASSUME NEW dir, NEW content PROVE Whole(Rewired(dir, content))
  BY DEF ContentsAreWhole, Rewired
<1> QED
  BY <1>1, <1>2, <1>3 DEF Begins, Begin

\* What a write that is broken off leaves.
LEMMA PartsOf ==
    ASSUME NEW p, NEW content, NEW part \in Parts(p, content), part # Partial
    PROVE  /\ p \in toml
           /\ part = [s \in DOMAIN part |-> part[s]]
           /\ DOMAIN part \subseteq DOMAIN content
           /\ p # Mux => part \in Fewer(content)
           /\ \A s \in DOMAIN part :
                 part[s] = content[s] \/ part[s] \in CutEntry(content[s])
<1>1. p \in toml
  BY DEF Parts
<1>2. ASSUME NEW f \in Fewer(content)
      PROVE  /\ f = [s \in DOMAIN f |-> f[s]]
             /\ DOMAIN f \subseteq DOMAIN content
             /\ \A s \in DOMAIN f : f[s] = content[s]
  BY DEF Fewer
<1>3. CASE p # Mux
  BY <1>1, <1>2, <1>3 DEF Parts
<1>4. CASE p = Mux
  <2>1. PICK f \in Fewer(content) : part \in CutLast(f)
    BY <1>1, <1>4 DEF Parts
  <2>2. CASE part = f
    BY <1>1, <1>2, <1>4, <2>2
  <2>3. CASE part # f
    <3>1. PICK s \in DOMAIN f : \E entry \in CutEntry(f[s]) :
             part = [f EXCEPT ![s] = entry]
      BY <2>1, <2>3 DEF CutLast
    <3>4. PICK entry \in CutEntry(f[s]) : part = [f EXCEPT ![s] = entry]
      BY <3>1
    <3>2. DOMAIN part = DOMAIN f /\ part = [x \in DOMAIN part |-> part[x]]
      BY <3>4
    <3>3. \A x \in DOMAIN f : part[x] = IF x = s THEN entry ELSE f[x]
      BY <3>4
    <3> QED
      BY <1>1, <1>2, <1>4, <3>2, <3>3, <3>4
  <2> QED
    BY <2>2, <2>3
<1> QED
  BY <1>3, <1>4

LEMMA RecoverNext ==
    ASSUME ContentsAreWhole, TurnInv, BackupInv, RecoverInv, [Next]_vars
    PROVE  RecoverInv'
<1>0. FileStep /\ UNCHANGED <<toml, tools>>
  BY StepKinds
<1>a. Guarded' = Guarded /\ Guarded \subseteq Paths /\ Mux \in Paths
  BY <1>0 DEF Guarded, Paths
<1>b. Missing # Partial
  BY FilesAssumption
<1> USE DEF RecoverInv, TurnInv, BackupInv, Phases, fileVars, writing,
            Recoverable, Whole
<1>1. CASE Quiet \/ Starts \/ Leaves
  BY <1>0, <1>a, <1>1 DEF Quiet, Starts, Leaves, Ends, Stops
<1>2. CASE SaveBegins \/ SaveEnds
  BY <1>0, <1>a, <1>2 DEF SaveBegins, SaveEnds, Reads
<1>3. CASE Launches
  BY <1>0, <1>a, <1>3 DEF Launches
<1>4. CASE Begins
  <2>1. Whole(data')
    BY <1>4, BeginsWhole
  <2>2. /\ UNCHANGED <<file, bak, program, queue>>
        /\ phase = "idle"
        /\ phase' = IF file[writing] # Missing THEN "copy" ELSE "write"
    BY <1>4 DEF Begins, Begin, NeedsBackup
  <2>3. writing \in Guarded => file[writing] # Partial
    <3>1. CASE program = "scan" /\ writing = Mux
      BY <1>a, <3>1, FilesAssumption DEF Guarded
    <3>2. CASE saving # "no" /\ writing = Mux
      BY <2>2, <3>2
    <3>3. CASE CanRewire(file[writing])
      BY <3>3 DEF CanRewire, Scannable
    <3> QED
      BY <1>4, <3>1, <3>2, <3>3 DEF Begins
  <2> QED
    BY <1>a, <1>b, <2>1, <2>2, <2>3
<1>5. CASE CopyStarts
  BY <1>a, <1>b, <1>5 DEF CopyStarts
<1>6. CASE CopyEnds
  <2>1. /\ UNCHANGED <<file, program, queue, data>>
        /\ phase = "copying" /\ phase' = "write"
        /\ bak' = [bak EXCEPT ![writing] = file[writing]]
    BY <1>6 DEF CopyEnds
  <2>2. writing \in Guarded => Whole(file[writing]) /\ bak'[writing] # Partial
    BY <1>a, <2>1
  <2> QED
    BY <1>a, <1>b, <2>1, <2>2
<1>7. CASE WriteStarts
  BY <1>a, <1>b, <1>7 DEF WriteStarts
<1>8. CASE WriteEnds
  BY <1>a, <1>b, <1>8 DEF WriteEnds
<1>9. CASE NextHost
  BY <1>a, <1>9 DEF NextHost, Survives, Skips, GoesOn
<1>10. CASE program \in {"scan", "rewire"} /\ Ends
  BY <1>a, <1>10 DEF Ends, Stops
<1>11. CASE CutOff
  <2>1. PICK part \in Parts(writing, data) : file' = [file EXCEPT ![writing] = part]
    BY <1>11 DEF CutOff
  <2>2. part # Missing
    BY <1>b, <2>1, PartsOf DEF ContentsAreWhole
  <2>3. /\ UNCHANGED bak /\ phase = "writing" /\ phase' = "idle"
        /\ program' = "wizard" => program = "wizard" /\ writing # Mux
    BY <1>11 DEF CutOff, Stops, Survives, GoesOn
  <2>4. \A p \in Paths : file'[p] = IF p = writing THEN part ELSE file[p]
    BY <2>1
  <2> QED
    BY <1>a, <1>b, <2>2, <2>3, <2>4
<1> QED
  BY <1>0, <1>1, <1>2, <1>3, <1>4, <1>5, <1>6, <1>7, <1>8, <1>9, <1>10, <1>11
     DEF FileStep, Writes

(* A host in JSON that was left half-written has a backup that is not,     *)
(* wherever the tools were killed and however often they are tried again;  *)
(* so has a configuration of the mux in JSON that only the wizard writes   *)
(* (write_with_backup, rewire_host, persist_all).                          *)
THEOREM RecoverableCorrect ==
    ASSUME ContentsAreWhole
    PROVE  Spec => []AllRecoverable
<1>1. RecoverInv => AllRecoverable
  BY DEF RecoverInv, AllRecoverable, Guarded, Paths
<1>2. TurnInv /\ BackupInv /\ RecoverInv /\ [Next]_vars => RecoverInv'
  BY RecoverNext
<1> QED
  BY TurnInit, TurnNext, BackupInit, BackupNext, RecoverInit, <1>1, <1>2, PTL
     DEF Spec

-----------------------------------------------------------------------------
(* Edits and saves.                                                        *)
AppFields == DOMAIN IdleApp
FormFields == {"name", "socket", "dirty"}

\* An edit is under way in the first step only, outside the dialog and while
\* nothing is saved; a save that does not come from the dialog belongs to the
\* confirmation step.
Tidy(a, s) ==
    /\ DOMAIN a = AppFields
    /\ DOMAIN a.form = FormFields
    /\ a.editing # "none" => /\ a.wizard_step = "ServerSelection"
                             /\ a.active_panel \in {"Editor", "ConfirmDialog"}
    /\ a.form.dirty => /\ a.wizard_step = "ServerSelection"
                       /\ a.active_panel # "ConfirmDialog"
                       /\ s = "no"
    /\ s \in {"no", "dialog"} \/ a.wizard_step = "Confirmation"

TidyInv == Tidy(app, saving)

\* What taking over or loading the form leaves of the wizard's state.
SameButForm(a, b) ==
    /\ DOMAIN b = DOMAIN a
    /\ DOMAIN b.form = FormFields
    /\ \A f \in {"wizard_step", "active_panel", "editing"} : b[f] = a[f]

LEMMA SyncedForm ==
    ASSUME NEW a, DOMAIN a = AppFields, DOMAIN a.form = FormFields
    PROVE  SameButForm(a, SyncForm(a)) /\ ~SyncForm(a).form.dirty
  BY DEF SameButForm, SyncForm, AppFields, IdleApp, FormFields

LEMMA LoadedForm ==
    ASSUME NEW a, DOMAIN a = AppFields, DOMAIN a.form = FormFields
    PROVE  /\ SameButForm(a, LoadForm(a))
           /\ LoadForm(a).form.dirty => a.form.dirty
  BY DEF SameButForm, LoadForm, FormFromService, AppFields, IdleApp, FormFields

LEMMA TidyIdle == Tidy(IdleApp, "no")
  BY DEF Tidy, IdleApp, NoForm, AppFields, FormFields

LEMMA TidyKeys ==
    ASSUME TidyInv, Reads, WizardStep
    PROVE  TidyInv'
<1> USE DEF TidyInv, Tidy, Key, Reads, Step, On, Editing, InDialog
<1>0. CASE Leaves
  BY <1>0, TidyIdle DEF Leaves, Forgets
<1>1. ASSUME NEW control, KeySave(control) PROVE TidyInv'
  BY <1>1, SyncedForm
  DEF KeySave, BeforeDialog, Becomes, SameButForm, AppFields, IdleApp
<1>2. CASE KeyTab \/ KeyEsc \/ DialogBack
  BY <1>2 DEF KeyTab, MayTab, KeyEsc, DialogBack, Becomes, AppFields, IdleApp
<1>3. CASE KeyText \/ ToggleTray
  BY <1>3 DEF KeyText, ToggleTray, Edits, AppFields, IdleApp, FormFields
<1>4. ASSUME NEW by, Key, KeyArrow(by) PROVE TidyInv'
  <2>1. ASSUME Becomes(AfterMove([SyncForm(app) EXCEPT !.selected_service = @ + by])),
               ~Editing
        PROVE  TidyInv'
    <3> DEFINE moved == [SyncForm(app) EXCEPT !.selected_service = @ + by]
    <3>1. /\ DOMAIN moved = AppFields /\ DOMAIN moved.form = FormFields
          /\ moved.editing = app.editing
          /\ ~moved.form.dirty
          /\ saving = "no"
      BY SyncedForm, <1>4 DEF SameButForm, AppFields, IdleApp
    <3>2. /\ SameButForm(moved, LoadForm(moved)) /\ ~LoadForm(moved).form.dirty
      BY <3>1, LoadedForm
    <3> QED
      BY <2>1, <3>1, <3>2 DEF Becomes, AfterMove, SameButForm
  <2>2. CASE \/ Becomes([app EXCEPT !.current_field = Turn(Fields, @, by)])
             \/ Becomes([app EXCEPT !.selected_client = @ + by])
             \/ Becomes([app EXCEPT !.confirm_choice = Turn(Choices, @, by)])
             \/ Becomes([app EXCEPT !.health_choice =
                            IF @ = "Ok" THEN "TryAgain" ELSE "Ok"])
    BY <1>4, <2>2 DEF Becomes, AppFields, IdleApp
  <2> QED
    BY <1>4, <2>1, <2>2 DEF KeyArrow
<1>5. CASE KeySpace
  BY <1>3, <1>5 DEF KeySpace, ToggleClient, Becomes, AppFields, IdleApp
<1>6. CASE KeyNext
  <2>1. SameButForm(app, SyncForm(app)) /\ ~SyncForm(app).form.dirty
    BY SyncedForm
  <2>2. CASE Step("ServerSelection")
    BY <1>6, <2>1, <2>2 DEF KeyNext, Becomes, SameButForm, AppFields, IdleApp
  <2>3. CASE Step("ClientSelection")
    BY <1>6, <2>3 DEF KeyNext, Becomes, AppFields, IdleApp
  <2> QED
    BY <1>6, <2>2, <2>3 DEF KeyNext
<1>7. CASE KeyPrevious
  BY <1>7 DEF KeyPrevious, Becomes, AppFields, IdleApp
<1>8. CASE KeyAdd
  <2> DEFINE more == [app EXCEPT
                 !.services = Append(@, Service(FreshName[Len(app.services) + 1],
                                                DefaultConfig)),
                 !.selected_service = Len(app.services) + 1]
  <2>1. /\ DOMAIN more = AppFields /\ DOMAIN more.form = FormFields
        /\ \A f \in {"wizard_step", "active_panel", "editing", "form"} :
              more[f] = app[f]
    BY DEF AppFields, IdleApp
  <2>2. SameButForm(more, LoadForm(more))
        /\ (LoadForm(more).form.dirty => more.form.dirty)
    BY <2>1, LoadedForm
  <2>3. app' = LoadForm(more) /\ saving' = saving /\ ~Editing
    BY <1>8 DEF KeyAdd, Becomes
  <2> QED
    BY <2>1, <2>2, <2>3 DEF SameButForm
<1>9. CASE KeyTryAgain
  <2>1. PICK services, cursor :
           app' = LoadForm([app EXCEPT !.services = services,
                                       !.clients = <<>>,
                                       !.selected_client = 1,
                                       !.wizard_step = "ServerSelection",
                                       !.selected_service = cursor,
                                       !.active_panel = "ServiceList",
                                       !.health_choice = "Ok"])
    BY <1>9 DEF KeyTryAgain, Becomes
  <2> DEFINE again == [app EXCEPT !.services = services,
                                  !.clients = <<>>,
                                  !.selected_client = 1,
                                  !.wizard_step = "ServerSelection",
                                  !.selected_service = cursor,
                                  !.active_panel = "ServiceList",
                                  !.health_choice = "Ok"]
  <2>2. /\ DOMAIN again = AppFields /\ DOMAIN again.form = FormFields
        /\ again.editing = app.editing /\ again.form = app.form
        /\ again.wizard_step = "ServerSelection"
        /\ again.active_panel = "ServiceList"
    BY DEF AppFields, IdleApp
  <2>3. SameButForm(again, LoadForm(again))
        /\ (LoadForm(again).form.dirty => again.form.dirty)
    BY <2>2, LoadedForm
  <2>4. app.editing = "none" /\ ~app.form.dirty /\ saving' = saving
    BY <1>9 DEF KeyTryAgain, Becomes
  <2> QED
    BY <2>1, <2>2, <2>3, <2>4 DEF SameButForm
<1>10. CASE KeyEnter
  <2>1. CASE Becomes(HealthStep) /\ Step("Confirmation")
    BY <1>10, <2>1 DEF Becomes, HealthStep, AppFields, IdleApp
  <2>2. ASSUME NEW why, NEW paths, Step("Confirmation"), Saves(why, paths)
        PROVE  TidyInv'
    BY <2>2 DEF Saves
  <2>3. CASE /\ On("ServerSelection", "ServiceList")
             /\ Becomes([app EXCEPT !.active_panel = "Editor"])
    BY <1>10, <2>3 DEF Becomes, AppFields, IdleApp
  <2>4. CASE /\ On("ServerSelection", "Editor")
             /\ Becomes([app EXCEPT !.editing = app.current_field])
    BY <1>10, <2>4 DEF Becomes, AppFields, IdleApp
  <2>5. CASE Becomes([app EXCEPT !.wizard_step = "ClientSelection",
                                 !.active_panel = "ServiceList"])
             /\ Step("Confirmation")
    BY <1>10, <2>5 DEF Becomes, AppFields, IdleApp
  <2>6. CASE ToggleClient
    BY <1>10, <2>6 DEF ToggleClient, Becomes, AppFields, IdleApp
  <2> QED
    BY <1>0, <1>3, <1>10, <2>1, <2>2, <2>3, <2>4, <2>5, <2>6 DEF KeyEnter
<1>11. ASSUME NEW by, DialogArrow(by) PROVE TidyInv'
  BY <1>11 DEF DialogArrow, Becomes, AppFields, IdleApp
<1>12. CASE DialogEnter
  BY <1>0, <1>12 DEF DialogEnter, Saves
<1>13. ASSUME NEW wanted, StartWizard(wanted) PROVE FALSE
  BY <1>13 DEF StartWizard
<1>14. CASE KeyQuit
  BY <1>0, <1>14 DEF KeyQuit
<1> QED
  BY <1>1, <1>2, <1>3, <1>4, <1>5, <1>6, <1>7, <1>8, <1>9, <1>10, <1>11,
     <1>12, <1>13, <1>14
  DEF WizardStep, WizardWrites, PersistFails, Saved, KeyArrow

LEMMA TidyNext == TurnInv /\ TidyInv /\ [Next]_vars => TidyInv'
<1> SUFFICES ASSUME TurnInv, TidyInv, [Next]_vars PROVE TidyInv'
  OBVIOUS
<1>1. CASE UNCHANGED <<app, saving>>
  BY <1>1 DEF TidyInv, Tidy
<1>2. CASE Forgets
  BY <1>2, TidyIdle DEF Forgets, TidyInv
<1>3. CASE WizardStep /\ Reads
  BY <1>3, TidyKeys
<1>4. ASSUME NEW wanted, StartWizard(wanted) PROVE TidyInv'
  <2>1. PICK services, cursor, dry :
           app' = LoadForm([IdleApp EXCEPT !.services = services,
                                           !.selected_service = cursor,
                                           !.dry_run = dry])
    BY <1>4 DEF StartWizard
  <2> DEFINE fresh == [IdleApp EXCEPT !.services = services,
                                      !.selected_service = cursor,
                                      !.dry_run = dry]
  <2>2. /\ DOMAIN fresh = AppFields /\ DOMAIN fresh.form = FormFields
        /\ fresh.editing = "none" /\ ~fresh.form.dirty
        /\ fresh.wizard_step = "ServerSelection"
    BY DEF AppFields, IdleApp, NoForm, FormFields
  <2>3. SameButForm(fresh, LoadForm(fresh))
        /\ (LoadForm(fresh).form.dirty => fresh.form.dirty)
    BY <2>2, LoadedForm
  <2>4. saving' = "no"
    BY <1>4 DEF StartWizard, TurnInv
  <2> QED
    BY <2>1, <2>2, <2>3, <2>4 DEF SameButForm, TidyInv, Tidy
<1>5. CASE Saved
  <2>1. CASE app' = HealthStep /\ saving' = "no" /\ saving \notin {"no", "dialog"}
    BY <2>1 DEF HealthStep, TidyInv, Tidy, AppFields, IdleApp
  <2> QED
    BY <1>2, <1>5, <2>1 DEF Saved, Leaves
<1>6. CASE WizardStep /\ ~Reads
  BY <1>1, <1>2, <1>4, <1>5, <1>6
  DEF WizardStep, KeyQuit, KeySave, KeyTab, KeyArrow, DialogArrow, KeySpace,
      KeyText, KeyEsc, KeyNext, KeyPrevious, KeyAdd, KeyEnter, KeyTryAgain,
      DialogEnter, DialogBack, Key, WizardWrites, PersistFails, BreaksOff,
      wizardVars
<1> QED
  BY <1>1, <1>2, <1>3, <1>6 DEF Next, Crash, BreaksOff, vars, wizardVars

(* Whatever keys lead to a save, what was typed was taken over from the    *)
(* form before (sync_form_to_service before every way into the dialog).    *)
THEOREM SavesNoPendingEditCorrect == Spec => SavesNoPendingEdit
<1>1. Init => TidyInv
  BY TidyIdle DEF Init, WizardInit, TidyInv
<1>2. ASSUME TurnInv, TidyInv, [Next]_vars
      PROVE  [saving' # saving /\ saving' # "no" => ~app.form.dirty
             ]_<<fileVars, wizardVars>>
  <2> SUFFICES ASSUME saving' # saving, saving' # "no"
               PROVE  ~app.form.dirty
    OBVIOUS
  <2>1. SaveBegins
    BY <1>2, StepKinds
    DEF FileStep, Quiet, Starts, Leaves, CutOff, Forgets, SaveEnds, wizardVars
  <2>2. TidyInv' /\ app' = app
    BY <1>2, <2>1, TidyNext DEF SaveBegins
  <2> QED
    BY <2>2 DEF TidyInv, Tidy
<1> QED
  BY TurnInit, TurnNext, <1>1, TidyNext, <1>2, PTL DEF Spec, SavesNoPendingEdit

-----------------------------------------------------------------------------
(* Sets in the order of their ranks.                                       *)
Ranks(S, rank) ==
    /\ IsFiniteSet(S)
    /\ \A x \in S : rank[x] \in Nat
    /\ \A x, y \in S : rank[x] = rank[y] => x = y

UpTo(S, rank, x) == {y \in S : rank[y] <= rank[x]}

LEMMA UpToGrows ==
    ASSUME NEW S, NEW rank, Ranks(S, rank), NEW x \in S
    PROVE  /\ IsFiniteSet(UpTo(S, rank, x))
           /\ x \in UpTo(S, rank, x)
           /\ Cardinality(UpTo(S, rank, x)) \in 1..Cardinality(S)
           /\ \A z \in S : Cardinality(UpTo(S, rank, z)) = Cardinality(UpTo(S, rank, x))
                              => z = x
<1>1. \A z \in S : /\ IsFiniteSet(UpTo(S, rank, z)) /\ z \in UpTo(S, rank, z)
                   /\ Cardinality(UpTo(S, rank, z)) \in Nat
                   /\ Cardinality(UpTo(S, rank, z)) <= Cardinality(S)
                   /\ Cardinality(UpTo(S, rank, z)) # 0
  <2> SUFFICES ASSUME NEW z \in S
               PROVE  /\ IsFiniteSet(UpTo(S, rank, z)) /\ z \in UpTo(S, rank, z)
                      /\ Cardinality(UpTo(S, rank, z)) \in Nat
                      /\ Cardinality(UpTo(S, rank, z)) <= Cardinality(S)
                      /\ Cardinality(UpTo(S, rank, z)) # 0
    OBVIOUS
  <2>1. UpTo(S, rank, z) \in SUBSET S /\ z \in UpTo(S, rank, z)
    BY DEF UpTo, Ranks
  <2>2. IsFiniteSet(UpTo(S, rank, z))
        /\ Cardinality(UpTo(S, rank, z)) <= Cardinality(S)
    BY <2>1, FS_Subset DEF Ranks
  <2>3. Cardinality(UpTo(S, rank, z)) # 0
    BY <2>1, <2>2, FS_EmptySet
  <2> QED
    BY <2>1, <2>2, <2>3, FS_CardinalityType
<1>2. ASSUME NEW y \in S, NEW z \in S, rank[y] < rank[z]
      PROVE  Cardinality(UpTo(S, rank, y)) # Cardinality(UpTo(S, rank, z))
  <2>1. UpTo(S, rank, y) \in SUBSET UpTo(S, rank, z)
        /\ z \in UpTo(S, rank, z) /\ z \notin UpTo(S, rank, y)
    BY <1>2 DEF UpTo, Ranks
  <2> QED
    BY <1>1, <2>1, FS_Subset
<1>3. \A z \in S : z # x => rank[z] < rank[x] \/ rank[x] < rank[z]
  BY DEF Ranks
<1>4. Cardinality(S) \in Nat
  BY FS_CardinalityType DEF Ranks
<1> QED
  BY <1>1, <1>2, <1>3, <1>4

\* Every place is taken.
LEMMA PlacesTaken ==
    ASSUME NEW S, NEW rank, Ranks(S, rank), NEW i \in 1..Cardinality(S)
    PROVE  \E x \in S : Cardinality(UpTo(S, rank, x)) = i
<1> DEFINE n == Cardinality(S)
           place == [x \in S |-> Cardinality(UpTo(S, rank, x))]
<1>1. n \in Nat
  BY FS_CardinalityType DEF Ranks
<1>2. IsFiniteSet(1..n) /\ Cardinality(1..n) = n
  BY <1>1, FS_Interval
<1>3. place \in Injection(S, 1..n)
  BY UpToGrows DEF Injection, IsInjective
<1>4. place \in Surjection(S, 1..n)
  BY <1>2, <1>3, FS_Injection
<1> QED
  BY <1>4 DEF Surjection

LEMMA RankedElements ==
    ASSUME NEW S, NEW rank, Ranks(S, rank)
    PROVE  /\ Ranked(S, rank) \in [1..Cardinality(S) -> S]
           /\ Cardinality(S) \in Nat
           /\ Ranked(S, rank) \in Seq(S)
<1>1. Cardinality(S) \in Nat
  BY FS_CardinalityType DEF Ranks
<1>2. ASSUME NEW i \in 1..Cardinality(S) PROVE Ranked(S, rank)[i] \in S
  BY PlacesTaken DEF Ranked, UpTo
<1>3. Ranked(S, rank) = [i \in 1..Cardinality(S) |-> Ranked(S, rank)[i]]
  BY DEF Ranked
<1>4. Ranked(S, rank) \in [1..Cardinality(S) -> S]
  BY <1>2, <1>3
<1> QED
  BY <1>1, <1>4

LEMMA ExtremesExist ==
    ASSUME NEW S, NEW rank, Ranks(S, rank), S # {}
    PROVE  /\ \E x \in S : \A y \in S : rank[y] <= rank[x]
           /\ \E x \in S : \A y \in S : rank[x] <= rank[y]
<1>1. Cardinality(S) \in Nat /\ Cardinality(S) # 0 /\ IsFiniteSet(S)
  BY FS_EmptySet, FS_CardinalityType DEF Ranks
<1>2. PICK x \in S : Cardinality(UpTo(S, rank, x)) = Cardinality(S)
  BY <1>1, PlacesTaken
<1>3. UpTo(S, rank, x) = S
  BY <1>1, <1>2, FS_Subset DEF UpTo
<1>4. PICK z \in S : Cardinality(UpTo(S, rank, z)) = 1
  BY <1>1, PlacesTaken
<1>5. \A y \in UpTo(S, rank, z) : y = z
  BY <1>4, UpToGrows, FS_Singleton
<1>6. \A y \in S : rank[z] <= rank[y]
  BY <1>5 DEF UpTo, Ranks
<1> QED
  BY <1>2, <1>3, <1>6 DEF UpTo

LEMMA IndicesRank ==
    ASSUME NEW s, NEW X, s \in Seq(X), NEW S \in SUBSET DOMAIN s, NEW rank,
           \A i \in S : rank[i] = i
    PROVE  Ranks(S, rank)
<1>1. Len(s) \in Nat /\ DOMAIN s = 1..Len(s)
  OBVIOUS
<1>2. IsFiniteSet(1..Len(s))
  BY <1>1, FS_Interval
<1> QED
  BY <1>1, <1>2, FS_Subset DEF Ranks

-----------------------------------------------------------------------------
(* What the files may hold.                                                *)
LEMMA RankedHosts ==
    ASSUME NEW S \in SUBSET Hosts
    PROVE  Ranks(S, Rank)
  BY FilesAssumption, FS_Subset DEF Ranks

LEMMA RankedNames ==
    ASSUME NEW S \in SUBSET Names
    PROVE  Ranks(S, NameRank)
  BY FilesAssumption, WizardAssumption, FS_Subset DEF Ranks

LEMMA SocketType ==
    ASSUME NEW dir \in {"cli", "wizard"}, NEW entry \in HostEntry
    PROVE  SocketIn(dir, entry) \in {"own", "cli", "wizard"}
  BY DEF SocketIn, HostEntry

LEMMA ManifestType ==
    ASSUME \A h \in Hosts : MayHold(h, file[h])
    PROVE  Fits(Mux, Manifest)
<1> DEFINE defining(s) == {h \in Hosts : Scannable(file[h]) /\ s \in DOMAIN file[h]}
           last(s) == CHOOSE h \in defining(s) :
                          \A g \in defining(s) : Rank[g] <= Rank[h]
<1>1. DOMAIN Manifest = {n \in Names : defining(n) # {}}
  BY DEF Manifest
<1>2. ASSUME NEW s \in DOMAIN Manifest PROVE Manifest[s] \in MuxEntry
  <2>1. \E h \in defining(s) : \A g \in defining(s) : Rank[g] <= Rank[h]
    <3>1. Ranks(defining(s), Rank) /\ defining(s) # {}
      BY <1>1, <1>2, RankedHosts
    <3> HIDE DEF defining
    <3> QED
      BY <3>1, ExtremesExist
  <2>2. last(s) \in defining(s)
    <3> HIDE DEF defining
    <3> QED
      BY <2>1
  <2>3. PICK h, entry : h = last(s) /\ entry = file[h][s]
    OBVIOUS
  <2>4. entry \in HostEntry /\ entry.cmd # "none"
    <3>1. h \in Hosts /\ Scannable(file[h]) /\ s \in DOMAIN file[h] /\ h # Mux
      BY <2>2, <2>3, FilesAssumption
    <3> QED
      BY <2>3, <3>1 DEF MayHold, Fits, Scannable
  <2>5. Manifest[s] = [cmd |-> entry.cmd, socket |-> SocketIn("cli", entry),
                       rest |-> "default"]
    BY <1>1, <1>2, <2>3 DEF Manifest
  <2> QED
    BY <2>4, <2>5, SocketType DEF MuxEntry, HostEntry
<1> QED
  BY <1>1, <1>2 DEF MayHold, Fits

LEMMA RewiredType ==
    ASSUME NEW h \in Hosts, NEW dir \in {"cli", "wizard"}, NEW content,
           MayHold(h, content), Whole(content)
    PROVE  Fits(h, Rewired(dir, content))
<1>1. DOMAIN Rewired(dir, content) = DOMAIN content
  BY DEF Rewired
<1>2. ASSUME NEW s \in DOMAIN content
      PROVE  Rewired(dir, content)[s] \in HostEntry
  <2>1. content[s] \in HostEntry
    BY FilesAssumption DEF MayHold, Fits
  <2>2. SocketIn(dir, content[s]) \in {"own", "cli", "wizard"}
    BY <2>1, SocketType
  <2> QED
    BY <2>2 DEF Rewired, HostEntry
<1> QED
  BY <1>1, <1>2, FilesAssumption DEF MayHold, Fits

LEMMA ConfigType ==
    ASSUME NEW services \in Seq(ServiceEntry)
    PROVE  Fits(Mux, ConfigOf(services))
<1> DEFINE named(n) == {i \in DOMAIN services : services[i].name = n}
<1>1. DOMAIN ConfigOf(services) = {services[i].name : i \in DOMAIN services}
  BY DEF ConfigOf
<1>2. ASSUME NEW n \in DOMAIN ConfigOf(services)
      PROVE  n \in Names /\ ConfigOf(services)[n] \in MuxEntry
  <2>1. PICK rank : rank = [i \in named(n) |-> i]
    OBVIOUS
  <2>2. Ranks(named(n), rank)
    BY <2>1, IndicesRank
  <2>3. named(n) # {}
    BY <1>1, <1>2
  <2>4. \E x \in named(n) : \A y \in named(n) : rank[y] <= rank[x]
    <3> HIDE DEF named
    <3> QED
      BY <2>2, <2>3, ExtremesExist
  <2>5. \E i \in DOMAIN services :
           /\ services[i].name = n
           /\ \A j \in DOMAIN services : services[j].name = n => j <= i
    BY <2>1, <2>4
  <2>6. PICK last \in DOMAIN services :
           services[last].name = n /\ ConfigOf(services)[n] = services[last].config
    BY <1>1, <1>2, <2>5 DEF ConfigOf
  <2>7. services[last] \in ServiceEntry
    OBVIOUS
  <2> QED
    BY <2>6, <2>7 DEF ServiceEntry
<1> QED
  BY <1>1, <1>2 DEF MayHold, Fits

-----------------------------------------------------------------------------
(* What the wizard makes of them.                                          *)
LEMMA ConcatType ==
    ASSUME NEW X, NEW s \in Seq(X), NEW t \in Seq(X)
    PROVE  s \o t \in Seq(X)
  OBVIOUS

LEMMA ConfigsType ==
    /\ \A n \in Names : Config(n) \in MuxEntry
    /\ DefaultConfig \in MuxEntry
  BY WizardAssumption DEF Config, DefaultConfig, MuxEntry

LEMMA ServicesType ==
    ASSUME NEW content, MayHold(Mux, content), detected \subseteq Names
    PROVE  LoadAllServices(content) \in Seq(ServiceEntry)
<1> DEFINE configured == IF Whole(content) THEN DOMAIN content ELSE {}
           unknown == {n \in detected :
                          \A c \in configured : n # c /\ content[c].cmd # n}
           entry(n) == Service(n, IF n \in configured THEN content[n]
                                  ELSE Config(n))
<1>1. PICK listed : listed = Ranked(configured, NameRank) \o Ranked(unknown, NameRank)
  OBVIOUS
<1>2. listed \in Seq(Names)
  <2>1. configured \in SUBSET Names /\ unknown \in SUBSET Names
    BY DEF MayHold, Fits
  <2> HIDE DEF configured, unknown
  <2>2. Ranked(configured, NameRank) \in Seq(configured)
        /\ Ranked(unknown, NameRank) \in Seq(unknown)
    BY <2>1, RankedNames, RankedElements
  <2>3. Ranked(configured, NameRank) \in Seq(Names)
        /\ Ranked(unknown, NameRank) \in Seq(Names)
    BY <2>1, <2>2
  <2> QED
    BY <1>1, <2>3, ConcatType
<1>3. LoadAllServices(content) = [i \in DOMAIN listed |-> entry(listed[i])]
  BY <1>1 DEF LoadAllServices
<1>4. \A n \in Names : entry(n) \in ServiceEntry
  BY ConfigsType DEF Service, ServiceEntry, MayHold, Fits
<1>5. Len(listed) \in Nat /\ DOMAIN listed = 1..Len(listed)
      /\ \A i \in DOMAIN listed : listed[i] \in Names
  BY <1>2
<1> HIDE DEF entry
<1> QED
  BY <1>3, <1>4, <1>5

LEMMA ClientsType == DetectClients \in Seq(ClientEntry)
<1> DEFINE found == {h \in Hosts : file[h] # Missing}
           rewired(h) == /\ Scannable(file[h])
                         /\ \E s \in DOMAIN file[h] : file[h][s].cmd = "proxy"
           entry(h) == [host |-> h, selected |-> ~rewired(h),
                        already_rewired |-> rewired(h)]
<1>1. PICK listed : listed = Ranked(found, Rank) \o Ranked(Installed \ found, Rank)
  OBVIOUS
<1>2. listed \in Seq(Hosts)
  <2>1. found \in SUBSET Hosts /\ Installed \ found \in SUBSET Hosts
    BY WizardAssumption
  <2> HIDE DEF found
  <2>2. Ranked(found, Rank) \in Seq(found)
        /\ Ranked(Installed \ found, Rank) \in Seq(Installed \ found)
    BY <2>1, RankedHosts, RankedElements
  <2>3. Ranked(found, Rank) \in Seq(Hosts)
        /\ Ranked(Installed \ found, Rank) \in Seq(Hosts)
    BY <2>1, <2>2
  <2> QED
    BY <1>1, <2>3, ConcatType
<1>3. DetectClients = [i \in DOMAIN listed |-> entry(listed[i])]
  BY <1>1 DEF DetectClients
<1>4. \A h \in Hosts : entry(h) \in ClientEntry
  BY DEF ClientEntry
<1>5. Len(listed) \in Nat /\ DOMAIN listed = 1..Len(listed)
      /\ \A i \in DOMAIN listed : listed[i] \in Hosts
  BY <1>2
<1> HIDE DEF entry
<1> QED
  BY <1>3, <1>4, <1>5

LEMMA ToRewireType ==
    ASSUME NEW clients \in Seq(ClientEntry)
    PROVE  ToRewire(clients) \in Seq(Hosts)
<1> DEFINE chosen == {i \in DOMAIN clients : Chosen(clients[i])}
<1>1. PICK rank : rank = [i \in chosen |-> i]
  OBVIOUS
<1>2. PICK todo : todo = Ranked(chosen, rank)
  OBVIOUS
<1>3. todo \in Seq(chosen)
  <2>1. Ranks(chosen, rank)
    BY <1>1, IndicesRank
  <2> HIDE DEF chosen
  <2> QED
    BY <1>2, <2>1, RankedElements
<1>4. ToRewire(clients) = [k \in DOMAIN todo |-> clients[todo[k]].host]
  BY <1>1, <1>2 DEF ToRewire
<1>5. Len(todo) \in Nat /\ DOMAIN todo = 1..Len(todo)
      /\ \A k \in DOMAIN todo : todo[k] \in DOMAIN clients
  BY <1>3
<1>6. \A i \in DOMAIN clients : clients[i].host \in Hosts
  <2>1. \A i \in DOMAIN clients : clients[i] \in ClientEntry
    OBVIOUS
  <2> QED
    BY <2>1 DEF ClientEntry
<1> QED
  BY <1>4, <1>5, <1>6

-----------------------------------------------------------------------------
(* The wizard's state.                                                     *)
\* The cursors stay inside the lists, and the form shows what it was loaded
\* from until it is edited.
InLists(a) ==
    /\ a \in AppState
    /\ a.services # <<>> => a.selected_service \in DOMAIN a.services
    /\ a.clients # <<>> => a.selected_client \in DOMAIN a.clients
Shows(a) ==
    a.services # <<>> /\ ~a.form.dirty =>
        /\ a.form.name = a.services[a.selected_service].name
        /\ a.form.socket = a.services[a.selected_service].config.socket
Good(a) == InLists(a) /\ Shows(a)

LEMMA IdleGood == Good(IdleApp)
<1>1. IdleApp \in AppState
  BY WizardAssumption DEF IdleApp, NoForm, AppState, FormState
<1> QED
  BY <1>1 DEF Good, InLists, Shows, IdleApp

LEMMA SyncGood ==
    ASSUME NEW a, Good(a)
    PROVE  /\ Good(SyncForm(a))
           /\ DOMAIN SyncForm(a).services = DOMAIN a.services
           /\ SyncForm(a).selected_service = a.selected_service
           /\ SyncForm(a).clients = a.clients
           /\ SyncForm(a).selected_client = a.selected_client
<1>1. CASE ~a.form.dirty
  BY <1>1 DEF SyncForm
<1>2. CASE a.form.dirty /\ a.selected_service \notin DOMAIN a.services
  <2>1. PICK form : form = [a.form EXCEPT !.dirty = FALSE]
    OBVIOUS
  <2>2. a.services = <<>> /\ a \in AppState
    BY <1>2 DEF Good, InLists
  <2>3. SyncForm(a) = [a EXCEPT !.services = a.services, !.form = form]
    BY <1>2, <2>1, <2>2 DEF SyncForm, AppState
  <2>4. form \in FormState
    BY <2>1, <2>2 DEF AppState, FormState
  <2>5. SyncForm(a) \in AppState
    BY <2>2, <2>3, <2>4 DEF AppState
  <2>6. /\ SyncForm(a).services = a.services
        /\ SyncForm(a).selected_service = a.selected_service
        /\ SyncForm(a).clients = a.clients
        /\ SyncForm(a).selected_client = a.selected_client
    BY <2>2, <2>3 DEF AppState
  <2> QED
    BY <2>2, <2>5, <2>6 DEF Good, InLists, Shows
<1>3. CASE a.form.dirty /\ a.selected_service \in DOMAIN a.services
  <2> DEFINE k == a.selected_service
  <2>1. PICK new : new = ServiceFromForm(a.form, a.services[k])
    OBVIOUS
  <2>2. PICK list : list = [a.services EXCEPT ![k] = new]
    OBVIOUS
  <2>3. a \in AppState /\ a.services \in Seq(ServiceEntry) /\ a.form \in FormState
    BY DEF Good, InLists, AppState
  <2>4. /\ new \in ServiceEntry
        /\ new.name = a.form.name /\ new.config.socket = a.form.socket
    <3>1. a.services[k] \in ServiceEntry
      BY <1>3, <2>3
    <3> QED
      BY <2>1, <2>3, <3>1 DEF ServiceFromForm, ServiceEntry, FormState, MuxEntry
  <2>5. list \in Seq(ServiceEntry) /\ DOMAIN list = DOMAIN a.services
        /\ list[k] = new /\ list # <<>>
    BY <1>3, <2>2, <2>3, <2>4
  <2>6. PICK form : form = [a.form EXCEPT !.dirty = FALSE]
    OBVIOUS
  <2>7. form \in FormState /\ form.name = a.form.name
        /\ form.socket = a.form.socket
    BY <2>3, <2>6 DEF FormState
  <2>8. SyncForm(a) = [a EXCEPT !.services = list, !.form = form]
    BY <1>3, <2>1, <2>2, <2>3, <2>6 DEF SyncForm, AppState
  <2>9. SyncForm(a) \in AppState
    BY <2>3, <2>5, <2>7, <2>8 DEF AppState
  <2>10. /\ SyncForm(a).services = list /\ SyncForm(a).form = form
         /\ SyncForm(a).selected_service = k
         /\ SyncForm(a).clients = a.clients
         /\ SyncForm(a).selected_client = a.selected_client
    BY <2>3, <2>8 DEF AppState
  <2> QED
    BY <1>3, <2>4, <2>5, <2>7, <2>9, <2>10 DEF Good, InLists, Shows
<1> QED
  BY <1>1, <1>2, <1>3

LEMMA LoadGood ==
    ASSUME NEW a, InLists(a)
    PROVE  a.services # <<>> => Good(LoadForm(a))
<1> SUFFICES ASSUME a.services # <<>> PROVE Good(LoadForm(a))
  OBVIOUS
<1> DEFINE k == a.selected_service
<1>1. k \in DOMAIN a.services /\ a \in AppState
  BY DEF InLists
<1>2. a.services[k] \in ServiceEntry
  BY <1>1 DEF AppState
<1>3. PICK form : form = FormFromService(a.services[k])
  OBVIOUS
<1>4. /\ form \in FormState /\ form.name = a.services[k].name
      /\ form.socket = a.services[k].config.socket
  BY <1>2, <1>3 DEF FormFromService, FormState, ServiceEntry, MuxEntry
<1>5. LoadForm(a) = [a EXCEPT !.form = form]
  BY <1>1, <1>3 DEF LoadForm
<1>6. LoadForm(a) \in AppState
  BY <1>1, <1>4, <1>5 DEF AppState
<1>7. /\ LoadForm(a).form = form /\ LoadForm(a).services = a.services
      /\ LoadForm(a).selected_service = k /\ LoadForm(a).clients = a.clients
      /\ LoadForm(a).selected_client = a.selected_client
  BY <1>1, <1>5 DEF AppState
<1> QED
  BY <1>4, <1>6, <1>7 DEF Good, InLists, Shows

\* Without a service there is nothing to load.
LEMMA LoadNothing ==
    ASSUME NEW a, InLists(a), a.services = <<>>
    PROVE  Good(LoadForm(a))
<1>1. DOMAIN a.services = {}
  OBVIOUS
<1>2. LoadForm(a) = a
  BY <1>1 DEF LoadForm
<1> QED
  BY <1>2 DEF Good, Shows

LEMMA TurnType ==
    ASSUME NEW by \in {-1, 1}
    PROVE  /\ \A x \in {"SaveAll", "SaveMuxOnly", "Back", "Exit"} :
                 Turn(Choices, x, by) \in {"SaveAll", "SaveMuxOnly", "Back", "Exit"}
           /\ \A x \in {"ServiceName", "Tray"} :
                 Turn(Fields, x, by) \in {"ServiceName", "Tray"}
<1>1. ASSUME NEW n \in {2, 4}, NEW i \in 1..n
      PROVE  ((i - 1 + by + n) % n) + 1 \in 1..n
  BY <1>1
<1>2. ASSUME NEW seq, NEW X, NEW n \in {2, 4}, DOMAIN seq = 1..n, Len(seq) = n,
             \A i \in 1..n : seq[i] \in X,
             NEW x, \E j \in 1..n : seq[j] = x
      PROVE  Turn(seq, x, by) \in X
  <2>1. PICK i : i = CHOOSE j \in 1..Len(seq) : seq[j] = x
    OBVIOUS
  <2>2. i \in 1..n
    BY <1>2, <2>1
  <2>3. Turn(seq, x, by) = seq[((i - 1 + by + n) % n) + 1]
    BY <1>2, <2>1 DEF Turn
  <2> QED
    BY <1>1, <1>2, <2>2, <2>3
<1>3. /\ DOMAIN Choices = 1..4 /\ Len(Choices) = 4
      /\ \A i \in 1..4 : Choices[i] \in {"SaveAll", "SaveMuxOnly", "Back", "Exit"}
      /\ \A x \in {"SaveAll", "SaveMuxOnly", "Back", "Exit"} :
            \E j \in 1..4 : Choices[j] = x
  BY DEF Choices
<1>4. /\ DOMAIN Fields = 1..2 /\ Len(Fields) = 2
      /\ \A i \in 1..2 : Fields[i] \in {"ServiceName", "Tray"}
      /\ \A x \in {"ServiceName", "Tray"} : \E j \in 1..2 : Fields[j] = x
  BY DEF Fields
<1> QED
  BY <1>2, <1>3, <1>4

-----------------------------------------------------------------------------
(* Key by key.                                                             *)
LEMMA ToggledService ==
    ASSUME NEW list \in Seq(ServiceEntry), NEW i \in DOMAIN list
    PROVE  /\ Toggle(list, i) \in Seq(ServiceEntry)
           /\ DOMAIN Toggle(list, i) = DOMAIN list
           /\ \A j \in DOMAIN list :
                 /\ Toggle(list, i)[j].name = list[j].name
                 /\ Toggle(list, i)[j].config = list[j].config
<1>1. PICK new : new = [list[i] EXCEPT !.selected = ~list[i].selected]
  OBVIOUS
<1>2. list[i] \in ServiceEntry
  OBVIOUS
<1>3. /\ new \in ServiceEntry
      /\ new.name = list[i].name /\ new.config = list[i].config
  BY <1>1, <1>2 DEF ServiceEntry
<1>4. Toggle(list, i) = [list EXCEPT ![i] = new]
  BY <1>1, <1>2 DEF Toggle, ServiceEntry
<1> QED
  BY <1>3, <1>4

LEMMA ToggledClient ==
    ASSUME NEW list \in Seq(ClientEntry), NEW i \in DOMAIN list
    PROVE  /\ Toggle(list, i) \in Seq(ClientEntry)
           /\ DOMAIN Toggle(list, i) = DOMAIN list
<1>1. PICK new : new = [list[i] EXCEPT !.selected = ~list[i].selected]
  OBVIOUS
<1>2. list[i] \in ClientEntry
  OBVIOUS
<1>3. new \in ClientEntry
  BY <1>1, <1>2 DEF ClientEntry
<1>4. Toggle(list, i) = [list EXCEPT ![i] = new]
  BY <1>1, <1>2 DEF Toggle, ClientEntry
<1> QED
  BY <1>3, <1>4

LEMMA MoreServices ==
    ASSUME Good(app), Len(app.services) < MaxServices
    PROVE  Good(LoadForm([app EXCEPT
              !.services = Append(@, Service(FreshName[Len(app.services) + 1],
                                             DefaultConfig)),
              !.selected_service = Len(app.services) + 1]))
<1> DEFINE n == Len(app.services) + 1
<1>1. app \in AppState /\ app.services \in Seq(ServiceEntry)
  BY DEF Good, InLists, AppState
<1>2. PICK new : new = Service(FreshName[n], DefaultConfig)
  OBVIOUS
<1>3. new \in ServiceEntry
  <2>1. n \in 1..MaxServices
    BY <1>1, WizardAssumption
  <2> QED
    BY <1>2, <2>1, ConfigsType, WizardAssumption DEF Service, ServiceEntry
<1>4. PICK more : more = Append(app.services, new)
  OBVIOUS
<1>5. more \in Seq(ServiceEntry) /\ more # <<>> /\ n \in DOMAIN more /\ n \in Nat
  BY <1>1, <1>3, <1>4
<1>6. PICK a : a = [app EXCEPT !.services = more, !.selected_service = n]
  OBVIOUS
<1>7. InLists(a) /\ a.services # <<>>
  <2>1. a \in AppState
    BY <1>1, <1>5, <1>6 DEF AppState
  <2>2. /\ a.services = more /\ a.selected_service = n
        /\ a.clients = app.clients /\ a.selected_client = app.selected_client
    BY <1>1, <1>6 DEF AppState
  <2> QED
    BY <1>5, <2>1, <2>2 DEF Good, InLists
<1>8. Good(LoadForm(a))
  BY <1>7, LoadGood
<1> QED
  BY <1>2, <1>4, <1>6, <1>8

\* A change that leaves the lists, the cursors and the form alone.
SameLists(a, b) ==
    /\ b \in AppState
    /\ \A f \in {"services", "selected_service", "clients", "selected_client",
                 "form"} : b[f] = a[f]

LEMMA SameListsGood ==
    ASSUME NEW a, NEW b, Good(a), SameLists(a, b)
    PROVE  Good(b)
  BY DEF Good, InLists, Shows, SameLists

\* The lists and cursors the wizard goes on with after the move by.
LEMMA MovedGood ==
    ASSUME Good(app), NEW by \in {-1, 1},
           app.selected_service + by \in DOMAIN app.services
    PROVE  Good(AfterMove([SyncForm(app) EXCEPT !.selected_service = @ + by]))
<1>1. PICK b : b = SyncForm(app)
  OBVIOUS
<1>2. /\ Good(b) /\ DOMAIN b.services = DOMAIN app.services
      /\ b.selected_service = app.selected_service
  BY <1>1, SyncGood
<1>3. PICK k : k = app.selected_service + by
  OBVIOUS
<1>4. k \in DOMAIN b.services /\ b.services # <<>> /\ k \in Nat
      /\ b \in AppState
  <2>1. app \in AppState /\ b \in AppState
    BY <1>2 DEF Good, InLists
  <2>2. app.services \in Seq(ServiceEntry) /\ b.services \in Seq(ServiceEntry)
    BY <2>1 DEF AppState
  <2> QED
    BY <1>2, <1>3, <2>1, <2>2
<1>5. PICK a : a = [b EXCEPT !.selected_service = k]
  OBVIOUS
<1>6. InLists(a) /\ a.services # <<>>
  <2>1. a \in AppState /\ a.services = b.services /\ a.selected_service = k
        /\ a.clients = b.clients /\ a.selected_client = b.selected_client
    BY <1>4, <1>5 DEF AppState
  <2> QED
    BY <1>2, <1>4, <2>1 DEF Good, InLists
<1>7. Good(LoadForm(a))
  BY <1>6, LoadGood
<1> QED
  BY <1>1, <1>2, <1>3, <1>5, <1>7 DEF AfterMove

\* The keys that only move between panels, steps and choices.
LEMMA PanelKeys ==
    ASSUME Good(app), Reads,
           \/ KeyTab \/ KeyEsc \/ DialogBack \/ KeyPrevious
           \/ \E by \in {-1, 1} : DialogArrow(by)
    PROVE  SameLists(app, app')
<1>1. app \in AppState
  BY DEF Good, InLists
<1> USE DEF Becomes, SameLists
<1>2. CASE KeyTab \/ KeyEsc \/ DialogBack \/ KeyPrevious
  BY <1>1, <1>2 DEF KeyTab, KeyEsc, DialogBack, KeyPrevious, AppState
<1>3. ASSUME NEW by \in {-1, 1}, DialogArrow(by) PROVE SameLists(app, app')
  <2>1. PICK choice : choice = Turn(Choices, app.confirm_choice, by)
    OBVIOUS
  <2>2. choice \in {"SaveAll", "SaveMuxOnly", "Back", "Exit"}
    BY <1>1, <2>1, TurnType DEF AppState
  <2>3. app' = [app EXCEPT !.confirm_choice = choice]
    BY <1>1, <1>3, <2>1 DEF DialogArrow, AppState
  <2> QED
    BY <1>1, <2>2, <2>3 DEF AppState
<1> QED
  BY <1>2, <1>3

LEMMA ArrowGood ==
    ASSUME Good(app), NEW by \in {-1, 1}, KeyArrow(by)
    PROVE  Good(app')
<1>1. app \in AppState
  BY DEF Good, InLists
<1>2. CASE /\ app.selected_service + by \in DOMAIN app.services
           /\ Becomes(AfterMove([SyncForm(app) EXCEPT !.selected_service = @ + by]))
  BY <1>2, MovedGood DEF Becomes
<1>3. CASE Becomes([app EXCEPT !.current_field = Turn(Fields, @, by)])
  <2>1. PICK field : field = Turn(Fields, app.current_field, by)
    OBVIOUS
  <2>2. field \in {"ServiceName", "Tray"}
    BY <1>1, <2>1, TurnType DEF AppState
  <2>3. app' = [app EXCEPT !.current_field = field]
    BY <1>1, <1>3, <2>1 DEF Becomes, AppState
  <2>4. SameLists(app, app')
    BY <1>1, <2>2, <2>3 DEF SameLists, AppState
  <2> QED
    BY <2>4, SameListsGood
<1>4. CASE Becomes([app EXCEPT !.confirm_choice = Turn(Choices, @, by)])
  <2>1. PICK choice : choice = Turn(Choices, app.confirm_choice, by)
    OBVIOUS
  <2>2. choice \in {"SaveAll", "SaveMuxOnly", "Back", "Exit"}
    BY <1>1, <2>1, TurnType DEF AppState
  <2>3. app' = [app EXCEPT !.confirm_choice = choice]
    BY <1>1, <1>4, <2>1 DEF Becomes, AppState
  <2>4. SameLists(app, app')
    BY <1>1, <2>2, <2>3 DEF SameLists, AppState
  <2> QED
    BY <2>4, SameListsGood
<1>5. CASE Becomes([app EXCEPT !.health_choice =
                       IF @ = "Ok" THEN "TryAgain" ELSE "Ok"])
  <2>1. SameLists(app, app')
    BY <1>1, <1>5 DEF Becomes, SameLists, AppState
  <2> QED
    BY <2>1, SameListsGood
<1>6. CASE /\ app.selected_client + by \in DOMAIN app.clients
           /\ Becomes([app EXCEPT !.selected_client = @ + by])
  <2>1. PICK k : k = app.selected_client + by
    OBVIOUS
  <2>2. k \in DOMAIN app.clients /\ k \in Nat
    BY <1>1, <1>6, <2>1 DEF AppState
  <2>3. app' = [app EXCEPT !.selected_client = k]
    BY <1>1, <1>6, <2>1 DEF Becomes, AppState
  <2>4. app' \in AppState
    BY <1>1, <2>2, <2>3 DEF AppState
  <2>5. /\ app'.selected_client = k /\ app'.clients = app.clients
        /\ app'.services = app.services /\ app'.form = app.form
        /\ app'.selected_service = app.selected_service
    BY <1>1, <2>3 DEF AppState
  <2> QED
    BY <2>2, <2>4, <2>5 DEF Good, InLists, Shows
<1> QED
  BY <1>2, <1>3, <1>4, <1>5, <1>6 DEF KeyArrow

LEMMA SaveKeyGood ==
    ASSUME Good(app), NEW control, KeySave(control)
    PROVE  Good(app')
<1>1. PICK b : b = SyncForm(app)
  OBVIOUS
<1>2. Good(b)
  BY <1>1, SyncGood
<1>3. app' = [b EXCEPT !.active_panel = "ConfirmDialog",
                       !.confirm_choice = "SaveAll"]
  BY <1>1 DEF KeySave, BeforeDialog, Becomes
<1>4. SameLists(b, app')
  BY <1>2, <1>3 DEF SameLists, Good, InLists, AppState
<1> QED
  BY <1>2, <1>4, SameListsGood

\* Editing the form: what it shows is no longer what it was loaded from.
LEMMA EditGood ==
    ASSUME Good(app),
           Edits(app) \/ \E n \in Names : Edits([app EXCEPT !.form.name = n])
    PROVE  Good(app')
<1>1. app \in AppState
  BY DEF Good, InLists
<1>2. PICK form \in FormState : form.dirty /\ app' = [app EXCEPT !.form = form]
  <2>1. CASE Edits(app)
    <3>1. PICK form : form = [app.form EXCEPT !.dirty = TRUE]
      OBVIOUS
    <3>2. form \in FormState /\ form.dirty
      BY <1>1, <3>1 DEF AppState, FormState
    <3>3. app' = [app EXCEPT !.form = form]
      BY <1>1, <2>1, <3>1 DEF Edits, AppState
    <3> QED
      BY <3>2, <3>3
  <2>2. ASSUME NEW n \in Names, Edits([app EXCEPT !.form.name = n])
        PROVE  \E form \in FormState : form.dirty /\ app' = [app EXCEPT !.form = form]
    <3>1. PICK form : form = [app.form EXCEPT !.name = n, !.dirty = TRUE]
      OBVIOUS
    <3>2. form \in FormState /\ form.dirty
      BY <1>1, <3>1 DEF AppState, FormState
    <3>3. app' = [app EXCEPT !.form = form]
      BY <1>1, <2>2, <3>1 DEF Edits, AppState, FormState
    <3> QED
      BY <3>2, <3>3
  <2> QED
    BY <2>1, <2>2
<1>3. app' \in AppState
  BY <1>1, <1>2 DEF AppState
<1>4. app'.form.dirty
      /\ \A f \in {"services", "selected_service", "clients", "selected_client"} :
            app'[f] = app[f]
  BY <1>1, <1>2 DEF AppState
<1> QED
  BY <1>3, <1>4 DEF Good, InLists, Shows

LEMMA ClientToggleGood ==
    ASSUME Good(app), ToggleClient
    PROVE  Good(app')
<1>1. app \in AppState /\ app.clients \in Seq(ClientEntry)
  BY DEF Good, InLists, AppState
<1>2. PICK list : list = Toggle(app.clients, app.selected_client)
  OBVIOUS
<1>3. list \in Seq(ClientEntry) /\ DOMAIN list = DOMAIN app.clients
  BY <1>1, <1>2, ToggledClient DEF ToggleClient
<1>4. app' = [app EXCEPT !.clients = list]
  BY <1>2 DEF ToggleClient, Becomes
<1>5. app' \in AppState
  BY <1>1, <1>3, <1>4 DEF AppState
<1>6. app'.clients = list
      /\ \A f \in {"services", "selected_service", "selected_client", "form"} :
            app'[f] = app[f]
  BY <1>1, <1>4 DEF AppState
<1>7. app.selected_client \in DOMAIN list
  BY <1>3 DEF ToggleClient
<1> QED
  BY <1>5, <1>6, <1>7 DEF Good, InLists, Shows

LEMMA ServiceToggleGood ==
    ASSUME Good(app), app.selected_service \in DOMAIN app.services,
           Becomes([app EXCEPT
              !.services = Toggle(app.services, app.selected_service)])
    PROVE  Good(app')
<1>1. app \in AppState /\ app.services \in Seq(ServiceEntry)
  BY DEF Good, InLists, AppState
<1> DEFINE k == app.selected_service
<1>2. PICK list : list = Toggle(app.services, k)
  OBVIOUS
<1>3. /\ list \in Seq(ServiceEntry) /\ DOMAIN list = DOMAIN app.services
      /\ list[k].name = app.services[k].name
      /\ list[k].config = app.services[k].config
  BY <1>1, <1>2, ToggledService
<1>4. app' = [app EXCEPT !.services = list]
  BY <1>2 DEF Becomes
<1>5. app' \in AppState
  BY <1>1, <1>3, <1>4 DEF AppState
<1>6. app'.services = list
      /\ \A f \in {"clients", "selected_service", "selected_client", "form"} :
            app'[f] = app[f]
  BY <1>1, <1>4 DEF AppState
<1>7. app.services # <<>>
  BY <1>1
<1> QED
  BY <1>3, <1>5, <1>6, <1>7 DEF Good, InLists, Shows

LEMMA NextKeyGood ==
    ASSUME Good(app), KeyNext
    PROVE  Good(app')
<1>1. CASE Becomes([app EXCEPT !.wizard_step = "Confirmation",
                               !.active_panel = "ConfirmDialog",
                               !.confirm_choice = "SaveAll"])
  <2>1. SameLists(app, app')
    BY <1>1 DEF Becomes, SameLists, Good, InLists, AppState
  <2> QED
    BY <2>1, SameListsGood
<1>2. CASE Becomes([SyncForm(app) EXCEPT !.wizard_step = "ClientSelection",
                                         !.clients = DetectClients,
                                         !.selected_client = 1,
                                         !.active_panel = "ServiceList"])
  <2>1. PICK b : b = SyncForm(app)
    OBVIOUS
  <2>2. Good(b) /\ b \in AppState
    BY <2>1, SyncGood DEF Good, InLists
  <2>3. PICK clients : clients = DetectClients
    OBVIOUS
  <2>4. clients \in Seq(ClientEntry)
    BY <2>3, ClientsType
  <2>5. app' = [b EXCEPT !.wizard_step = "ClientSelection", !.clients = clients,
                         !.selected_client = 1, !.active_panel = "ServiceList"]
    BY <1>2, <2>1, <2>3 DEF Becomes
  <2>6. app' \in AppState
    BY <2>2, <2>4, <2>5 DEF AppState
  <2>7. app'.clients = clients /\ app'.selected_client = 1
        /\ \A f \in {"services", "selected_service", "form"} : app'[f] = b[f]
    BY <2>2, <2>5 DEF AppState
  <2>8. clients # <<>> => 1 \in DOMAIN clients
    BY <2>4
  <2> QED
    BY <2>2, <2>6, <2>7, <2>8 DEF Good, InLists, Shows
<1> QED
  BY <1>1, <1>2 DEF KeyNext

\* What the steps need of the files and the servers.
ReadsOK == MayHold(Mux, file[Mux]) /\ detected \subseteq Names

LEMMA TryAgainGood ==
    ASSUME Good(app), ReadsOK, KeyTryAgain
    PROVE  Good(app')
<1>1. app \in AppState /\ app.services \in Seq(ServiceEntry)
  BY DEF Good, InLists, AppState
<1>2. PICK services : services = IF file[Mux] = Partial THEN app.services
                                 ELSE LoadAllServices(file[Mux])
  OBVIOUS
<1>3. services \in Seq(ServiceEntry)
  BY <1>1, <1>2, ServicesType DEF ReadsOK
<1>0. PICK none : none = <<>> /\ none \in Seq(ClientEntry)
  <2>1. <<>> \in Seq(ClientEntry)
    OBVIOUS
  <2>2. PICK none : none = <<>>
    OBVIOUS
  <2> QED
    BY <2>1, <2>2
<1>4. PICK a : a = [app EXCEPT !.services = services, !.clients = none,
                      !.selected_client = 1,
                      !.wizard_step = "ServerSelection",
                      !.selected_service = 1,
                      !.active_panel = "ServiceList",
                      !.health_choice = "Ok"]
  OBVIOUS
<1>5. app' = LoadForm(a)
  BY <1>0, <1>1, <1>2, <1>4 DEF KeyTryAgain, Becomes, CursorAfterReload, AppState
<1>6. InLists(a) /\ a.services = services
  <2>1. a \in AppState
    BY <1>0, <1>1, <1>3, <1>4 DEF AppState
  <2>2. a.services = services /\ a.selected_service = 1 /\ a.clients = <<>>
    BY <1>0, <1>1, <1>4 DEF AppState
  <2>3. services # <<>> => 1 \in DOMAIN services
    BY <1>3
  <2> QED
    BY <2>1, <2>2, <2>3 DEF InLists
<1> QED
  BY <1>5, <1>6, LoadGood, LoadNothing

\* The service the wizard was asked for is in the list it starts with.
LEMMA FirstNamed ==
    ASSUME NEW services \in Seq(ServiceEntry), NEW wanted,
           \E i \in DOMAIN services : services[i].name = wanted,
           NEW k, k = CHOOSE i \in DOMAIN services :
                         /\ services[i].name = wanted
                         /\ \A j \in 1..(i - 1) : services[j].name # wanted
    PROVE  k \in DOMAIN services
<1> DEFINE named == {i \in DOMAIN services : services[i].name = wanted}
<1>1. PICK rank : rank = [i \in named |-> i]
  OBVIOUS
<1>2. Ranks(named, rank) /\ named # {}
  BY <1>1, IndicesRank
<1>3. \E x \in named : \A y \in named : rank[x] <= rank[y]
  <2> HIDE DEF named
  <2> QED
    BY <1>2, ExtremesExist
<1>4. PICK x \in named : \A y \in named : x <= y
  BY <1>1, <1>3
<1>5. DOMAIN services = 1..Len(services) /\ Len(services) \in Nat
  OBVIOUS
<1>6. \A j \in 1..(x - 1) : services[j].name # wanted
  BY <1>4, <1>5
<1> QED
  BY <1>4, <1>6

LEMMA StartGood ==
    ASSUME ReadsOK, dryRuns \in BOOLEAN, NEW wanted \in Names \cup {"none"},
           StartWizard(wanted)
    PROVE  Good(app')
<1> DEFINE loaded == LoadAllServices(file[Mux])
           missing == wanted # "none"
                      /\ \A i \in DOMAIN loaded : loaded[i].name # wanted
           extended == IF missing
                       THEN Append(loaded, Service(wanted, DefaultConfig))
                       ELSE loaded
           all == IF extended = <<>>
                  THEN <<Service(DefaultName, DefaultConfig)>> ELSE extended
           first == IF wanted = "none" THEN 1
                    ELSE CHOOSE i \in DOMAIN all :
                             /\ all[i].name = wanted
                             /\ \A j \in 1..(i - 1) : all[j].name # wanted
<1>1. loaded \in Seq(ServiceEntry)
  BY ServicesType DEF ReadsOK
<1>2. ASSUME NEW n \in Names
      PROVE  Service(n, DefaultConfig) \in ServiceEntry
             /\ Service(n, DefaultConfig).name = n
  BY ConfigsType DEF Service, ServiceEntry
<1>3. PICK list : list = all
  OBVIOUS
<1>4. /\ list \in Seq(ServiceEntry) /\ list # <<>>
      /\ wanted # "none" => \E i \in DOMAIN list : list[i].name = wanted
  <2>1. PICK have : have = loaded
    OBVIOUS
  <2>2. CASE missing
    <3>1. PICK new : new = Service(wanted, DefaultConfig)
      OBVIOUS
    <3>2. new \in ServiceEntry /\ new.name = wanted
      BY <1>2, <2>2, <3>1
    <3>3. list = Append(have, new) /\ have \in Seq(ServiceEntry)
      <4>1. Append(have, new) # <<>>
        BY <1>1, <2>1, <3>2
      <4> QED
        BY <1>1, <1>3, <2>1, <2>2, <3>1, <4>1
    <3>4. Len(have) + 1 \in DOMAIN list /\ list[Len(have) + 1] = new
          /\ list \in Seq(ServiceEntry) /\ list # <<>>
      BY <3>2, <3>3
    <3> QED
      BY <3>2, <3>4
  <2>3. CASE ~missing /\ loaded # <<>>
    <3>1. list = have /\ have \in Seq(ServiceEntry) /\ have # <<>>
      BY <1>1, <1>3, <2>1, <2>3
    <3> QED
      BY <2>1, <2>3, <3>1
  <2>4. CASE ~missing /\ loaded = <<>>
    <3>1. DOMAIN <<>> = {}
      OBVIOUS
    <3>2. wanted = "none"
      BY <2>4, <3>1
    <3>3. list = <<Service(DefaultName, DefaultConfig)>>
      BY <1>3, <2>4
    <3>4. Service(DefaultName, DefaultConfig) \in ServiceEntry
      BY <1>2, WizardAssumption
    <3> QED
      BY <3>2, <3>3, <3>4
  <2> QED
    BY <2>2, <2>3, <2>4
<1>5. PICK k : k = first
  OBVIOUS
<1>6. k \in DOMAIN list /\ k \in Nat
  <2>1. DOMAIN list = 1..Len(list) /\ Len(list) \in Nat /\ 1 \in DOMAIN list
    BY <1>4
  <2>2. CASE wanted = "none"
    BY <1>5, <2>1, <2>2
  <2>3. CASE wanted # "none"
    <3>1. k = CHOOSE i \in DOMAIN list :
                 /\ list[i].name = wanted
                 /\ \A j \in 1..(i - 1) : list[j].name # wanted
      BY <1>3, <1>5, <2>3
    <3>2. k \in DOMAIN list
      BY <1>4, <2>3, <3>1, FirstNamed
    <3> QED
      BY <2>1, <3>2
  <2> QED
    BY <2>2, <2>3
<1>7. PICK a : a = [IdleApp EXCEPT !.services = list, !.selected_service = k,
                                   !.dry_run = dryRuns]
  OBVIOUS
<1>8. app' = LoadForm(a)
  <2>1. app' = LoadForm([IdleApp EXCEPT !.services = all,
                                        !.selected_service = first,
                                        !.dry_run = dryRuns])
    BY DEF StartWizard
  <2> HIDE DEF all, first
  <2> QED
    BY <1>3, <1>5, <1>7, <2>1
<1>9. InLists(a) /\ a.services # <<>>
  <2>1. IdleApp \in AppState /\ IdleApp.clients = <<>>
    BY IdleGood DEF Good, InLists, IdleApp
  <2>2. a \in AppState
    BY <1>4, <1>6, <1>7, <2>1 DEF AppState
  <2>3. a.services = list /\ a.selected_service = k /\ a.clients = <<>>
    BY <1>7, <2>1 DEF AppState
  <2> QED
    BY <1>4, <1>6, <2>2, <2>3 DEF InLists
<1> QED
  BY <1>8, <1>9, LoadGood

LEMMA HealthGood ==
    ASSUME Good(app)
    PROVE  Good(HealthStep)
<1>1. SameLists(app, HealthStep)
  BY DEF SameLists, HealthStep, Good, InLists, AppState
<1> QED
  BY <1>1, SameListsGood

LEMMA EnterGood ==
    ASSUME Good(app), KeyEnter
    PROVE  Good(app')
<1> DEFINE opened == [app EXCEPT !.active_panel = "Editor"]
           edited == [app EXCEPT !.editing = app.current_field]
           back == [app EXCEPT !.wizard_step = "ClientSelection",
                               !.active_panel = "ServiceList"]
<1>1. CASE Becomes(opened) \/ Becomes(back)
  <2>1. SameLists(app, app')
    BY <1>1 DEF Becomes, SameLists, Good, InLists, AppState
  <2> QED
    BY <2>1, SameListsGood
<1>2. CASE Becomes(edited) /\ app.current_field # "Tray"
  <2>1. SameLists(app, app')
    BY <1>2 DEF Becomes, SameLists, Good, InLists, AppState
  <2> QED
    BY <2>1, SameListsGood
<1>3. CASE ToggleTray
  BY <1>3, EditGood DEF ToggleTray
<1>4. CASE ToggleClient
  BY <1>4, ClientToggleGood
<1>5. CASE Becomes(HealthStep)
  BY <1>5, HealthGood DEF Becomes
<1>6. ASSUME NEW why, NEW paths, Saves(why, paths) PROVE Good(app')
  BY <1>6 DEF Saves
<1>7. CASE Leaves
  BY <1>7, IdleGood DEF Leaves, Forgets
<1> HIDE DEF opened, edited, back
<1> QED
  BY <1>1, <1>2, <1>3, <1>4, <1>5, <1>6, <1>7 DEF KeyEnter, opened, edited, back

LEMMA AppStep ==
    ASSUME Good(app), ReadsOK, dryRuns \in BOOLEAN, WizardStep
    PROVE  Good(app')
<1>1. ASSUME NEW wanted \in Names \cup {"none"}, StartWizard(wanted)
      PROVE  Good(app')
  BY <1>1, StartGood
<1>2. CASE Forgets
  BY <1>2, IdleGood DEF Forgets
<1>3. CASE KeyTab \/ KeyEsc \/ DialogBack \/ KeyPrevious
  BY <1>3, PanelKeys, SameListsGood
  DEF KeyTab, KeyEsc, DialogBack, KeyPrevious, Key
<1>4. ASSUME NEW by \in {-1, 1}, DialogArrow(by) PROVE Good(app')
  BY <1>4, PanelKeys, SameListsGood DEF DialogArrow
<1>5. CASE KeySpace
  BY <1>5, ServiceToggleGood, EditGood, ClientToggleGood DEF KeySpace, ToggleTray
<1>6. CASE KeyText
  BY <1>6, EditGood DEF KeyText
<1>7. CASE KeyAdd
  BY <1>7, MoreServices DEF KeyAdd, Becomes
<1>8. CASE Saved
  BY <1>2, <1>8, HealthGood DEF Saved, Leaves
<1>9. CASE DialogEnter
  BY <1>2, <1>9 DEF DialogEnter, Saves, Leaves
<1>10. CASE WizardWrites
  BY <1>10 DEF WizardWrites, wizardVars
<1>11. CASE KeyQuit \/ PersistFails
  BY <1>2, <1>11 DEF KeyQuit, PersistFails, Leaves, BreaksOff
<1> QED
  BY <1>1, <1>3, <1>4, <1>5, <1>6, <1>7, <1>8, <1>9, <1>10, <1>11, ArrowGood,
     SaveKeyGood, NextKeyGood, TryAgainGood, EnterGood DEF WizardStep

-----------------------------------------------------------------------------
(* Types.                                                                  *)

\* What no key touches, and the count of the changes.
LEMMA RestStep ==
    ASSUME WizardStep, edits \in 0..MaxEdits
    PROVE  UNCHANGED <<detected, dryRuns>> /\ edits' \in 0..MaxEdits
<1> USE WizardAssumption DEF Becomes, Saves, Leaves, BreaksOff, Forgets
<1>1. ASSUME NEW a, Edits(a)
      PROVE  UNCHANGED <<detected, dryRuns>> /\ edits' \in 0..MaxEdits
  BY <1>1 DEF Edits
<1>2. ASSUME NEW wanted, StartWizard(wanted)
      PROVE  UNCHANGED <<detected, dryRuns, edits>>
  BY <1>2 DEF StartWizard
<1>3. CASE KeyQuit \/ KeyTab \/ KeyEsc \/ KeyNext \/ KeyPrevious \/ KeyAdd
  BY <1>3 DEF KeyQuit, KeyTab, KeyEsc, KeyNext, KeyPrevious, KeyAdd
<1>4. ASSUME NEW control, KeySave(control) PROVE UNCHANGED <<detected, dryRuns, edits>>
  BY <1>4 DEF KeySave
<1>5. ASSUME NEW by, KeyArrow(by) \/ DialogArrow(by)
      PROVE  UNCHANGED <<detected, dryRuns, edits>>
  BY <1>5 DEF KeyArrow, DialogArrow
<1>6. CASE KeySpace
  BY <1>1, <1>6 DEF KeySpace, ToggleTray, ToggleClient
<1>7. CASE KeyText
  BY <1>1, <1>7 DEF KeyText
<1>8. CASE KeyEnter
  BY <1>1, <1>8 DEF KeyEnter, ToggleTray, ToggleClient
<1>9. CASE KeyTryAgain \/ PersistFails \/ Saved
  BY <1>9 DEF KeyTryAgain, PersistFails, Saved
<1>10. CASE WizardWrites
  BY <1>10 DEF WizardWrites, wizardVars
<1>11. CASE DialogEnter \/ DialogBack
  BY <1>11 DEF DialogEnter, DialogBack
<1> QED
  BY <1>2, <1>3, <1>4, <1>5, <1>6, <1>7, <1>8, <1>9, <1>10, <1>11 DEF WizardStep

TypeInv == TypeOK /\ Shows(app)

LEMMA TypeInit == Init => TypeInv
<1> SUFFICES ASSUME Init PROVE TypeInv
  OBVIOUS
<1>1. Good(app)
  BY IdleGood DEF Init, WizardInit
<1>2. PICK scene \in Scenes :
         /\ FilesInit(scene.contents, scene.toml)
         /\ WizardInit(scene.running, scene.dry, scene.edits)
  BY DEF Init
<1>3. \A p \in Paths : MayHold(p, Missing)
  BY DEF MayHold, Fits, Whole
<1>4. \A p \in Paths : MayHold(p, file[p]) /\ MayHold(p, bak[p])
  BY <1>2, <1>3, ScenesAssumption DEF FilesInit
<1> QED
  BY <1>1, <1>2, <1>4, ScenesAssumption, WizardAssumption
  DEF TypeInv, TypeOK, FilesTypeOK, WizardTypeOK, FilesInit, WizardInit, Good,
      InLists

\* What a tool is about to write may be held by the path it is written to.
LEMMA BeginsType ==
    ASSUME TypeOK, Begins
    PROVE  Fits(writing, data')
<1>1. queue \in Seq(Paths) /\ queue # <<>>
  BY DEF TypeOK, FilesTypeOK, Begins
<1>2. writing \in Paths
  BY <1>1 DEF writing
<1>3. \A p \in Paths : MayHold(p, file[p])
  BY DEF TypeOK, FilesTypeOK
<1>4. CASE writing = Mux /\ Begin(Manifest)
  BY <1>3, <1>4, ManifestType DEF Begin, Paths
<1>5. CASE writing = Mux /\ Begin(ConfigOf(app.services))
  BY <1>5, ConfigType DEF Begin, TypeOK, WizardTypeOK, AppState
<1>6. ASSUME NEW dir \in {"cli", "wizard"}, writing # Mux,
             CanRewire(file[writing]), Begin(Rewired(dir, file[writing]))
      PROVE  Fits(writing, data')
  <2>1. writing \in Hosts /\ Whole(file[writing])
    BY <1>2, <1>6 DEF Paths, CanRewire, Scannable
  <2>2. Fits(writing, Rewired(dir, file[writing]))
    BY <1>2, <1>3, <2>1, RewiredType
  <2> QED
    BY <1>6, <2>2 DEF Begin
<1> QED
  BY <1>4, <1>5, <1>6 DEF Begins

\* Part of what a path may hold it may hold as well.
LEMMA PartsType ==
    ASSUME NEW p \in Paths, NEW content, Fits(p, content),
           NEW part \in Parts(p, content)
    PROVE  MayHold(p, part)
<1>1. CASE part = Partial
  BY <1>1 DEF MayHold, Fits, Whole
<1>2. CASE part # Partial
  <2>1. DOMAIN part \subseteq Names
    BY <1>2, PartsOf DEF MayHold, Fits
  <2>2. ASSUME NEW s \in DOMAIN part
        PROVE  part[s] \in (IF p = Mux THEN MuxEntry ELSE HostEntry)
    <3>1. s \in DOMAIN content
      BY <1>2, PartsOf
    <3>2. CASE p # Mux
      <4>1. part[s] = content[s]
        BY <1>2, <3>2, PartsOf DEF Fewer
      <4> QED
        BY <3>1, <3>2, <4>1 DEF MayHold, Fits
    <3>3. CASE p = Mux
      <4>1. content[s] \in MuxEntry
        BY <3>1, <3>3 DEF MayHold, Fits
      <4>2. part[s] = content[s] \/ part[s] \in CutEntry(content[s])
        BY <1>2, PartsOf
      <4> QED
        BY <3>3, <4>1, <4>2 DEF CutEntry, MuxEntry
    <3> QED
      BY <3>2, <3>3
  <2> QED
    BY <2>1, <2>2 DEF MayHold, Fits
<1> QED
  BY <1>1, <1>2

LEMMA FilesTypeNext ==
    ASSUME TurnInv, TypeOK, [Next]_vars
    PROVE  FilesTypeOK'
<1>0. FileStep /\ UNCHANGED <<toml, tools>>
  BY StepKinds
<1>a. /\ \A p \in Paths : MayHold(p, file[p]) /\ MayHold(p, bak[p])
      /\ queue \in Seq(Paths)
      /\ phase # "idle" => queue # <<>> /\ Fits(writing, data)
  BY DEF TypeOK, FilesTypeOK
<1>b. /\ program' \in {"none", "scan", "rewire", "wizard"}
      /\ phase' \in Phases
      /\ phase' # "idle" => queue' # <<>>
  BY TurnNext DEF TurnInv
<1>c. /\ MayHold(writing, Partial)
      /\ queue # <<>> => writing \in Paths /\ Tail(queue) \in Seq(Paths)
  BY <1>a DEF MayHold, Fits, Whole, writing
<1>d. DOMAIN file = Paths /\ DOMAIN bak = Paths
  BY DEF TurnInv
<1>e. <<>> \in Seq(Paths)
  OBVIOUS
<1> SUFFICES /\ \A p \in Paths : MayHold(p, file[p])' /\ MayHold(p, bak[p])'
             /\ queue' \in Seq(Paths)
             /\ phase' # "idle" => Fits(writing, data)'
  BY <1>0, <1>b DEF FilesTypeOK, Phases, TypeOK
<1>1. CASE Quiet \/ Starts \/ Leaves
  BY <1>a, <1>e, <1>1
  DEF Quiet, Starts, Leaves, Ends, Stops, fileVars, MayHold, Fits, Whole, writing
<1>2. CASE SaveBegins \/ SaveEnds
  <2>1. phase = "idle" /\ phase' = "idle"
    BY <1>2 DEF SaveBegins, SaveEnds, fileVars, TurnInv, Reads
  <2>2. SaveOrder(ToRewire(app.clients)) \in Seq(Paths) /\ <<Mux>> \in Seq(Paths)
    <3>1. ToRewire(app.clients) \in Seq(Hosts)
      BY ToRewireType DEF TypeOK, WizardTypeOK, AppState
    <3>2. ToRewire(app.clients) \in Seq(Paths) /\ <<Mux>> \in Seq(Paths)
      BY <3>1 DEF Paths
    <3> QED
      BY <3>2, ConcatType DEF SaveOrder
  <2> QED
    BY <1>a, <1>2, <2>1, <2>2
    DEF SaveBegins, SaveEnds, fileVars, MayHold, Fits, Whole
<1>3. CASE Launches
  <2>1. phase' = "idle" /\ UNCHANGED <<file, bak>>
    BY <1>3 DEF Launches, TurnInv
  <2>2. PICK p \in Paths : queue' = <<p>>
    BY <1>3 DEF Launches, Paths
  <2>3. queue' \in Seq(Paths)
    BY <2>2
  <2> QED
    BY <1>a, <2>1, <2>3 DEF MayHold, Fits, Whole
<1>4. CASE Begins
  <2>1. UNCHANGED <<file, bak, queue>>
    BY <1>4 DEF Begins, Begin
  <2>2. Fits(writing, data')
    BY <1>4, BeginsType
  <2> QED
    BY <1>a, <2>1, <2>2 DEF MayHold, Fits, Whole, writing
<1>5. CASE CopyStarts \/ CopyEnds
  <2>1. UNCHANGED <<file, queue, data>> /\ queue # <<>> /\ phase # "idle"
    BY <1>a, <1>5 DEF CopyStarts, CopyEnds
  <2>2. PICK content \in {Partial, file[writing]} :
           bak' = [bak EXCEPT ![writing] = content]
    BY <1>5 DEF CopyStarts, CopyEnds
  <2>3. MayHold(writing, content)
    BY <1>a, <1>c, <2>1, <2>2
  <2>4. \A p \in Paths : MayHold(p, bak'[p])
    BY <1>a, <1>d, <2>2, <2>3
  <2> QED
    BY <1>a, <2>1, <2>4 DEF MayHold, Fits, Whole, writing
<1>6. CASE WriteStarts \/ WriteEnds
  <2>1. UNCHANGED bak /\ queue # <<>> /\ phase # "idle"
        /\ (WriteStarts => UNCHANGED <<queue, data>>)
        /\ (WriteEnds => queue' = Tail(queue) /\ phase' = "idle")
    BY <1>a, <1>6 DEF WriteStarts, WriteEnds
  <2>2. PICK content \in {Partial, data} :
           file' = [file EXCEPT ![writing] = content]
    BY <1>6 DEF WriteStarts, WriteEnds
  <2>3. MayHold(writing, content)
    BY <1>a, <1>c, <2>1, <2>2 DEF MayHold
  <2>4. \A p \in Paths : MayHold(p, file'[p])
    BY <1>a, <1>d, <2>2, <2>3
  <2> QED
    BY <1>a, <1>c, <1>6, <2>1, <2>4 DEF MayHold, Fits, Whole, writing
<1>7. CASE NextHost
  <2>1. UNCHANGED <<file, bak>> /\ queue' = Tail(queue) /\ phase' = "idle"
    BY <1>7 DEF NextHost, Skips, GoesOn
  <2>2. CASE queue # <<>>
    BY <1>a, <1>c, <2>1, <2>2 DEF MayHold, Fits, Whole
  <2>3. CASE queue = <<>>
    BY <1>a, <1>7, <2>1, <2>3 DEF MayHold, Fits, Whole
  <2> QED
    BY <2>2, <2>3
<1>8. CASE program \in {"scan", "rewire"} /\ Ends
  BY <1>a, <1>e, <1>8 DEF Ends, Stops, MayHold, Fits, Whole
<1>9. CASE CutOff
  <2>1. PICK part \in Parts(writing, data) : file' = [file EXCEPT ![writing] = part]
    BY <1>9 DEF CutOff
  <2>2. /\ UNCHANGED bak /\ phase' = "idle"
        /\ queue' = <<>> \/ queue' = Tail(queue)
        /\ phase # "idle"
    BY <1>9 DEF CutOff, Stops, GoesOn
  <2>3. MayHold(writing, part)
    BY <1>a, <1>c, <2>1, <2>2, PartsType
  <2>4. \A p \in Paths : MayHold(p, file'[p])
    BY <1>a, <1>d, <2>1, <2>3
  <2> QED
    BY <1>a, <1>c, <1>e, <2>2, <2>4 DEF MayHold, Fits, Whole
<1> QED
  BY <1>0, <1>1, <1>2, <1>3, <1>4, <1>5, <1>6, <1>7, <1>8, <1>9
  DEF FileStep, Writes

LEMMA TypeNext == TurnInv /\ TypeInv /\ [Next]_vars => TypeInv'
<1> SUFFICES ASSUME TurnInv, TypeInv, [Next]_vars PROVE TypeInv'
  OBVIOUS
<1>1. FilesTypeOK'
  BY FilesTypeNext DEF TypeInv
<1>2. /\ Good(app) /\ detected \subseteq Names /\ dryRuns \in BOOLEAN
      /\ edits \in 0..MaxEdits
  BY DEF TypeInv, TypeOK, WizardTypeOK, Good, InLists
<1>3. ReadsOK
  BY <1>2 DEF TypeInv, TypeOK, FilesTypeOK, ReadsOK, Paths
<1>4. /\ Good(app') /\ UNCHANGED <<detected, dryRuns>>
      /\ edits' \in 0..MaxEdits
  <2>1. CASE WizardStep
    BY <1>2, <1>3, <2>1, AppStep, RestStep
  <2>2. CASE Forgets
    BY <1>2, <2>2, IdleGood DEF Forgets
  <2>3. CASE UNCHANGED wizardVars
    BY <1>2, <2>3 DEF wizardVars
  <2> QED
    BY <2>1, <2>2, <2>3 DEF Next, Crash, BreaksOff, vars
<1>5. saving' \in {"no", "dialog", "mux", "all"}
  BY StepKinds
  DEF FileStep, Quiet, Starts, Leaves, CutOff, Forgets, SaveBegins, SaveEnds,
      wizardVars, TypeInv, TypeOK, WizardTypeOK
<1>6. saving' # "no" => program' = "wizard"
  BY TurnNext DEF TurnInv
<1>7. Shows(app)' /\ WizardTypeOK'
  BY <1>2, <1>4, <1>5, <1>6 DEF WizardTypeOK, Good, InLists, Shows
<1> QED
  BY <1>1, <1>7 DEF TypeInv, TypeOK

(* The files hold configurations or parts of one, the queue paths, and the *)
(* cursors of the wizard stay inside its lists, whatever keys are pressed  *)
(* (AppState, handle_key).                                                 *)
THEOREM SetupTypeCorrect == Spec => []TypeOK
<1>1. TypeInv => TypeOK
  BY DEF TypeInv
<1> QED
  BY TurnInit, TurnNext, TypeInit, TypeNext, <1>1, PTL DEF Spec

(* Unless it was edited, the form shows the highlighted service: after     *)
(* every key that moves the cursor, adds a service or reloads the list     *)
(* (sync_form_to_service, load_service_to_form).                           *)
THEOREM FormCorrect == Spec => []FormBelongsToSelected
<1>1. TypeInv => FormBelongsToSelected
  BY DEF TypeInv, Shows, FormBelongsToSelected
<1> QED
  BY TurnInit, TurnNext, TypeInit, TypeNext, <1>1, PTL DEF Spec

-----------------------------------------------------------------------------
(* The order of a save.                                                    *)

\* During a save the configuration of the mux is the first path to write; once
\* it is done the file says what the wizard shows, which nothing changes.
OrderInv ==
    saving # "no" =>
        /\ \A i \in DOMAIN queue : queue[i] = Mux => i = 1
        /\ queue = <<>> \/ queue[1] # Mux => file[Mux] = ConfigOf(app.services)
        /\ phase # "idle" /\ writing = Mux => data = ConfigOf(app.services)

\* The next path is gone: what is left has no Mux behind its first place.
LEMMA TailHasNoMux ==
    ASSUME NEW q \in Seq(Paths), q # <<>>,
           \A i \in DOMAIN q : q[i] = Mux => i = 1
    PROVE  \A i \in DOMAIN Tail(q) : Tail(q)[i] # Mux
<1>1. DOMAIN Tail(q) = 1..(Len(q) - 1) /\ Len(q) \in Nat /\ DOMAIN q = 1..Len(q)
  OBVIOUS
<1>2. \A i \in DOMAIN Tail(q) : Tail(q)[i] = q[i + 1]
  OBVIOUS
<1> QED
  BY <1>1, <1>2

LEMMA OrderNext == TurnInv /\ TypeInv /\ OrderInv /\ [Next]_vars => OrderInv'
<1> SUFFICES ASSUME TurnInv, TypeInv, OrderInv, [Next]_vars, saving' # "no"
             PROVE  OrderInv'
  BY DEF OrderInv
<1>0. FileStep
  BY StepKinds
<1>a. /\ queue \in Seq(Paths) /\ DOMAIN file = Paths /\ Mux \in Paths
      /\ app.clients \in Seq(ClientEntry)
      /\ phase # "idle" => queue # <<>>
  BY DEF TypeInv, TypeOK, FilesTypeOK, WizardTypeOK, AppState, TurnInv, Paths
<1>b. queue # <<>> => writing = queue[1] /\ writing \in Paths
  BY <1>a DEF writing
<1>1. CASE Quiet
  BY <1>1 DEF Quiet, OrderInv, fileVars, writing
<1>2. CASE Starts \/ Leaves \/ SaveEnds
  BY <1>2 DEF Starts, Leaves, Forgets, SaveEnds, TurnInv
<1>3. CASE SaveBegins
  <2>1. PICK q \in Seq(Hosts) : queue' = <<Mux>> \o q
    <3>1. <<Mux>> = <<Mux>> \o <<>> /\ <<>> \in Seq(Hosts)
      OBVIOUS
    <3> QED
      BY <1>3, <1>a, <3>1, ToRewireType DEF SaveBegins, SaveOrder
  <2>2. \A i \in DOMAIN queue' : queue'[i] = Mux => i = 1
    BY <2>1, FilesAssumption
  <2>3. queue' # <<>> /\ queue'[1] = Mux
    BY <2>1
  <2>4. phase' = "idle"
    BY <1>3 DEF SaveBegins, TurnInv, Reads
  <2> QED
    BY <2>2, <2>3, <2>4 DEF OrderInv
<1> SUFFICES ASSUME UNCHANGED wizardVars, saving # "no"
             PROVE  OrderInv'
  BY <1>0, <1>1, <1>2, <1>3 DEF FileStep, CutOff, Forgets, wizardVars
<1>c. program = "wizard" /\ UNCHANGED <<app, saving>>
  BY DEF TurnInv, wizardVars
<1>4. CASE Begins
  <2>1. /\ UNCHANGED <<file, queue>>
        /\ writing = Mux => data' = ConfigOf(app.services)
    BY <1>4, <1>c DEF Begins, Begin
  <2> QED
    BY <1>c, <2>1 DEF OrderInv, writing
<1>5. CASE CopyStarts \/ CopyEnds
  BY <1>5, <1>c DEF CopyStarts, CopyEnds, OrderInv, writing
<1>6. CASE WriteStarts
  <2>1. /\ UNCHANGED <<queue, data>> /\ phase # "idle"
        /\ file' = [file EXCEPT ![writing] = Partial]
    BY <1>6 DEF WriteStarts
  <2>2. writing # Mux => file'[Mux] = file[Mux]
    BY <1>a, <2>1
  <2> QED
    BY <1>a, <1>b, <1>c, <2>1, <2>2 DEF OrderInv, writing
<1>j. CASE CutOff /\ Stops /\ Forgets
  BY <1>j DEF Forgets
<1>7. CASE WriteEnds \/ NextHost \/ (CutOff /\ Survives /\ GoesOn)
  <2>1. queue # <<>>
    BY <1>7, <1>a DEF WriteEnds, CutOff, NextHost, Survives
  <2>2. queue' = Tail(queue) /\ phase' = "idle"
    BY <1>7 DEF WriteEnds, NextHost, Skips, GoesOn
  <2>3. \A i \in DOMAIN queue' : queue'[i] # Mux
    BY <1>a, <2>1, <2>2, TailHasNoMux DEF OrderInv
  <2>4. file'[Mux] = ConfigOf(app.services)
    <3>1. CASE WriteEnds
      <4>1. /\ file' = [file EXCEPT ![writing] = data]
            /\ phase # "idle"
        BY <3>1 DEF WriteEnds
      <4> QED
        BY <1>a, <1>b, <2>1, <4>1 DEF OrderInv
    <3>2. CASE NextHost
      BY <1>b, <1>c, <2>1, <3>2 DEF NextHost, Survives, Skips, OrderInv
    <3>3. CASE CutOff /\ Survives
      <4>1. writing # Mux /\ file[Mux] = ConfigOf(app.services)
        BY <1>b, <1>c, <2>1, <3>3 DEF Survives, OrderInv
      <4>2. file'[Mux] = file[Mux]
        BY <1>a, <3>3, <4>1 DEF CutOff
      <4> QED
        BY <4>1, <4>2
    <3> QED
      BY <1>7, <3>1, <3>2, <3>3
  <2> QED
    BY <1>c, <2>2, <2>3, <2>4 DEF OrderInv
<1>8. CASE Launches \/ (program \in {"scan", "rewire"} /\ Ends)
  BY <1>8, <1>c DEF Launches
<1> QED
  BY <1>0, <1>1, <1>2, <1>3, <1>4, <1>5, <1>6, <1>7, <1>8, <1>j
  DEF FileStep, Writes, CutOff

(* A host is not pointed at the mux before the mux is configured: what the *)
(* wizard shows is on disk when it overwrites the first of them, whatever  *)
(* failed or was cut short before (execute_confirm_choice, persist_all).   *)
THEOREM HostsAfterMuxCorrect == Spec => HostsAfterMux
<1>1. Init => OrderInv
  BY DEF Init, WizardInit, OrderInv
<1>2. ASSUME TurnInv, TypeInv, OrderInv, [Next]_vars
      PROVE  [program = "wizard" =>
                 \A h \in Hosts : file'[h] # file[h] =>
                     file[Mux] = ConfigOf(app.services)]_<<fileVars, wizardVars>>
  <2> SUFFICES ASSUME program = "wizard", NEW h \in Hosts, file'[h] # file[h]
               PROVE  file[Mux] = ConfigOf(app.services)
    OBVIOUS
  <2>1. WriteStarts \/ WriteEnds \/ CutOff
    BY <1>2, StepKinds
    DEF FileStep, Quiet, Starts, Leaves, SaveBegins, SaveEnds, Launches,
        Begins, Begin, Writes, CopyStarts, CopyEnds, NextHost, Skips, Ends,
        fileVars
  <2>2. phase # "idle" /\ DOMAIN file = Paths
    BY <1>2, <2>1 DEF WriteStarts, WriteEnds, CutOff, TurnInv
  <2>3. h = writing
    BY <2>1, <2>2 DEF WriteStarts, WriteEnds, CutOff, Paths
  <2>4. saving # "no" /\ queue # <<>> /\ queue \in Seq(Paths)
    BY <1>2, <2>2 DEF TurnInv, TypeInv, TypeOK, FilesTypeOK
  <2>5. queue[1] # Mux
    BY <2>3, <2>4, FilesAssumption DEF writing
  <2> QED
    BY <1>2, <2>4, <2>5 DEF OrderInv
<1> QED
  BY TurnInit, TurnNext, TypeInit, TypeNext, <1>1, OrderNext, <1>2, PTL
  DEF Spec, HostsAfterMux

-----------------------------------------------------------------------------
(* Scanning, then rewiring.                                                *)

\* The commands start without a configuration of the mux: one somebody wrote
\* may say anything about the hosts.
NothingConfigured ==
    \A scene \in Scenes :
        "wizard" \notin scene.tools => ~Whole(scene.contents[Mux])

\* No other host defines the service; the others are in JSON.
OnlyIn(h, s) ==
    \A g \in Hosts \ {h} :
        /\ g \notin toml
        /\ \A content \in {file[g], bak[g]} :
              Whole(content) => s \notin DOMAIN content

\* The sockets of a configuration that was read from the hosts: of a service
\* that one host alone defines, the one that host asked for.
Sourced(m) ==
    \A s \in DOMAIN m, h \in Hosts : m[s].cmd \in Names /\ OnlyIn(h, s) =>
        \A c \in {file[h], bak[h]} :
            Whole(c) /\ s \in DOMAIN c =>
                (c[s].cmd \in Names => m[s].socket = SocketIn("cli", c[s]))

MuxSourced == Whole(file[Mux]) => Sourced(file[Mux])

\* What rewire leaves of a host: in TOML perhaps only some of the services.
Rewiring(h, content) ==
    {Rewired("cli", content)}
    \cup (IF h \in toml THEN Fewer(Rewired("cli", content)) ELSE {})

\* A host is what its backup is, or what rewire made of that; rewire is at one
\* host.
AgreeInv ==
    "wizard" \notin tools =>
        /\ program = "rewire" => queue = <<>> \/ \E h \in Hosts : queue = <<h>>
        /\ \A h \in Hosts : Whole(file[h]) /\ Whole(bak[h]) =>
               file[h] = bak[h] \/ file[h] \in Rewiring(h, bak[h])
        /\ program = "rewire" /\ phase # "idle" =>
             LET source == IF phase = "writing" THEN bak[writing] ELSE file[writing]
             IN  Whole(source) /\ data = Rewired("cli", source)
        /\ MuxSourced
        /\ program = "scan" /\ phase # "idle" => Sourced(data)

LEMMA RewiredEntries ==
    ASSUME NEW dir, NEW content
    PROVE  /\ DOMAIN Rewired(dir, content) = DOMAIN content
           /\ \A s \in DOMAIN content :
                 /\ Rewired(dir, content)[s].cmd = "proxy"
                 /\ Rewired(dir, content)[s].dest = SocketIn(dir, content[s])
  BY DEF Rewired

LEMMA RewiringEntries ==
    ASSUME NEW h, NEW content, NEW c \in Rewiring(h, content)
    PROVE  /\ DOMAIN c \subseteq DOMAIN content
           /\ \A s \in DOMAIN c :
                 /\ c[s].cmd = "proxy"
                 /\ c[s].dest = SocketIn("cli", content[s])
           /\ h \notin toml => DOMAIN c = DOMAIN content
<1>1. PICK r : r = Rewired("cli", content)
  OBVIOUS
<1>2. /\ DOMAIN r = DOMAIN content
      /\ \A s \in DOMAIN content :
            r[s].cmd = "proxy" /\ r[s].dest = SocketIn("cli", content[s])
  BY <1>1, RewiredEntries
<1>3. c = r \/ (h \in toml /\ c \in Fewer(r))
  BY <1>1 DEF Rewiring
<1>4. c \in Fewer(r) =>
        DOMAIN c \subseteq DOMAIN r /\ \A s \in DOMAIN c : c[s] = r[s]
  BY DEF Fewer
<1> QED
  BY <1>2, <1>3, <1>4

\* Every service goes through the proxy.
Proxied(c) == \A s \in DOMAIN c : c[s].cmd = "proxy"

\* What a step makes of the contents of a host and its backup: they stay, or
\* are cut short, or the host is rewired; and in JSON no service gets lost.
HostStep(h) ==
    /\ \A c \in {file'[h], bak'[h]} :
          Whole(c) => c \in {file[h], bak[h]} \/ Proxied(c)
    /\ h \notin toml =>
          \A c \in {file[h], bak[h]} : Whole(c) =>
              \E d \in {file'[h], bak'[h]} : Whole(d) /\ DOMAIN d = DOMAIN c

\* A configuration keeps its sources.
LEMMA SourcedKept ==
    ASSUME \A h \in Hosts : HostStep(h), UNCHANGED toml, NEW m, Sourced(m)
    PROVE  Sourced(m)'
<1> SUFFICES ASSUME NEW s \in DOMAIN m, NEW h \in Hosts,
                    m[s].cmd \in Names, OnlyIn(h, s)',
                    NEW c \in {file'[h], bak'[h]}, Whole(c), s \in DOMAIN c,
                    c[s].cmd \in Names
             PROVE  m[s].socket = SocketIn("cli", c[s])
  BY DEF Sourced, Whole
<1>1. OnlyIn(h, s)
  <2>2. \A g \in Hosts \ {h} : g \notin toml
    BY DEF OnlyIn
  <2> SUFFICES ASSUME NEW g \in Hosts \ {h}, NEW old \in {file[g], bak[g]},
                      Whole(old), s \in DOMAIN old
               PROVE  FALSE
    BY <2>2 DEF OnlyIn
  <2>1. PICK d \in {file'[g], bak'[g]} : Whole(d) /\ DOMAIN d = DOMAIN old
    BY <2>2 DEF HostStep
  <2> QED
    BY <2>1 DEF OnlyIn, Whole
<1>2. ~Proxied(c)
  BY FilesAssumption DEF Proxied
<1>3. c \in {file[h], bak[h]}
  BY <1>2 DEF HostStep
<1> QED
  BY <1>1, <1>3 DEF Sourced

\* While the commands are used, only rewire changes a host.
LEMMA HostsKept ==
    ASSUME TurnInv, BackupInv, AgreeInv, "wizard" \notin tools, [Next]_vars,
           NEW h \in Hosts
    PROVE  /\ HostStep(h)
           /\ Whole(file'[h]) /\ Whole(bak'[h]) =>
                 file'[h] = bak'[h] \/ file'[h] \in Rewiring(h, bak'[h])
<1>0. FileStep /\ UNCHANGED toml
  BY StepKinds
<1>a. /\ Whole(file[h]) /\ Whole(bak[h]) =>
            file[h] = bak[h] \/ file[h] \in Rewiring(h, bak[h])
      /\ saving = "no" /\ program \in {"none", "scan", "rewire"}
      /\ DOMAIN file = Paths /\ DOMAIN bak = Paths /\ h \in Paths /\ h # Mux
      /\ ~Whole(Partial)
  BY FilesAssumption DEF AgreeInv, TurnInv, Paths, Whole
<1>1. CASE file'[h] = file[h] /\ bak'[h] = bak[h]
  BY <1>1, <1>a DEF HostStep, Rewiring
<1>2. CASE file'[h] # file[h] \/ bak'[h] # bak[h]
  <2>1. Writes \/ CutOff
    BY <1>0, <1>2
    DEF FileStep, Quiet, Starts, Leaves, SaveBegins, SaveEnds, Launches,
        Begins, Begin, NextHost, Skips, Ends, fileVars
  <2>2. writing = h /\ phase # "idle"
    BY <1>2, <1>a, <2>1
    DEF Writes, CopyStarts, CopyEnds, WriteStarts, WriteEnds, CutOff
  <2>3. program = "rewire"
    <3>1. queue # <<>> /\ program # "none"
      BY <2>2 DEF TurnInv
    <3>2. program = "scan" => writing = Mux
      BY <3>1 DEF TurnInv, writing
    <3> QED
      BY <1>a, <2>2, <3>1, <3>2
  <2>4. PICK source : /\ source = IF phase = "writing" THEN bak[h] ELSE file[h]
                      /\ Whole(source) /\ data = Rewired("cli", source)
    BY <2>2, <2>3 DEF AgreeInv
  <2>5. /\ h \notin toml /\ Whole(file[h]) /\ Whole(bak[h]) =>
              DOMAIN file[h] = DOMAIN bak[h]
        /\ DOMAIN Rewired("cli", bak[h]) = DOMAIN bak[h]
        /\ \A c \in Rewiring(h, bak[h]) : Proxied(c)
        /\ Rewired("cli", bak[h]) \in Rewiring(h, bak[h])
    BY <1>a, RewiredEntries, RewiringEntries DEF Proxied, Rewiring
  <2>6. CASE CopyStarts
    <3>1. file'[h] = file[h] /\ bak'[h] = Partial /\ Whole(file[h])
      BY <1>a, <2>2, <2>4, <2>6 DEF CopyStarts
    <3> QED
      BY <1>a, <2>5, <3>1 DEF HostStep
  <2>7. CASE CopyEnds
    <3>1. file'[h] = file[h] /\ bak'[h] = file[h] /\ Whole(file[h])
      BY <1>a, <2>2, <2>4, <2>7 DEF CopyEnds
    <3> QED
      BY <1>a, <2>5, <3>1 DEF HostStep
  <2>8. CASE WriteStarts
    <3>1. file'[h] = Partial /\ bak'[h] = bak[h] /\ Whole(file[h])
          /\ phase = "write"
      BY <1>a, <2>2, <2>4, <2>8 DEF WriteStarts
    <3>2. bak[h] = file[h]
      BY <1>a, <2>2, <3>1 DEF BackupInv, Whole
    <3> QED
      BY <1>a, <3>1, <3>2 DEF HostStep
  <2>9. CASE WriteEnds
    <3>1. /\ file'[h] = Rewired("cli", bak[h]) /\ bak'[h] = bak[h]
          /\ Whole(bak[h]) /\ phase = "writing"
      BY <1>a, <2>2, <2>4, <2>9 DEF WriteEnds
    <3>2. file[h] = Partial
      BY <1>a, <2>2, <3>1 DEF BackupInv
    <3>3. Rewired("cli", bak[h]) \in Rewiring(h, bak'[h])
      BY <2>5, <3>1
    <3> QED
      BY <1>a, <2>5, <3>1, <3>2, <3>3 DEF HostStep
  <2>10. CASE CutOff
    <3>1. PICK part \in Parts(h, data) : file'[h] = part
      BY <1>a, <2>2, <2>10 DEF CutOff
    <3>2. bak'[h] = bak[h] /\ Whole(bak[h]) /\ data = Rewired("cli", bak[h])
          /\ file[h] = Partial
      BY <1>a, <2>2, <2>4, <2>10 DEF CutOff, BackupInv
    <3>3. Whole(part) => part \in Rewiring(h, bak[h])
      <4>1. Whole(part) => h \in toml /\ part \in Fewer(data)
        BY <1>a, <3>1, PartsOf
      <4> QED
        BY <3>2, <4>1 DEF Rewiring
    <3>4. Whole(part) => part \in Rewiring(h, bak'[h])
      BY <3>2, <3>3
    <3> QED
      BY <1>a, <2>5, <3>1, <3>2, <3>3, <3>4 DEF HostStep
  <2> QED
    BY <2>1, <2>6, <2>7, <2>8, <2>9, <2>10 DEF Writes
<1> QED
  BY <1>1, <1>2

\* build_manifest takes the socket from the host that defines the service.
LEMMA ManifestSourced ==
    ASSUME \A h \in Hosts : Whole(file[h]) /\ Whole(bak[h]) =>
               file[h] = bak[h] \/ file[h] \in Rewiring(h, bak[h])
    PROVE  Sourced(Manifest)
<1> DEFINE defining(s) == {h \in Hosts : Scannable(file[h]) /\ s \in DOMAIN file[h]}
           last(s) == CHOOSE h \in defining(s) :
                          \A g \in defining(s) : Rank[g] <= Rank[h]
<1> SUFFICES ASSUME NEW s \in DOMAIN Manifest, NEW h \in Hosts,
                    Manifest[s].cmd \in Names, OnlyIn(h, s),
                    NEW c \in {file[h], bak[h]}, Whole(c), s \in DOMAIN c,
                    c[s].cmd \in Names
             PROVE  Manifest[s].socket = SocketIn("cli", c[s])
  BY DEF Sourced
<1>1. s \in Names /\ defining(s) # {}
  BY DEF Manifest
<1>2. defining(s) = {h}
  BY <1>1 DEF OnlyIn, Scannable
<1>3. PICK entry : entry = file[h][s]
  OBVIOUS
<1>4. Manifest[s] = [cmd |-> entry.cmd, socket |-> SocketIn("cli", entry),
                     rest |-> "default"]
  <2>1. last(s) = h
    <3>1. Rank[h] <= Rank[h]
      BY FilesAssumption
    <3> HIDE DEF defining
    <3> QED
      BY <1>2, <3>1
  <2> QED
    BY <1>1, <1>3, <2>1 DEF Manifest
<1>5. entry.cmd \in Names /\ Whole(file[h]) /\ s \in DOMAIN file[h]
  BY <1>2, <1>4 DEF Scannable
<1>6. c[s] = entry
  <2>1. CASE c = file[h]
    BY <1>3, <2>1
  <2>2. CASE c = bak[h] /\ file[h] \in Rewiring(h, bak[h])
    <3>1. entry.cmd = "proxy"
      BY <1>3, <1>5, <2>2, RewiringEntries
    <3> QED
      BY <1>5, <3>1, FilesAssumption
  <2> QED
    BY <1>3, <1>5, <2>1, <2>2
<1> QED
  BY <1>4, <1>6

LEMMA AgreeInit ==
    ASSUME NothingConfigured, Init
    PROVE  AgreeInv
<1>1. PICK scene \in Scenes :
         tools = scene.tools /\ FilesInit(scene.contents, scene.toml)
  BY DEF Init
<1>2. "wizard" \notin tools => ~Whole(file[Mux])
  BY <1>1 DEF NothingConfigured, FilesInit
<1>3. \A h \in Hosts : ~Whole(bak[h])
  BY <1>1 DEF FilesInit, Paths, Whole
<1>4. program = "none"
  BY <1>1 DEF FilesInit
<1> QED
  BY <1>2, <1>3, <1>4 DEF AgreeInv, MuxSourced

\* Part of a configuration names no other sockets.
LEMMA PartSourced ==
    ASSUME NEW m, Sourced(m), NEW part \in Parts(Mux, m), part # Partial
    PROVE  Sourced(part)
<1>1. ASSUME NEW s \in DOMAIN part, part[s].cmd \in Names
      PROVE  /\ s \in DOMAIN m
             /\ part[s].cmd = m[s].cmd
             /\ part[s].socket = m[s].socket
  <2>1. s \in DOMAIN m /\ (part[s] = m[s] \/ part[s] \in CutEntry(m[s]))
    BY PartsOf
  <2>2. part[s].cmd # "none"
    BY <1>1, FilesAssumption
  <2> QED
    BY <2>1, <2>2 DEF CutEntry
<1> QED
  BY <1>1 DEF Sourced

LEMMA AgreeNext ==
    TurnInv /\ BackupInv /\ AgreeInv /\ [Next]_vars => AgreeInv'
<1> SUFFICES ASSUME TurnInv, BackupInv, AgreeInv, [Next]_vars,
                    "wizard" \notin tools
             PROVE  AgreeInv'
  BY StepKinds DEF AgreeInv
<1>0. FileStep /\ UNCHANGED <<toml, tools>>
  BY StepKinds
<1>a. /\ saving = "no" /\ program \in {"none", "scan", "rewire"}
      /\ DOMAIN file = Paths /\ DOMAIN bak = Paths /\ Mux \in Paths
      /\ phase \in Phases
      /\ phase # "idle" => queue # <<>> /\ program # "none"
      /\ program = "scan" => queue \in {<<>>, <<Mux>>}
  BY DEF TurnInv, Paths
<1>b. /\ program = "rewire" => queue = <<>> \/ \E h \in Hosts : queue = <<h>>
      /\ program = "rewire" /\ phase # "idle" =>
            LET source == IF phase = "writing" THEN bak[writing] ELSE file[writing]
            IN  Whole(source) /\ data = Rewired("cli", source)
      /\ MuxSourced
      /\ program = "scan" /\ phase # "idle" => Sourced(data)
  BY DEF AgreeInv
<1>c. \A h \in Hosts : HostStep(h)
  BY HostsKept
<1>d. \A h \in Hosts : Whole(file'[h]) /\ Whole(bak'[h]) =>
         file'[h] = bak'[h] \/ file'[h] \in Rewiring(h, bak[h])'
  BY <1>0, HostsKept DEF Rewiring
<1>e. \A m : Sourced(m) => Sourced(m)'
  BY <1>0, <1>c, SourcedKept
<1>f. file'[Mux] = file[Mux] => MuxSourced'
  <2>1. PICK m : m = file[Mux]
    OBVIOUS
  <2>2. Whole(m) => Sourced(m)'
    BY <1>b, <1>e, <2>1 DEF MuxSourced
  <2> QED
    BY <2>1, <2>2 DEF Sourced, MuxSourced, Whole
<1>g. UNCHANGED data /\ program = "scan" /\ phase # "idle" => Sourced(data)'
  <2>1. PICK m : m = data
    OBVIOUS
  <2>2. program = "scan" /\ phase # "idle" => Sourced(m)'
    BY <1>b, <1>e, <2>1
  <2> QED
    BY <2>1, <2>2 DEF Sourced
<1>h. program = "rewire" /\ queue # <<>> =>
         writing \in Hosts /\ writing # Mux /\ Tail(queue) = <<>>
  <2> SUFFICES ASSUME NEW h \in Hosts, queue = <<h>>
               PROVE  writing \in Hosts /\ writing # Mux /\ Tail(queue) = <<>>
    BY <1>b
  <2> QED
    BY FilesAssumption DEF writing
<1>i. program = "scan" /\ queue # <<>> => writing = Mux /\ Tail(queue) = <<>>
  <2> SUFFICES ASSUME queue = <<Mux>>
               PROVE  writing = Mux /\ Tail(queue) = <<>>
    BY <1>a
  <2> QED
    BY DEF writing
<1>1. CASE Quiet \/ SaveBegins \/ SaveEnds
  BY <1>0, <1>1, <1>a, <1>b, <1>d, <1>f, <1>g
  DEF Quiet, SaveBegins, SaveEnds, Reads, fileVars, AgreeInv, writing
<1>2. CASE Leaves \/ (program \in {"scan", "rewire"} /\ Ends)
  BY <1>0, <1>2, <1>d, <1>f DEF Leaves, Ends, Stops, AgreeInv
<1>3. CASE Launches
  <2>1. phase' = "idle" /\ UNCHANGED file
    BY <1>3, <1>a DEF Launches
  <2>2. program' = "rewire" => \E h \in Hosts : queue' = <<h>>
    BY <1>3 DEF Launches
  <2> QED
    BY <1>0, <1>d, <1>f, <2>1, <2>2 DEF AgreeInv
<1>4. CASE Begins
  <2>1. UNCHANGED <<file, bak, program, queue>> /\ phase' \in {"copy", "write"}
    BY <1>4 DEF Begins, Begin
  <2>2. CASE program = "scan"
    <3>1. data' = Manifest
      BY <1>4, <1>a, <1>i, <2>2 DEF Begins, Begin
    <3>2. PICK m : m = Manifest
      OBVIOUS
    <3>3. Sourced(m)'
      <4>1. Sourced(m)
        BY <3>2, ManifestSourced DEF AgreeInv
      <4> QED
        BY <1>e, <4>1
    <3>4. Sourced(data)'
      BY <3>1, <3>2, <3>3 DEF Sourced
    <3> QED
      BY <1>0, <1>d, <1>f, <2>1, <2>2, <3>4 DEF AgreeInv
  <2>3. CASE program = "rewire"
    <3>1. Whole(file[writing]) /\ data' = Rewired("cli", file[writing])
      BY <1>4, <1>a, <2>3 DEF Begins, Begin, CanRewire, Scannable
    <3> QED
      BY <1>0, <1>b, <1>d, <1>f, <2>1, <2>3, <3>1 DEF AgreeInv, writing, Whole
  <2> QED
    BY <1>4, <1>a, <2>2, <2>3 DEF Begins
<1>5. CASE CopyStarts \/ CopyEnds
  <2>1. /\ UNCHANGED <<file, program, queue, data>>
        /\ phase \in {"copy", "copying"} /\ phase' \in {"copying", "write"}
    BY <1>5 DEF CopyStarts, CopyEnds
  <2> QED
    BY <1>0, <1>b, <1>d, <1>f, <1>g, <2>1 DEF AgreeInv, writing, Whole
<1>6. CASE WriteStarts
  <2>1. /\ UNCHANGED <<bak, program, queue, data>>
        /\ phase = "write" /\ phase' = "writing"
        /\ file' = [file EXCEPT ![writing] = Partial]
    BY <1>6 DEF WriteStarts
  <2>2. CASE program = "scan"
    <3>1. ~Whole(file'[Mux])
      BY <1>a, <1>i, <2>1, <2>2 DEF Whole
    <3>2. MuxSourced'
      BY <3>1 DEF MuxSourced, Whole
    <3> QED
      BY <1>0, <1>d, <1>g, <2>1, <2>2, <3>2 DEF AgreeInv
  <2>3. CASE program = "rewire"
    <3>1. file'[Mux] = file[Mux]
      BY <1>a, <1>h, <2>1, <2>3
    <3>4. MuxSourced'
      BY <1>f, <3>1
    <3>5. Whole(file[writing]) /\ data = Rewired("cli", file[writing])
      BY <1>b, <2>1, <2>3
    <3>6. bak[writing] = file[writing]
      BY <1>a, <1>h, <2>1, <2>3, <3>5 DEF BackupInv, Whole, Paths
    <3> QED
      BY <1>0, <1>b, <1>d, <2>1, <2>3, <3>4, <3>5, <3>6 DEF AgreeInv, writing, Whole
  <2> QED
    BY <1>a, <2>1, <2>2, <2>3
<1>7. CASE WriteEnds
  <2>1. /\ UNCHANGED <<bak, program>> /\ queue' = Tail(queue)
        /\ phase = "writing" /\ phase' = "idle"
        /\ file' = [file EXCEPT ![writing] = data]
    BY <1>7 DEF WriteEnds
  <2>2. MuxSourced'
    <3>1. CASE file'[Mux] = file[Mux]
      BY <1>f, <3>1
    <3>2. CASE file'[Mux] # file[Mux]
      <4>1. file'[Mux] = data /\ program = "scan"
        BY <1>a, <1>h, <2>1, <3>2
      <4>2. PICK m : m = data
        OBVIOUS
      <4>3. Sourced(m)'
        BY <1>b, <1>e, <2>1, <4>1, <4>2
      <4> QED
        BY <4>1, <4>2, <4>3 DEF Sourced, MuxSourced
    <3> QED
      BY <3>1, <3>2
  <2>3. queue' = <<>>
    BY <1>a, <1>h, <1>i, <2>1
  <2> QED
    BY <1>0, <1>d, <2>1, <2>2, <2>3 DEF AgreeInv
<1>8. CASE NextHost
  BY <1>8, <1>a DEF NextHost, Survives
<1>9. CASE CutOff
  <2>1. PICK part \in Parts(writing, data) : file' = [file EXCEPT ![writing] = part]
    BY <1>9 DEF CutOff
  <2>2. program' = "none" /\ phase = "writing" /\ phase' = "idle"
    BY <1>9, <1>a DEF CutOff, Stops, Survives
  <2>3. MuxSourced'
    <3>1. CASE file'[Mux] = file[Mux]
      BY <1>f, <3>1
    <3>2. CASE file'[Mux] # file[Mux]
      <4>1. file'[Mux] = part /\ writing = Mux /\ program = "scan"
        BY <1>a, <1>h, <2>1, <2>2, <3>2
      <4>2. part # Partial => Sourced(part)
        BY <1>b, <2>1, <2>2, <4>1, PartSourced
      <4>3. part # Partial => Sourced(part)'
        BY <1>e, <4>2
      <4> QED
        BY <4>1, <4>3 DEF Sourced, MuxSourced, Whole
    <3> QED
      BY <3>1, <3>2
  <2> QED
    BY <1>0, <1>d, <2>2, <2>3 DEF AgreeInv
<1> QED
  BY <1>0, <1>1, <1>2, <1>3, <1>4, <1>5, <1>6, <1>7, <1>8, <1>9
  DEF FileStep, Writes

(* Where a host that was rewired once looks for a service is where the mux *)
(* listens for it, if the configuration was made by scanning the hosts,    *)
(* no matter how often and in which order scan and rewire ran and where    *)
(* they were killed (build_manifest, generate_snippet).                    *)
THEOREM CommandsAgreeCorrect ==
    ASSUME NothingConfigured
    PROVE  Spec => []CommandsAgree
<1>1. Init => AgreeInv
  BY AgreeInit
<1>2. ASSUME AgreeInv PROVE CommandsAgree
  <2> SUFFICES ASSUME "wizard" \notin tools, NEW h \in Hosts,
                      Whole(file[h]), Whole(bak[h]), Whole(file[Mux]),
                      NEW s \in DOMAIN file[h] \cap DOMAIN bak[h]
                                \cap DOMAIN file[Mux],
                      file[h][s].cmd = "proxy", bak[h][s].cmd \in Names,
                      file[Mux][s].cmd \in Names, OnlyIn(h, s)
               PROVE  file[Mux][s].socket = file[h][s].dest
    BY DEF CommandsAgree, RewiredOnceAgrees, OnlyIn
  <2>1. file[Mux][s].socket = SocketIn("cli", bak[h][s])
    BY <1>2 DEF AgreeInv, MuxSourced, Sourced
  <2>2. file[h] # bak[h]
    BY FilesAssumption
  <2>3. file[h] \in Rewiring(h, bak[h])
    BY <1>2, <2>2 DEF AgreeInv
  <2> QED
    BY <2>1, <2>3, RewiringEntries
<1> QED
  BY TurnInit, TurnNext, BackupInit, BackupNext, <1>1,
     AgreeNext, <1>2, PTL DEF Spec
=============================================================================
