------------------------------ MODULE HostFiles ------------------------------
(***************************************************************************)
(* The files the set-up tools rewrite: the configuration of the mux and    *)
(* that of every host application, each with a .bak beside it              *)
(* (src/src/scan.rs, safe_copy in src/src/config.rs), and the two commands *)
(* that write them, scan --manifest and rewire.  The wizard is in Wizard;  *)
(* it writes through the same steps.                                       *)
(*                                                                         *)
(* A file is written by fs::write and copied by fs::copy: both truncate    *)
(* first, so that a crash or a full disk leaves part of the file.  What    *)
(* that part is taken for depends on the format: JSON that was cut short   *)
(* does not parse, TOML may, as a file with fewer services.                *)
(***************************************************************************)
EXTENDS Integers, Sequences, FiniteSets

CONSTANTS
    Hosts,      \* the configuration files of host applications
    Rank,       \* their places in the list of discover_hosts
    Mux,        \* the configuration file of the mux
    Names,      \* service names
    Missing,    \* no such file
    Partial     \* part of a file, which does not parse

ASSUME FilesAssumption ==
    /\ Mux \notin Hosts
    /\ Missing # Partial
    /\ IsFiniteSet(Hosts)
    /\ Rank \in [Hosts -> Nat]
    /\ \A g, h \in Hosts : Rank[g] = Rank[h] => g = h
    /\ IsFiniteSet(Names)
    /\ {"none", "proxy"} \cap Names = {}

VARIABLES
    toml,     \* the paths in TOML or YAML; the others are in JSON
    file,     \* what each path holds
    bak,      \* what its backup holds
    program,  \* the tool that runs
    queue,    \* the paths it has still to write
    phase,    \* how far it is with the first of them
    data      \* what it writes there

fileVars == <<file, bak, program, queue, phase, data>>

Paths == Hosts \cup {Mux}
Whole(content) == content \notin {Missing, Partial}

\* An entry of mcpServers: the command (that of the service it is named for),
\* the socket field, and the socket a proxy is given.
HostEntry == [cmd : Names \cup {"proxy", "none"}, socket : {"none", "own"},
              dest : {"none", "own", "cli", "wizard"}]
\* An entry of the mux configuration: its command, its socket, and whether the
\* other settings are still those somebody wrote there; every one is optional.
MuxEntry == [cmd : Names \cup {"proxy", "none"},
             socket : {"own", "cli", "wizard", "none"},
             rest : {"kept", "default"}]

\* What may be written to a path, and what it may hold.
Fits(p, content) ==
    /\ DOMAIN content \subseteq Names
    /\ \A s \in DOMAIN content :
          content[s] \in (IF p = Mux THEN MuxEntry ELSE HostEntry)
MayHold(p, content) == Whole(content) => Fits(p, content)

\* The elements of a finite set as a sequence, by their ranks.
Ranked(S, rank) ==
    LET place(x) == Cardinality({y \in S : rank[y] <= rank[x]})
    IN [i \in 1..Cardinality(S) |-> CHOOSE x \in S : place(x) = i]

\* What a cut leaves of an entry of the mux configuration: its socket comes
\* first, then its command, then the rest.
CutEntry(entry) ==
    {[cmd |-> entry.cmd, socket |-> entry.socket, rest |-> "default"],
     [cmd |-> "none", socket |-> entry.socket, rest |-> "default"],
     [cmd |-> "none", socket |-> "none", rest |-> "default"]}

CutLast(part) ==
    {part} \cup UNION {{[part EXCEPT ![s] = entry] : entry \in CutEntry(part[s])} :
                         s \in DOMAIN part}

Fewer(content) == {[s \in S |-> content[s]] : S \in SUBSET DOMAIN content}

\* What is left of a content that was cut short.  The command of a host's entry
\* comes last: one that lost it spoils the file.  The table of servers may be
\* empty in a host, and must be there in the configuration of the mux.
Parts(p, content) ==
    {Partial} \cup
    ( IF p \notin toml THEN {}
      ELSE IF p # Mux THEN Fewer(content)
      ELSE UNION {CutLast(part) : part \in {f \in Fewer(content) : DOMAIN f # {}}} )

FilesInit(contents, formats) ==
    /\ toml = formats
    /\ file = contents
    /\ bak = [p \in Paths |-> Missing]
    /\ program = "none"
    /\ queue = <<>>
    /\ phase = "idle"
    /\ data = Missing

-----------------------------------------------------------------------------
(* Reading and translating.                                                *)

\* scan_host_file: one service without a command spoils the file.
Scannable(content) ==
    /\ Whole(content)
    /\ \A s \in DOMAIN content : content[s].cmd # "none"

\* The socket of a service: the one its host names, or one in the directory
\* of the tool, which is not the same for the commands and for the wizard.
SocketIn(dir, entry) == IF entry.socket = "none" THEN dir ELSE entry.socket

RewiredWrong(dir, content) ==
    [s \in DOMAIN content |->
        [cmd |-> "proxy", socket |-> "none", dest |-> dir]]
\* generate_snippet, merged into the host: the socket field is dropped.
Rewired(dir, content) ==
    [s \in DOMAIN content |->
        [cmd |-> "proxy", socket |-> "none", dest |-> SocketIn(dir, content[s])]]

\* discover_hosts and build_manifest: of two hosts that define a service the
\* later one counts.
Manifest ==
    LET defining(s) == {h \in Hosts : Scannable(file[h]) /\ s \in DOMAIN file[h]}
        last(s) == CHOOSE h \in defining(s) :
                       \A g \in defining(s) : Rank[g] <= Rank[h]
        entry(s) == file[last(s)][s]
    IN [s \in {n \in Names : defining(n) # {}} |->
           [cmd |-> entry(s).cmd, socket |-> SocketIn("cli", entry(s)),
            rest |-> "default"]]

-----------------------------------------------------------------------------
(* write_with_backup, and the same in persist_all.                         *)
writing == Head(queue)

NeedsBackup(content) == content # Missing

Begin(content) ==
    /\ phase = "idle"
    /\ data' = content
    /\ phase' = IF NeedsBackup(file[writing]) THEN "copy" ELSE "write"
    /\ UNCHANGED <<file, bak, program, queue>>

CopyStarts ==
    /\ phase = "copy"
    /\ bak' = [bak EXCEPT ![writing] = Partial]
    /\ phase' = "copying"
    /\ UNCHANGED <<file, program, queue, data>>

CopyEnds ==
    /\ phase = "copying"
    /\ bak' = [bak EXCEPT ![writing] = file[writing]]
    /\ phase' = "write"
    /\ UNCHANGED <<file, program, queue, data>>

WriteStarts ==
    /\ phase = "write"
    /\ file' = [file EXCEPT ![writing] = Partial]
    /\ phase' = "writing"
    /\ UNCHANGED <<bak, program, queue, data>>

WriteEnds ==
    /\ phase = "writing"
    /\ file' = [file EXCEPT ![writing] = data]
    /\ phase' = "idle"
    /\ queue' = Tail(queue)
    /\ data' = Missing
    /\ UNCHANGED <<bak, program>>

Writes == CopyStarts \/ CopyEnds \/ WriteStarts \/ WriteEnds

\* Whatever was under way is broken off.
Interrupted ==
    /\ UNCHANGED bak
    /\ IF phase = "writing"
       THEN \E part \in Parts(writing, data) :
               file' = [file EXCEPT ![writing] = part]
       ELSE UNCHANGED file

\* The tool ends, whatever it has left to do.
Stops ==
    /\ program' = "none"
    /\ queue' = <<>>
    /\ phase' = "idle"
    /\ data' = Missing

Ends == Stops /\ UNCHANGED <<file, bak>>

\* Only the wizard goes on after a failure, and only with the next host.
Survives == program = "wizard" /\ writing # Mux

GoesOn ==
    /\ queue' = Tail(queue)
    /\ phase' = "idle"
    /\ data' = Missing
    /\ UNCHANGED program

Skips == GoesOn /\ UNCHANGED <<file, bak>>

\* The disk is full, or the copy is refused.
WriteFails == phase # "idle" /\ Survives /\ GoesOn /\ Interrupted

-----------------------------------------------------------------------------
(* rmcp_mux scan --manifest and rmcp_mux rewire.                           *)
StartScan ==
    /\ program = "none"
    /\ program' = "scan"
    /\ queue' = <<Mux>>
    /\ UNCHANGED <<file, bak, phase, data>>

\* run_scan_cmd: when no host can be scanned nothing is written.
ScanWrites ==
    /\ program = "scan"
    /\ queue # <<>>
    /\ phase = "idle"
    /\ IF \E h \in Hosts : Scannable(file[h]) THEN Begin(Manifest) ELSE Ends

StartRewire(h) ==
    /\ program = "none"
    /\ program' = "rewire"
    /\ queue' = <<h>>
    /\ UNCHANGED <<file, bak, phase, data>>

CanRewireWrong(content) == content # Missing
CanRewire(content) == Scannable(content)

\* rewire_host: a host that cannot be read is an error before any write.
RewireWrites(dir) ==
    /\ queue # <<>>
    /\ writing # Mux
    /\ phase = "idle"
    /\ IF CanRewire(file[writing])
       THEN Begin(Rewired(dir, IF Whole(file[writing]) THEN file[writing]
                               ELSE [s \in {} |-> Missing]))
       ELSE IF Survives THEN Skips ELSE Ends

CommandEnds ==
    /\ program \in {"scan", "rewire"}
    /\ queue = <<>>
    /\ Ends

Command ==
    \/ StartScan
    \/ ScanWrites
    \/ \E h \in Hosts : StartRewire(h)
    \/ program = "rewire" /\ RewireWrites("cli")
    \/ CommandEnds

-----------------------------------------------------------------------------
FilesTypeOK ==
    /\ toml \subseteq Paths
    /\ \A p \in Paths : MayHold(p, file[p]) /\ MayHold(p, bak[p])
    /\ program \in {"none", "scan", "rewire", "wizard"}
    /\ queue \in Seq(Paths)
    /\ phase \in {"idle", "copy", "copying", "write", "writing"}
    /\ phase # "idle" => queue # <<>> /\ Fits(writing, data)

(* A file that was left half-written can be restored: its backup is whole, *)
(* unless there was nothing to back up; also after another attempt that    *)
(* failed (rewire_host reads before it writes, load_config before the      *)
(* wizard starts).  That is so of JSON.  Of TOML the part may parse, and   *)
(* the next tool copies it over the backup; and scan does so with any      *)
(* configuration of the mux, which it does not read before.                *)
Recoverable(p) == file[p] = Partial => bak[p] # Partial

(* A file is overwritten only when its backup says what it said            *)
(* (write_with_backup, persist_all).                                       *)
BackedUp ==
    [][\A p \in Paths : file'[p] # file[p] /\ Whole(file[p])
            => bak'[p] = file[p]]_fileVars

(* Where a host that was rewired once looks for a service is where the mux *)
(* listens for it, if the configuration was made by scanning the hosts     *)
(* before and the service is that host's alone: the others are in JSON (one *)
(* in TOML may have named it once) and do not name it (build_manifest,     *)
(* generate_snippet).                                                      *)
RewiredOnceAgrees ==
    \A h \in Hosts :
        Whole(file[h]) /\ Whole(bak[h]) /\ Whole(file[Mux]) =>
            \A s \in DOMAIN file[h] \cap DOMAIN bak[h] \cap DOMAIN file[Mux] :
                /\ file[h][s].cmd = "proxy"
                /\ bak[h][s].cmd \in Names
                /\ file[Mux][s].cmd \in Names
                /\ \A g \in Hosts \ {h} :
                      /\ g \notin toml
                      /\ \A content \in {file[g], bak[g]} :
                            Whole(content) => s \notin DOMAIN content
                => file[Mux][s].socket = file[h][s].dest
=============================================================================
