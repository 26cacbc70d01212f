------------------------------ MODULE Lifecycle ------------------------------
(***************************************************************************)
(* One agent name from build to uninstall (cmd/abby): `abby build',        *)
(* `install' local or remote, `update' and `uninstall', one command at a   *)
(* time, each a sequence of file operations that may fail or be cut short   *)
(* by a crash, while the user edits the sub-agent file, breaks and repairs *)
(* config files and cleans the build directory.                            *)
(*                                                                         *)
(* An install has a place: a project, or global.  The place has a binary,  *)
(* a config file per runtime and a sub-agent file; the registry has one    *)
(* entry for the agent, whatever the place.  A config edit is one step     *)
(* here: ConfigFile has its inside.                                        *)
(***************************************************************************)
EXTENDS Naturals, FiniteSets

CONSTANTS
  Places,      \* projects, and the global place
  Project,     \* the place whose build directory is modelled
  Runtimes,    \* runtimes whose config abby edits
  TargetSets,  \* the sets of runtimes a command may select
  Versions,    \* versions of the agent, in order
  BuildKinds,  \* what `abby build' may be asked for
  Released,    \* versions with a release
  Breakable,   \* <<place, runtime>> whose config the user may leave unparsable
  MayFail,     \* whether operations fail and commands die
  None,        \* no binary, file, config entry, plan or registry entry
  Unknown,     \* the version of a binary that does not describe itself
  Torn,        \* a file truncated and not yet written again
  Edited,      \* a sub-agent file the user wrote or changed
  NoCmd        \* no abby command is running

ASSUME LifecycleAssumption ==
  /\ Project \in Places
  /\ Versions \subseteq Nat
  /\ Released \subseteq Versions
  /\ Breakable \subseteq Places \X Runtimes
  /\ MayFail \in BOOLEAN
  /\ TargetSets \subseteq SUBSET Runtimes
  /\ BuildKinds \subseteq {"binary", "subagent", "fileOnly"}
  /\ {None, Unknown, Torn, Edited} \cap Versions = {}
  /\ None \notin {Unknown, Torn, Edited, "bin"} /\ Torn # Edited

\* A registry entry; `binary' is Path # "", `file' the version AgentFileSHA256
\* is of, None when AgentFile is empty.
Entry == [place : Places, version : Versions \cup {Unknown}, remote : BOOLEAN,
          binary : BOOLEAN, file : Versions \cup {None}]

\* A running command.  `version' is what it installs or removes, `known' what it
\* tracks as the version, `file' what it found out about the sub-agent file to
\* install or remove, `todo' the runtimes it has still to edit, `failed' that an
\* edit has failed, `force' that --force was given for the file, `raced' that the
\* user changed a file of that place since the command planned.
Steps == {"copy", "copying", "config", "file", "writing", "track",
          "remove", "emit", "check", "removeFile", "untrack"}
Cmd == [kind : {"build", "install", "uninstall"}, at : Steps,
        place : Places, targets : SUBSET Runtimes,
        version : Versions \cup {Unknown}, known : Versions \cup {Unknown},
        remote : BOOLEAN, binary : BOOLEAN, file : Versions \cup {None},
        force : BOOLEAN, todo : SUBSET Runtimes,
        failed : BOOLEAN, raced : BOOLEAN]

ASSUME AbsenceAssumption == NoCmd \notin Cmd /\ None \notin Entry

VARIABLES
  build,       \* versions of build/<name> and build/.claude/agents/<name>.md
  bin,         \* the installed binary of each place
  entry,       \* what each config's entry runs: "build", "bin" or None
  broken,      \* the configs that do not parse
  file,        \* the sub-agent file of each place
  reg,         \* the registry entry
  cmd,         \* the running command
  refused,     \* the last step was a refusal to replace a sub-agent file
  faulty       \* history: a command has failed since the last install that did not

vars == <<build, bin, entry, broken, file, reg, cmd, refused, faulty>>
installed == <<bin, entry, file, reg>>

Idle == cmd = NoCmd

TypeOK ==
  /\ build \in [bin : Versions \cup {None}, file : Versions \cup {None}]
  /\ bin \in [Places -> Versions \cup {None, Torn}]
  /\ entry \in [Places -> [Runtimes -> {"build", "bin", None}]]
  /\ broken \in SUBSET (Places \X Runtimes)
  /\ file \in [Places -> Versions \cup {None, Torn, Edited}]
  /\ reg \in Entry \cup {None}
  /\ cmd \in Cmd \cup {NoCmd}
  /\ refused \in BOOLEAN
  /\ faulty \in BOOLEAN

Init ==
  /\ build = [bin |-> None, file |-> None]
  /\ bin = [p \in Places |-> None]
  /\ entry = [p \in Places |-> [r \in Runtimes |-> None]]
  /\ broken = {}
  /\ file \in [Places -> {None, Edited}]
  /\ reg = None
  /\ cmd = NoCmd
  /\ refused = FALSE
  /\ faulty = FALSE

------------------------------------------------------------------------------
Parses(place, targets) == \A r \in targets : <<place, r>> \notin broken

\* A command starts or goes on, ends, or ends with an error half way.
Become(c) == cmd' = c /\ refused' = FALSE /\ UNCHANGED faulty
Goto(step) == Become([cmd EXCEPT !.at = step])
Succeed == Become(NoCmd)
Stop == cmd' = NoCmd /\ refused' = FALSE /\ faulty' = TRUE

(* abby build: the binary, then the project's config entries, then the      *)
(* sub-agent file; an agent with `binary: false' has only the last.         *)
Build ==
  /\ Idle
  /\ \E v \in Versions, kind \in BuildKinds, T \in TargetSets :
       \/ /\ kind # "fileOnly"
          /\ build' = [build EXCEPT !.bin = v]
          /\ IF Parses(Project, T)
             THEN Become([kind |-> "build", at |-> "config", place |-> Project,
                         targets |-> T, version |-> v, known |-> v, remote |-> FALSE,
                         binary |-> TRUE,
                         file |-> IF kind = "subagent" THEN v ELSE None,
                         force |-> FALSE, todo |-> T, failed |-> FALSE, raced |-> FALSE])
             ELSE Succeed
       \/ /\ kind = "fileOnly"
          /\ build' = [build EXCEPT !.file = v]
          /\ Succeed
  /\ UNCHANGED <<installed, broken>>

EmitSubagent ==
  /\ ~Idle /\ cmd.at = "emit"
  /\ build' = IF cmd.file = None THEN build ELSE [build EXCEPT !.file = cmd.file]
  /\ Succeed
  /\ UNCHANGED <<installed, broken>>

------------------------------------------------------------------------------
(* Installing *)

\* What is known of the version of the built binary: a --describe that fails, as that
\* of a cross-compiled binary does, leaves it unknown.
Described == IF build.bin = None THEN {Unknown} ELSE {build.bin, Unknown}

\* Mutant: a file of another version is installed with the binary.
PlannedFileStale(known) == build.file

\* planAgentFile: the built sub-agent file, unless there is none or it is of
\* another version than the binary is known to be.
PlannedFile(known) ==
  IF known # Unknown /\ build.file # known THEN None ELSE build.file

\* Mutant: any file the registry knows of may be replaced.
MayReplaceTracked(place, planned, force) ==
  \/ file[place] = None
  \/ force
  \/ file[place] = planned
  \/ reg # None /\ reg.place = place /\ reg.file # None

\* checkReplace: the file is absent, identical, or the one abby installed.
MayReplace(place, planned, force) ==
  \/ file[place] = None
  \/ force
  \/ file[place] = planned
  \/ reg # None /\ reg.place = place /\ reg.file # None /\ reg.file = file[place]

InstallCmd(at, place, T, v, known, remote, binary, planned, force) ==
  [kind |-> "install", at |-> at, place |-> place, targets |-> T, version |-> v,
   known |-> known, remote |-> remote, binary |-> binary, file |-> planned,
   force |-> force /\ planned # None, todo |-> T, failed |-> FALSE, raced |-> FALSE]

(* install <name>: everything that can be refused is, before anything is    *)
(* touched: the sub-agent file, then the runtimes' configs.                 *)
InstallLocal ==
  /\ Idle
  /\ \E place \in Places, T \in TargetSets, force \in BOOLEAN, known \in Described :
       LET planned == PlannedFile(known)
           allowed == planned = None \/ MayReplace(place, planned, force)
       IN \/ /\ ~allowed
             /\ refused' = TRUE
             /\ UNCHANGED <<cmd, faulty>>
          \/ /\ allowed
             /\ build.bin # None
             /\ Parses(place, T)
             /\ Become(InstallCmd("copy", place, T, build.bin, known, FALSE, TRUE,
                                  planned, force))
          \/ /\ allowed
             /\ build.bin = None /\ planned # None
             /\ Become(InstallCmd("file", place, {}, planned, planned, FALSE, FALSE,
                                  planned, force))
  /\ UNCHANGED <<build, installed, broken>>

(* install github.com/...: the release's binary, without a sub-agent file.  *)
InstallRemote ==
  /\ Idle
  /\ \E place \in Places, T \in TargetSets, v \in Released :
       /\ Parses(place, T)
       /\ Become(InstallCmd("copy", place, T, v, v, TRUE, TRUE, None, FALSE))
  /\ UNCHANGED <<build, installed, broken>>

(* update: the same, where the entry says, if the latest release is newer.  *)
Update ==
  /\ Idle
  /\ reg # None /\ reg.remote
  /\ \E T \in TargetSets, v \in Released :
       /\ \A w \in Released : w <= v
       /\ v > reg.version
       /\ Parses(reg.place, T)
       /\ Become(InstallCmd("copy", reg.place, T, v, v, TRUE, TRUE, None, FALSE))
  /\ UNCHANGED <<build, installed, broken>>

\* Mutant: a binary the registry has as installed is not copied again.
CopyStartUnlessTracked ==
  /\ ~Idle /\ cmd.at = "copy"
  /\ IF reg # None /\ reg.place = cmd.place /\ reg.version = cmd.version
     THEN UNCHANGED bin /\ Goto("config")
     ELSE bin' = [bin EXCEPT ![cmd.place] = Torn] /\ Goto("copying")
  /\ UNCHANGED <<build, entry, broken, file, reg>>

\* CopyFile truncates the binary, and then writes it.
CopyStart ==
  /\ ~Idle /\ cmd.at = "copy"
  /\ bin' = [bin EXCEPT ![cmd.place] = Torn]
  /\ Goto("copying")
  /\ UNCHANGED <<build, entry, broken, file, reg>>

CopyEnd ==
  /\ ~Idle /\ cmd.at = "copying"
  /\ bin' = [bin EXCEPT ![cmd.place] = cmd.version]
  /\ Goto("config")
  /\ UNCHANGED <<build, entry, broken, file, reg>>

\* commitPlanned: one config after the other, up to the first error.
EditConfig ==
  /\ ~Idle /\ cmd.at = "config" /\ cmd.kind # "uninstall"
  /\ \/ \E r \in cmd.todo :
          /\ <<cmd.place, r>> \notin broken
          /\ entry' = [entry EXCEPT ![cmd.place][r] =
                         IF cmd.kind = "build" THEN "build" ELSE "bin"]
          /\ Become([cmd EXCEPT !.todo = @ \ {r}])
     \/ /\ \E r \in cmd.todo : <<cmd.place, r>> \in broken
        /\ Stop
        /\ UNCHANGED entry
     \/ /\ cmd.todo = {}
        /\ Goto(IF cmd.kind = "build" THEN "emit"
                ELSE IF cmd.file = None THEN "track" ELSE "file")
        /\ UNCHANGED entry
  /\ UNCHANGED <<build, bin, broken, file, reg>>

\* writeAgentFile: os.WriteFile truncates, and then writes.
FileStart ==
  /\ ~Idle /\ cmd.at = "file"
  /\ file' = [file EXCEPT ![cmd.place] = Torn]
  /\ Goto("writing")
  /\ UNCHANGED <<build, bin, entry, broken, reg>>

FileEnd ==
  /\ ~Idle /\ cmd.at = "writing"
  /\ file' = [file EXCEPT ![cmd.place] = cmd.file]
  /\ Goto("track")
  /\ UNCHANGED <<build, bin, entry, broken, reg>>

\* Mutant: the version is asked of the installed binary.
TrackAsked ==
  /\ ~Idle /\ cmd.at = "track"
  /\ reg' = [place |-> cmd.place, version |-> bin[cmd.place], remote |-> cmd.remote,
             binary |-> cmd.binary, file |-> cmd.file]
  /\ cmd' = NoCmd
  /\ refused' = FALSE
  /\ faulty' = FALSE
  /\ UNCHANGED <<build, bin, entry, broken, file>>

\* trackInstall replaces the agent's whole entry.
Track ==
  /\ ~Idle /\ cmd.at = "track"
  /\ reg' = [place |-> cmd.place, version |-> cmd.known, remote |-> cmd.remote,
             binary |-> cmd.binary, file |-> cmd.file]
  /\ cmd' = NoCmd
  /\ refused' = FALSE
  /\ faulty' = FALSE
  /\ UNCHANGED <<build, bin, entry, broken, file>>

------------------------------------------------------------------------------
(* Uninstalling *)

\* Mutant: a runtime whose config does not parse is passed over.
UninstallParsableOnly ==
  /\ Idle
  /\ reg # None
  /\ \E T \in TargetSets :
       Become([kind |-> "uninstall", at |-> IF reg.binary THEN "remove" ELSE "check",
              place |-> reg.place, targets |-> {},
              version |-> reg.version, known |-> reg.version,
              remote |-> reg.remote, binary |-> reg.binary, file |-> reg.file, force |-> FALSE,
              todo |-> {r \in T : /\ reg.binary /\ entry[reg.place][r] # None
                                  /\ <<reg.place, r>> \notin broken},
              failed |-> FALSE, raced |-> FALSE])
  /\ UNCHANGED <<build, installed, broken>>

(* uninstall: works on the entry it loads; plans every runtime's removal     *)
(* before anything is touched, and forgets those with nothing to remove.    *)
Uninstall ==
  /\ Idle
  /\ reg # None
  /\ \E T \in TargetSets :
       /\ reg.binary => Parses(reg.place, T)
       /\ Become([kind |-> "uninstall", at |-> IF reg.binary THEN "remove" ELSE "check",
                 place |-> reg.place, targets |-> IF reg.binary THEN T ELSE {},
                 version |-> reg.version, known |-> reg.version,
                 remote |-> reg.remote, binary |-> reg.binary, file |-> reg.file, force |-> FALSE,
                 todo |-> {r \in T : reg.binary /\ entry[reg.place][r] # None},
                 failed |-> FALSE, raced |-> FALSE])
  /\ UNCHANGED <<build, installed, broken>>

RemoveBinary ==
  /\ ~Idle /\ cmd.at = "remove"
  /\ bin' = [bin EXCEPT ![cmd.place] = None]
  /\ Goto("config")
  /\ UNCHANGED <<build, entry, broken, file, reg>>

\* Mutant: a removal that failed is forgotten.
RemoveEntryLenient ==
  /\ ~Idle /\ cmd.at = "config" /\ cmd.kind = "uninstall"
  /\ \/ \E r \in cmd.todo :
          /\ \/ /\ <<cmd.place, r>> \notin broken
                /\ entry' = [entry EXCEPT ![cmd.place][r] = None]
             \/ UNCHANGED entry
          /\ Become([cmd EXCEPT !.todo = @ \ {r}])
     \/ /\ cmd.todo = {}
        /\ Goto("check")
        /\ UNCHANGED entry
  /\ UNCHANGED <<build, bin, broken, file, reg>>

\* commitRemovals: every config is attempted; an error shows at the end.
RemoveEntry ==
  /\ ~Idle /\ cmd.at = "config" /\ cmd.kind = "uninstall"
  /\ \/ \E r \in cmd.todo :
          /\ <<cmd.place, r>> \notin broken
          /\ entry' = [entry EXCEPT ![cmd.place][r] = None]
          /\ Become([cmd EXCEPT !.todo = @ \ {r}])
     \/ \E r \in cmd.todo :
          /\ MayFail \/ <<cmd.place, r>> \in broken
          /\ Become([cmd EXCEPT !.todo = @ \ {r}, !.failed = TRUE])
          /\ UNCHANGED entry
     \/ /\ cmd.todo = {} /\ ~cmd.failed
        /\ Goto("check")
        /\ UNCHANGED entry
     \/ /\ cmd.todo = {} /\ cmd.failed
        /\ Stop
        /\ UNCHANGED entry
  /\ UNCHANGED <<build, bin, broken, file, reg>>

\* removeAgentFile: only the file abby installed is removed.
CheckFile ==
  /\ ~Idle /\ cmd.at = "check"
  /\ Goto(IF cmd.file # None /\ file[cmd.place] = cmd.file THEN "removeFile" ELSE "untrack")
  /\ UNCHANGED <<build, installed, broken>>

RemoveFile ==
  /\ ~Idle /\ cmd.at = "removeFile"
  /\ file' = [file EXCEPT ![cmd.place] = None]
  /\ Goto("untrack")
  /\ UNCHANGED <<build, bin, entry, broken, reg>>

Untrack ==
  /\ ~Idle /\ cmd.at = "untrack"
  /\ reg' = None
  /\ Succeed
  /\ UNCHANGED <<build, bin, entry, broken, file>>

------------------------------------------------------------------------------
(* A file operation fails and the error is returned, or abby dies.          *)
Fail ==
  /\ ~Idle /\ MayFail
  /\ Stop
  /\ UNCHANGED <<build, installed, broken>>

(* The user and the other programs.                                         *)
Raced(p) ==
  IF ~Idle /\ cmd.place = p THEN Become([cmd EXCEPT !.raced = TRUE]) ELSE Become(cmd)

UserEditsFile ==
  /\ \E p \in Places :
       /\ file[p] # Edited
       /\ \E f \in {Edited, None} \ {file[p]} : file' = [file EXCEPT ![p] = f]
       /\ Raced(p)
  /\ UNCHANGED <<build, bin, entry, broken, reg>>

UserEditsConfig ==
  /\ \E c \in Breakable :
       /\ broken' = IF c \in broken THEN broken \ {c} ELSE broken \cup {c}
       /\ Raced(c[1])
  /\ UNCHANGED <<build, installed>>

UserCleansBuild ==
  /\ Idle
  /\ build # [bin |-> None, file |-> None]
  /\ build' = [bin |-> None, file |-> None]
  /\ Succeed
  /\ UNCHANGED <<installed, broken>>

Step ==
  \/ EmitSubagent
  \/ CopyStart \/ CopyEnd \/ EditConfig \/ FileStart \/ FileEnd \/ Track
  \/ RemoveBinary \/ RemoveEntry \/ CheckFile \/ RemoveFile \/ Untrack

User == UserEditsFile \/ UserEditsConfig \/ UserCleansBuild

Next ==
  \/ Build \/ InstallLocal \/ InstallRemote \/ Update \/ Uninstall
  \/ Step
  \/ Fail
  \/ User

Spec == Init /\ [][Next]_vars

------------------------------------------------------------------------------
(* Properties *)

\* A sub-agent file the user wrote or changed is neither overwritten nor
\* removed unless the user said --force, or changed it after the command
\* looked (checkReplace, removeAgentFile).
EditedFileKept ==
  [][cmd # NoCmd /\ file[cmd.place] = Edited /\ file'[cmd.place] # Edited
       /\ (cmd' = NoCmd \/ cmd'.at # cmd.at)
         => cmd.force \/ cmd.raced]_vars

\* An uninstall forgets the agent only when nothing it was to remove is left:
\* the binary, the entries of the runtimes it was to edit, the file abby
\* installed; so that one that could not finish can be run again (runUninstall).
UntrackedOnlyWhenGone ==
  [][reg # None /\ reg' = None
       => /\ reg.binary => bin[reg.place] = None
          /\ \A r \in cmd.targets : entry[reg.place][r] = None
          /\ cmd.raced \/ reg.file = None \/ file[reg.place] # reg.file]_vars

\* What the registry says is there: a whole binary and, unless the user has changed it
\* since, the sub-agent file it has the hash of.  Both are of its version, when it has
\* one; it has one for all but a local binary that did not describe itself.
Truthful ==
  reg # None
    => /\ reg.binary => bin[reg.place] \in Versions
       /\ reg.file # None => file[reg.place] \in {reg.file, Edited, None}
       /\ reg.version # Unknown
            => /\ reg.binary => reg.version = bin[reg.place]
               /\ reg.file # None => reg.version = reg.file
       /\ reg.remote \/ ~reg.binary => reg.version # Unknown

\* Between commands, unless one has failed or died since the last install that ended,
\* the registry tells the truth (trackInstall, planAgentFile, update).
RegistryTruthful == Idle /\ ~faulty => Truthful

\* Between commands, unless one has failed since, no runtime is told to run an
\* installed binary that is not there or that uninstall would not find: for
\* one place, every runtime always selected and an agent that keeps its binary
\* (the order of runUninstall, planRemovals, runLocalInstall).
NoDanglingEntry ==
  Idle /\ ~faulty
    => \A p \in Places, r \in Runtimes :
         entry[p][r] = "bin"
           => bin[p] \in Versions /\ reg # None /\ reg.place = p /\ reg.binary

\* What an install has established at each step: the binary is copied whole
\* before anything mentions it, the file it writes is of the binary's version if
\* that is known, and what it may overwrite was looked at when it was planned.
InstallUnderWay ==
  ~Idle /\ cmd.kind = "install"
    => /\ cmd.at \in {"copy", "copying", "config", "file", "writing", "track"}
       /\ cmd.version \in Versions /\ cmd.known \in {cmd.version, Unknown}
       /\ cmd.known # Unknown => cmd.file \in {None, cmd.version}
       /\ cmd.remote \/ ~cmd.binary => cmd.known # Unknown
       /\ cmd.at \in {"file", "writing"} => cmd.file # None
       /\ cmd.binary => cmd.at \in {"copy", "copying"} \/ bin[cmd.place] = cmd.version
       /\ cmd.at = "track" => cmd.file = None \/ file[cmd.place] \in {cmd.file, Edited, None}
       /\ cmd.file = None \/ cmd.force \/ cmd.raced \/ file[cmd.place] # Edited

\* What an uninstall has established: it works on what the registry says, and
\* the file is looked at only when the binary and the entries are gone.
UninstallUnderWay ==
  ~Idle /\ cmd.kind = "uninstall"
    => /\ cmd.at \in {"remove", "config", "check", "removeFile", "untrack"}
       /\ reg # None
       /\ reg.place = cmd.place /\ reg.binary = cmd.binary /\ reg.file = cmd.file
       /\ cmd.binary => cmd.at = "remove" \/ bin[cmd.place] = None
       /\ cmd.failed \/ \A r \in cmd.targets \ cmd.todo : entry[cmd.place][r] = None
       /\ cmd.at \in {"check", "removeFile", "untrack"} => cmd.todo = {} /\ ~cmd.failed
       /\ cmd.at = "removeFile" => cmd.raced \/ file[cmd.place] # Edited
       /\ cmd.at = "untrack" => cmd.raced \/ cmd.file = None \/ file[cmd.place] # cmd.file

\* A build leaves what is installed as it was.
BuildUnderWay ==
  ~Idle /\ cmd.kind = "build" => cmd.at \in {"config", "emit"} /\ (faulty \/ Truthful)

\* The inductive invariant.
IInv ==
  /\ TypeOK
  /\ InstallUnderWay
  /\ UninstallUnderWay
  /\ BuildUnderWay
  /\ RegistryTruthful

\* What NoDanglingEntry needs of the agent and its installs.
OneWholeInstall ==
  /\ \A p, q \in Places : p = q
  /\ TargetSets \subseteq {Runtimes}
  /\ "fileOnly" \notin BuildKinds

\* Such an agent always has a binary to install and to remove, its uninstall
\* goes through every runtime, and a build changes nothing that is installed.
WholeUnderWay ==
  /\ build.file # None => build.bin # None
  /\ reg # None => reg.binary
  /\ ~Idle => /\ cmd.binary
              /\ cmd.kind = "build" => build.bin # None
              /\ cmd.kind = "uninstall" => cmd.targets = Runtimes
  /\ (Idle \/ cmd.kind = "build") /\ ~faulty
       => \A p \in Places, r \in Runtimes :
            entry[p][r] = "bin" => bin[p] \in Versions /\ reg # None /\ reg.place = p
==============================================================================
