------------------------------ MODULE ConfigFile ------------------------------
(***************************************************************************)
(* One runtime's MCP config file, edited by abby while the runtime, the    *)
(* user or another abby process may rewrite it at any moment.              *)
(*                                                                         *)
(* pkg/runtimecfg/filewriter.go plans an edit, and applies it later by     *)
(* re-reading the file, re-computing the edit and handing the result to    *)
(* pkg/fsutil/snapshot.go, whose Commit compares the file with the         *)
(* snapshot, keeps a one-time backup and renames the new content into      *)
(* place.  Every system call another process can get in front of is a step *)
(* of its own here.                                                        *)
(***************************************************************************)
EXTENDS Naturals, FiniteSets

CONSTANTS
  Editors,     \* abby processes (or successive changes) editing this file
  Names,       \* MCP server names
  Commands,    \* values of the entry fields abby owns (command, args, cwd)
  Extras,      \* values of the entry fields abby does not own
  Rests,       \* everything in the document outside mcpServers
  Foreign,     \* contents other programs and the user may leave in the file
  NoExtra,     \* the entry has no field abby does not own
  NoRest,      \* the document has nothing outside mcpServers
  NoEntry,     \* the name is not in mcpServers
  Absent,      \* the file does not exist
  Broken,      \* the file exists and does not parse
  NoJob        \* the editor has planned nothing

Entry == [cmd : Commands, extra : Extras]
Doc == [servers : [Names -> Entry \cup {NoEntry}], rest : Rests]
Content == Doc \cup {Absent, Broken}
Job == [kind : {"add"}, name : Names, cmd : Commands]
         \cup [kind : {"remove"}, name : Names]

ASSUME ConfigAssumption ==
  /\ NoExtra \in Extras
  /\ NoRest \in Rests
  /\ NoEntry \notin Entry
  /\ Absent \notin Doc
  /\ Broken \notin Doc
  /\ Absent # Broken
  /\ NoJob \notin Job
  /\ Foreign \subseteq Content

VARIABLES
  file,        \* content of the config file
  backup,      \* content of <file>.abbyfile.bak, Absent when there is none
  pc,          \* where each editor is
  job,         \* the change each editor planned
  snap,        \* Snapshot.Data of the editor's current attempt
  attempt,     \* loop counter of Change.apply
  (* What no program sees, kept to state the properties. *)
  touched,     \* some editor has renamed a new content into place
  created,     \* some editor has done so where its snapshot had no file
  old,         \* the editor's snapshot was taken before any editor's rename
  backupOld,   \* so was the snapshot the backup holds
  raced,       \* somebody wrote the file since the editor's re-read in Commit
  seen,        \* changes by others since the editor began to apply, up to 2
  wrote        \* the editor has written the file or its backup in this apply

files == <<file, backup>>
locals == <<pc, job, snap, attempt>>
history == <<touched, created, old, backupOld, raced, seen, wrote>>
vars == <<file, backup, pc, job, snap, attempt,
          touched, created, old, backupOld, raced, seen, wrote>>

------------------------------------------------------------------------------
(* The edit, a function of the content (upsertJSONServer, removeJSONServer). *)

EmptyDoc == [servers |-> [n \in Names |-> NoEntry], rest |-> NoRest]

\* A missing file parses as the empty document.
Parsed(c) == IF c = Absent THEN EmptyDoc ELSE c

\* The new entry: the owned fields are set, the others kept.
Upserted(before, cmd) ==
  [cmd |-> cmd, extra |-> IF before = NoEntry THEN NoExtra ELSE before.extra]

NewEntry(before, j) ==
  IF j.kind = "add" THEN Upserted(before, j.cmd) ELSE NoEntry

\* Mutant: an entry that exists counts as added, whatever its command.
ChangedByPresence(c, j) ==
  LET before == Parsed(c).servers[j.name]
  IN (before = NoEntry) # (NewEntry(before, j) = NoEntry)

Changed(c, j) ==
  LET before == Parsed(c).servers[j.name] IN NewEntry(before, j) # before

Edited(c, j) ==
  [Parsed(c) EXCEPT !.servers[j.name] = NewEntry(Parsed(c).servers[j.name], j)]

------------------------------------------------------------------------------
Idle == {"idle", "done", "failed", "gaveUp"}
InCommit == {"checked", "backing", "backed"}
Applying == {"planned", "read"} \cup InCommit

TypeOK ==
  /\ file \in Content
  /\ backup \in Doc \cup {Absent}
  /\ pc \in [Editors -> Idle \cup Applying]
  /\ job \in [Editors -> Job \cup {NoJob}]
  /\ snap \in [Editors -> Doc \cup {Absent}]
  /\ attempt \in [Editors -> {0, 1}]
  /\ touched \in BOOLEAN
  /\ created \in BOOLEAN
  /\ old \in [Editors -> BOOLEAN]
  /\ backupOld \in BOOLEAN
  /\ raced \in [Editors -> BOOLEAN]
  /\ seen \in [Editors -> 0..2]
  /\ wrote \in [Editors -> BOOLEAN]

Init ==
  /\ file \in Foreign
  /\ backup = Absent
  /\ pc = [e \in Editors |-> "idle"]
  /\ job = [e \in Editors |-> NoJob]
  /\ snap = [e \in Editors |-> Absent]
  /\ attempt = [e \in Editors |-> 0]
  /\ touched = FALSE
  /\ created = FALSE
  /\ old = [e \in Editors |-> FALSE]
  /\ backupOld = FALSE
  /\ raced = [e \in Editors |-> FALSE]
  /\ seen = [e \in Editors |-> 0]
  /\ wrote = [e \in Editors |-> FALSE]

Move(e, from, to) ==
  /\ pc[e] = from
  /\ pc' = [pc EXCEPT ![e] = to]

\* The apply ends: its closure's variables are gone.
Return(e, outcome) ==
  /\ pc' = [pc EXCEPT ![e] = outcome]
  /\ job' = [job EXCEPT ![e] = NoJob]
  /\ snap' = [snap EXCEPT ![e] = Absent]
  /\ attempt' = [attempt EXCEPT ![e] = 0]
  /\ old' = [old EXCEPT ![e] = FALSE]
  /\ wrote' = [wrote EXCEPT ![e] = FALSE]

\* Bookkeeping of one write of the file, as the other editors `others' see it.
Disturb(others) ==
  /\ raced' = [e \in Editors |->
                 IF e \in others THEN raced[e] \/ pc[e] \in InCommit ELSE FALSE]
  /\ seen' = [e \in Editors |->
                IF e \in others
                THEN IF pc[e] \in Applying /\ seen[e] < 2 THEN seen[e] + 1 ELSE seen[e]
                ELSE 0]
Undisturbed(e) ==
  /\ raced' = [raced EXCEPT ![e] = FALSE]
  /\ seen' = [seen EXCEPT ![e] = 0]

------------------------------------------------------------------------------
(* Planning: fileChange reads the file and computes the edit; a content    *)
(* that does not parse is refused.  A removal with nothing to remove is     *)
(* dropped by planRemovals; an addition is kept even when it would change   *)
(* nothing, since Change.Apply re-checks it.                                *)
Plan(e) ==
  /\ pc[e] \in Idle
  /\ file # Broken
  /\ \E j \in Job :
       /\ j.kind = "add" \/ Changed(file, j)
       /\ job' = [job EXCEPT ![e] = j]
  /\ pc' = [pc EXCEPT ![e] = "planned"]
  /\ UNCHANGED <<files, snap, attempt, history>>

(* One turn of apply's loop: ReadSnapshot, then the edit; nothing to change *)
(* ends the apply with success.                                             *)
ReadSnapshot(e) ==
  /\ pc[e] = "planned"
  /\ \/ /\ file # Broken
        /\ Changed(file, job[e])
        /\ pc' = [pc EXCEPT ![e] = "read"]
        /\ snap' = [snap EXCEPT ![e] = file]
        /\ old' = [old EXCEPT ![e] = ~touched]
        /\ UNCHANGED <<job, attempt, raced, seen, wrote>>
     \/ /\ file # Broken
        /\ ~Changed(file, job[e])
        /\ Return(e, "done")
        /\ Undisturbed(e)
     \/ /\ file = Broken
        /\ Return(e, "failed")
        /\ Undisturbed(e)
  /\ UNCHANGED <<files, touched, created, backupOld>>

\* Mutant: Commit does not compare.
RecheckBlind(e) ==
  /\ Move(e, "read", "checked")
  /\ UNCHANGED <<files, job, snap, attempt, history>>

\* Mutant: the first ErrChangedOnDisk is the last.
RecheckOnce(e) ==
  /\ pc[e] = "read"
  /\ \/ /\ file = snap[e]
        /\ pc' = [pc EXCEPT ![e] = "checked"]
        /\ UNCHANGED <<job, snap, attempt, old, raced, seen, wrote>>
     \/ /\ file # snap[e]
        /\ Return(e, "gaveUp")
        /\ Undisturbed(e)
  /\ UNCHANGED <<files, touched, created, backupOld>>

\* Mutant: every ErrChangedOnDisk starts another turn.
RecheckForever(e) ==
  /\ Move(e, "read", IF file = snap[e] THEN "checked" ELSE "planned")
  /\ UNCHANGED <<files, job, snap, attempt, history>>

\* Mutant: the backup is made before the comparison.
RecheckAfterBackup(e) ==
  /\ pc[e] = "read"
  /\ backup' = IF backup = Absent THEN snap[e] ELSE backup
  /\ backupOld' = IF backup = Absent THEN old[e] ELSE backupOld
  /\ \/ /\ file = snap[e]
        /\ pc' = [pc EXCEPT ![e] = "checked"]
        /\ UNCHANGED <<job, snap, attempt, old, raced, seen, wrote>>
     \/ /\ file # snap[e]
        /\ attempt[e] = 0
        /\ pc' = [pc EXCEPT ![e] = "planned"]
        /\ attempt' = [attempt EXCEPT ![e] = 1]
        /\ wrote' = [wrote EXCEPT ![e] = backup' # backup]
        /\ UNCHANGED <<job, snap, old, raced, seen>>
     \/ /\ file # snap[e]
        /\ attempt[e] = 1
        /\ Return(e, "gaveUp")
        /\ Undisturbed(e)
  /\ UNCHANGED <<file, touched, created>>

(* Commit re-reads the file and compares it with the snapshot.  The first   *)
(* ErrChangedOnDisk starts the second turn of the loop, the second ends it. *)
Recheck(e) ==
  /\ pc[e] = "read"
  /\ \/ /\ file = snap[e]
        /\ pc' = [pc EXCEPT ![e] = "checked"]
        /\ UNCHANGED <<job, snap, attempt, old, raced, seen, wrote>>
     \/ /\ file # snap[e]
        /\ attempt[e] = 0
        /\ pc' = [pc EXCEPT ![e] = "planned"]
        /\ attempt' = [attempt EXCEPT ![e] = 1]
        /\ UNCHANGED <<job, snap, old, raced, seen, wrote>>
     \/ /\ file # snap[e]
        /\ attempt[e] = 1
        /\ Return(e, "gaveUp")
        /\ Undisturbed(e)
  /\ UNCHANGED <<files, touched, created, backupOld>>

\* Mutant: the backup is made again on every commit.
StatBackupAlways(e) ==
  /\ Move(e, "checked", IF snap[e] # Absent THEN "backing" ELSE "backed")
  /\ UNCHANGED <<files, job, snap, attempt, history>>

(* Commit asks whether a backup exists, only if the file did.               *)
StatBackup(e) ==
  /\ Move(e, "checked",
          IF snap[e] # Absent /\ backup = Absent THEN "backing" ELSE "backed")
  /\ UNCHANGED <<files, job, snap, attempt, history>>

WriteBackup(e) ==
  /\ Move(e, "backing", "backed")
  /\ backup' = snap[e]
  /\ backupOld' = old[e]
  /\ wrote' = [wrote EXCEPT ![e] = TRUE]
  /\ UNCHANGED <<file, job, snap, attempt, touched, created, old, raced, seen>>

(* The atomic rename of the new content over the target.                    *)
Rename(e) ==
  /\ pc[e] = "backed"
  /\ file' = Edited(snap[e], job[e])
  /\ touched' = TRUE
  /\ created' = (created \/ snap[e] = Absent)
  /\ Return(e, "done")
  /\ Disturb(Editors \ {e})
  /\ UNCHANGED <<backup, backupOld>>

(* A read, the backup or the temporary file fails and the error is          *)
(* returned, or the abby process dies: the next Plan is a new process's.    *)
Abort(e) ==
  /\ pc[e] \in Applying
  /\ Return(e, "failed")
  /\ Undisturbed(e)
  /\ UNCHANGED <<files, touched, created, backupOld>>

(* The runtime or the user replaces the content: a setting changed, a stale *)
(* in-memory copy written back, the file deleted or left unparsable.        *)
ForeignWrite ==
  /\ \E c \in Foreign \ {file} : file' = c
  /\ Disturb(Editors)
  /\ UNCHANGED <<backup, locals, touched, created, old, backupOld, wrote>>

Step(e) ==
  \/ ReadSnapshot(e)
  \/ Recheck(e)
  \/ StatBackup(e)
  \/ WriteBackup(e)
  \/ Rename(e)

Next ==
  \/ \E e \in Editors : Plan(e) \/ Step(e) \/ Abort(e)
  \/ ForeignWrite

Spec == Init /\ [][Next]_vars

\* An abby process keeps running until it aborts; nothing is assumed of the
\* other programs.
FairSpec == Spec /\ \A e \in Editors : WF_vars(Step(e))
------------------------------------------------------------------------------
(* Properties *)

\* What an edit of `name' may change between contents c and d: the entry's own
\* fields, nothing else of the document.
OnlyItsEntry(c, d, name) ==
  LET before == Parsed(c).servers[name]
      after == d.servers[name]
  IN /\ d.rest = Parsed(c).rest
     /\ \A n \in Names \ {name} : d.servers[n] = Parsed(c).servers[n]
     /\ before # NoEntry /\ after # NoEntry => after.extra = before.extra

\* A rename that nobody wrote in front of since Commit's re-read changes the
\* planned entry only: other servers, the fields the user added to this one and
\* the rest of the document survive, whatever happened before the re-read
\* (snapshot.go, Commit; jsonobj.go, upsertJSONServer and removeJSONServer).
PreservesOthersWork ==
  [][\A e \in Editors :
       pc[e] = "backed" /\ pc'[e] = "done" /\ ~raced[e]
         => OnlyItsEntry(file, file', job[e].name)]_vars

Satisfied(c, j) ==
  LET entry == Parsed(c).servers[j.name]
  IN IF j.kind = "add" THEN entry # NoEntry /\ entry.cmd = j.cmd ELSE entry = NoEntry

\* An apply that reports success leaves, at that moment, a file in which there
\* is nothing left to change for it: it was applied, or a concurrent change had
\* already done so (filewriter.go, the loop of fileChange's apply).
SuccessMeansApplied ==
  [][\A e \in Editors :
       pc[e] # "done" /\ pc'[e] = "done"
         => file' # Broken /\ Satisfied(file', job[e])]_vars

\* The backup is what the file held before abby ever wrote it, even when two
\* abby processes take it at once or one dies between the backup and the
\* rename; the exception is a file that abby itself created.
BackupPredatesAbby == backup # Absent /\ ~created => backupOld

\* "one concurrent modification is absorbed by re-planning, a second is an
\* error": nothing gives up having met fewer than two (filewriter.go:101).
AbsorbsOneChange ==
  [][\A e \in Editors : pc[e] # "gaveUp" /\ pc'[e] = "gaveUp" => seen[e] = 2]_vars

\* "nothing was written" is true of an apply that says so: neither the file
\* nor its backup was (filewriter.go:136).
GivesUpUnwritten ==
  [][\A e \in Editors : pc[e] # "gaveUp" /\ pc'[e] = "gaveUp" => ~wrote[e]]_vars

\* However often the file is rewritten under it, an apply ends: the loop of
\* fileChange's apply runs at most twice.
ApplyEnds == \A e \in Editors : pc[e] \in Applying ~> pc[e] \in Idle

------------------------------------------------------------------------------
(* The inductive invariant the proofs use. *)

HasSnapshot == {"read"} \cup InCommit

\* An editor past the re-read holds the content of the file unless it was raced.
SnapshotCurrent ==
  \A e \in Editors : pc[e] \in InCommit /\ ~raced[e] => file = snap[e]

JobInHand == \A e \in Editors : pc[e] \in Applying => job[e] \in Job

\* Once abby has replaced an existing file a backup exists, and whoever still
\* has a backup to write took its snapshot before that.
BackupFirst ==
  /\ touched /\ ~created => backup # Absent
  /\ \A e \in Editors :
       /\ pc[e] = "backed" /\ snap[e] # Absent => backup # Absent
       /\ pc[e] \in HasSnapshot /\ ~old[e] /\ ~created => backup # Absent
       /\ pc[e] = "backing" => snap[e] # Absent /\ (old[e] \/ created)

\* Every mismatch an editor meets is a change it has counted.
ChangesCounted ==
  \A e \in Editors :
    /\ pc[e] \in Idle => attempt[e] = 0
    /\ pc[e] \in {"planned", "read"} /\ attempt[e] = 1 => seen[e] >= 1
    /\ pc[e] = "read" /\ file # snap[e] => seen[e] >= attempt[e] + 1

UnwrittenUntilBacking == \A e \in Editors : pc[e] # "backed" => ~wrote[e]

IInv ==
  /\ TypeOK
  /\ JobInHand
  /\ SnapshotCurrent
  /\ BackupFirst
  /\ BackupPredatesAbby
  /\ ChangesCounted
  /\ UnwrittenUntilBacking
==============================================================================
