------------------------------- MODULE Registry -------------------------------
(***************************************************************************)
(* ~/.abbyfile/registry.json under several abby commands at once           *)
(* (pkg/registry/registry.go; trackInstall in cmd/abby/install.go,         *)
(* runUninstall in cmd/abby/uninstall.go).  A command loads the whole file, *)
(* edits one entry in memory and saves the whole file through one fixed    *)
(* temporary name, so two saves can share the temporary file: files are    *)
(* inodes here, and the two names are directory entries.                   *)
(***************************************************************************)
EXTENDS Naturals, FiniteSets

CONSTANTS
  Procs,       \* abby commands
  Agents,      \* agent names
  Entries,     \* values of an entry
  Inodes,      \* enough for both names and every open handle
  NoEntry,     \* the agent is not in the registry
  NoFile,      \* the name does not exist; no handle is open
  Empty,       \* the content of a file just truncated
  Torn,        \* any other content that does not parse
  NoJob        \* the process runs no command

Doc == [Agents -> Entries \cup {NoEntry}]
Content == Doc \cup {Empty, Torn}
Job == [kind : {"track"}, agent : Agents, entry : Entries]
         \cup [kind : {"remove"}, agent : Agents]

ASSUME RegistryAssumption ==
  /\ NoEntry \notin Entries
  /\ Empty \notin Doc
  /\ Torn \notin Doc
  /\ NoFile \notin Inodes
  /\ NoJob \notin Job

VARIABLES
  main,        \* inode of registry.json
  tmp,         \* inode of registry.json.tmp
  data,        \* content of each inode
  pc,          \* where each command is
  job,         \* what it does to the registry
  reg,         \* the registry in its memory, once loaded and edited
  fd,          \* inode its open temporary file has
  alone        \* history: no other save overlapped it since it loaded

vars == <<main, tmp, data, pc, job, reg, fd, alone>>

------------------------------------------------------------------------------
NoAgents == [a \in Agents |-> NoEntry]

\* reg.Set and reg.Remove.
Edit(doc, j) ==
  [doc EXCEPT ![j.agent] = IF j.kind = "track" THEN j.entry ELSE NoEntry]

Saving == {"opened", "written"}

TypeOK ==
  /\ main \in Inodes \cup {NoFile}
  /\ tmp \in Inodes \cup {NoFile}
  /\ data \in [Inodes -> Content]
  /\ pc \in [Procs -> {"idle", "loaded"} \cup Saving]
  /\ job \in [Procs -> Job \cup {NoJob}]
  /\ reg \in [Procs -> Doc]
  /\ fd \in [Procs -> Inodes \cup {NoFile}]
  /\ alone \in [Procs -> BOOLEAN]

Init ==
  /\ main = NoFile
  /\ tmp = NoFile
  /\ data = [i \in Inodes |-> Empty]
  /\ pc = [p \in Procs |-> "idle"]
  /\ job = [p \in Procs |-> NoJob]
  /\ reg = [p \in Procs |-> NoAgents]
  /\ fd = [p \in Procs |-> NoFile]
  /\ alone = [p \in Procs |-> FALSE]

\* The command ends, by returning or by dying: its memory and handle are gone.
End(p) ==
  /\ pc' = [pc EXCEPT ![p] = "idle"]
  /\ job' = [job EXCEPT ![p] = NoJob]
  /\ reg' = [reg EXCEPT ![p] = NoAgents]
  /\ fd' = [fd EXCEPT ![p] = NoFile]
  /\ alone' = [alone EXCEPT ![p] = FALSE]

------------------------------------------------------------------------------
Readable == main # NoFile => data[main] \in Doc

\* Load's result: a missing file is an empty registry.
Loaded == IF main = NoFile THEN NoAgents ELSE data[main]

\* Starting to edit; the history starts too.
Take(p, doc, j) ==
  /\ pc' = [pc EXCEPT ![p] = "loaded"]
  /\ job' = [job EXCEPT ![p] = j]
  /\ reg' = [reg EXCEPT ![p] = Edit(doc, j)]
  /\ alone' = [alone EXCEPT ![p] = \A q \in Procs : pc[q] \notin Saving]
  /\ UNCHANGED <<main, tmp, data, fd>>

\* Mutant: a registry that does not parse is started afresh.
LoadAfresh(p) ==
  /\ pc[p] = "idle"
  /\ \E j \in Job :
       /\ j.kind = "track"
       /\ Take(p, IF Readable THEN Loaded ELSE NoAgents, j)

(* Load, and the edit in memory.  A registry that does not parse fails the  *)
(* command; so does uninstalling an agent that is not in it.                *)
Load(p) ==
  /\ pc[p] = "idle"
  /\ Readable
  /\ \E j \in Job :
       /\ j.kind = "track" \/ Loaded[j.agent] # NoEntry
       /\ Take(p, Loaded, j)

\* Mutant: an existing temporary file is opened without truncating it.
OpenTmpKeeping(p) ==
  /\ pc[p] = "loaded"
  /\ pc' = [pc EXCEPT ![p] = "opened"]
  /\ \E i \in Inodes :
       /\ IF tmp # NoFile THEN i = tmp
          ELSE i # main /\ \A q \in Procs : fd[q] # i
       /\ tmp' = i
       /\ fd' = [fd EXCEPT ![p] = i]
       /\ data' = IF tmp # NoFile THEN data ELSE [data EXCEPT ![i] = Empty]
  /\ alone' = [q \in Procs |-> IF q = p THEN alone[p] ELSE FALSE]
  /\ UNCHANGED <<main, job, reg>>

(* Save: os.WriteFile opens the temporary file, creating or truncating it,  *)
(* ...                                                                      *)
OpenTmp(p) ==
  /\ pc[p] = "loaded"
  /\ pc' = [pc EXCEPT ![p] = "opened"]
  /\ \E i \in Inodes :
       /\ IF tmp # NoFile THEN i = tmp
          ELSE i # main /\ \A q \in Procs : fd[q] # i
       /\ tmp' = i
       /\ fd' = [fd EXCEPT ![p] = i]
       /\ data' = [data EXCEPT ![i] = Empty]
  /\ alone' = [q \in Procs |-> IF q = p THEN alone[p] ELSE FALSE]
  /\ UNCHANGED <<main, job, reg>>

(* ... writes it from the start, over whatever another command has written  *)
(* there since, of which a tail may remain, and closes it.                  *)
WriteTmp(p) ==
  /\ pc[p] = "opened"
  /\ pc' = [pc EXCEPT ![p] = "written"]
  /\ \E c \in {reg[p], Torn} :
       /\ c = Torn => data[fd[p]] \notin {Empty, reg[p]}
       /\ data' = [data EXCEPT ![fd[p]] = c]
  /\ fd' = [fd EXCEPT ![p] = NoFile]
  /\ UNCHANGED <<main, tmp, job, reg, alone>>

(* The rename: it takes the file that has the temporary name now, if any.   *)
Rename(p) ==
  /\ pc[p] = "written"
  /\ tmp # NoFile
  /\ main' = tmp
  /\ tmp' = NoFile
  /\ UNCHANGED data
  /\ End(p)

(* The rename fails, because another command has renamed the file away or   *)
(* for a reason of its own, and the temporary name is removed.              *)
RenameFails(p) ==
  /\ pc[p] = "written"
  /\ tmp' = NoFile
  /\ UNCHANGED <<main, data>>
  /\ End(p)

(* The write fails or the process dies, at any point.                       *)
Abort(p) ==
  /\ pc[p] # "idle"
  /\ UNCHANGED <<main, tmp, data>>
  /\ End(p)

Next ==
  \E p \in Procs :
    Load(p) \/ OpenTmp(p) \/ WriteTmp(p) \/ Rename(p) \/ RenameFails(p) \/ Abort(p)

Spec == Init /\ [][Next]_vars
------------------------------------------------------------------------------
(* Properties *)

\* A save that no other save overlapped, since its load, replaces a readable
\* registry by one that differs from it in the command's own entry only,
\* whatever earlier saves have collided or died and left behind; a registry
\* that does not parse is left for the user to repair (Load, Save).
AloneIsSound ==
  [][\A p \in Procs :
       alone[p] /\ pc[p] = "written" /\ main' # main
         => Readable /\ main' # NoFile /\ data'[main'] = Edit(Loaded, job[p])]_vars

\* Save's "atomically" (registry.go:68): the registry parses at every instant.
\* So it does with one command at a time, wherever it dies (RegistryProofs); two
\* saves share the temporary file, and the first to rename may publish it torn.
AlwaysReadable == Readable

------------------------------------------------------------------------------
(* The inductive invariant the proofs use. *)

NamesDiffer == tmp # NoFile => tmp # main

\* A command that has been alone shares nothing with the others.
AloneExcludes ==
  \A p, q \in Procs : p # q /\ alone[p] /\ pc[p] # "idle" => pc[q] \notin Saving

\* What it will save is still its edit of the registry on disk.
AloneIsCurrent ==
  \A p \in Procs :
    alone[p] /\ pc[p] # "idle" => Readable /\ reg[p] = Edit(Loaded, job[p])

\* The temporary name is its own file's, and holds what it has written.
AloneOwnsTmp ==
  \A p \in Procs :
    /\ alone[p] /\ pc[p] = "opened" => tmp # NoFile /\ fd[p] = tmp /\ data[tmp] = Empty
    /\ alone[p] /\ pc[p] = "written" => tmp # NoFile /\ data[tmp] = reg[p]

IInv ==
  /\ TypeOK
  /\ NamesDiffer
  /\ \A p \in Procs : pc[p] # "idle" => job[p] \in Job
  /\ \A p \in Procs : pc[p] = "opened" => fd[p] \in Inodes
  /\ AloneExcludes
  /\ AloneIsCurrent
  /\ AloneOwnsTmp
==============================================================================
