------------------------------ MODULE CliWriter ------------------------------
(***************************************************************************)
(* Changes to one MCP server entry made through the runtime's own command  *)
(* line (src/pkg/runtimecfg/cliwriter.go).  Planning reads the entry and   *)
(* chooses between the command line and an edit of the config file         *)
(* (ConfigFile models that edit in detail, and TomlBlock what it makes of  *)
(* Codex's file; here it is one step).  Applying runs one or two commands  *)
(* of the runtime, each of which may fail or be killed after 30 s, before  *)
(* or after it took effect.  For Claude Code an existing entry is removed  *)
(* before it is added, so a failing `add' is followed by an attempt to put *)
(* the old entry back.                                                     *)
(*                                                                         *)
(* The commands belong to other programs.  What they do is what the code   *)
(* relies on: `claude mcp add-json' refuses a name it has and drops the    *)
(* keys it does not know, `gemini mcp add' replaces the whole entry, and   *)
(* removing an absent entry is not an error for abby.                      *)
(***************************************************************************)
EXTENDS Naturals, Sequences, FiniteSets, TomlBlock

CONSTANTS
  Procs,         \* abby commands; each makes one change
  Setups,        \* records [runtime, scope, onPath, method]
  Values,        \* values of the fields
  Entries,       \* entries the file may start with, or a foreign writer write
  Requests,      \* entries abby may be asked to add
  MaxFaults,     \* bound on commands that fail or are killed
  MaxForeign,    \* bound on writes by somebody else
  Unset,         \* a field the entry does not have
  Absent,        \* no entry
  Removal        \* the request to remove the entry

Fields == {"command", "env", "timeout", "cwd", "other"}
EntrySet == [Fields -> Values \cup {Unset}] \cup {Absent}

ASSUME CliAssumption ==
  /\ Setups \subseteq [runtime : {"claude", "gemini", "codex"},
                       scope : {"user", "project", "local"},
                       onPath : BOOLEAN, method : {"auto", "cli", "file"}]
  /\ Entries \subseteq EntrySet
  /\ Requests \subseteq [command : Values, env : Values \cup {Unset},
                         timeout : Values \cup {Unset}, cwd : Values \cup {Unset},
                         dash : BOOLEAN]
  /\ Unset \notin Values
  /\ Absent \notin [Fields -> Values \cup {Unset}]
  /\ Removal \notin Requests
  /\ MaxFaults \in Nat /\ MaxForeign \in Nat

VARIABLES
  setup,     \* the runtime, the scope, whether its CLI is on PATH, the option
  entry,     \* the entry in the runtime's configuration
  job,       \* per process: what it planned
  result,    \* per process: how its change ended, or "running"
  faults,
  foreign,
  before,    \* history: the entry when the process planned
  raced      \* history: somebody else changed the entry since

vars == <<setup, entry, job, result, faults, foreign, before, raced>>

(* ---- entries ---- *)

Has(e, f) == e # Absent /\ e[f] # Unset

\* The keys abby may set for a runtime.
ownedKeys(r) ==
  {"command", "env", "timeout"} \cup (IF r = "claude" THEN {} ELSE {"cwd"})

\* The keys one request sets; a timeout below a second is Unset.
ownedFields(r, e) ==
  [f \in Fields |-> IF f \in ownedKeys(r) THEN e[f] ELSE Unset]

\* `existing' overlaid with what abby sets.
merged(existing, set) ==
  [f \in Fields |->
     IF set[f] = Unset /\ existing # Absent THEN existing[f] ELSE set[f]]

(* ---- planning ---- *)

\* The runtime's CLI can make the change and lose nothing; a request carries
\* `dash', that one of its arguments starts with '-'.
cliCan(s, e, existing) ==
  /\ s.runtime # "codex"
  /\ s.runtime = "gemini" =>
       /\ s.scope = "user"
       /\ e # Removal =>
            /\ e.cwd = Unset
            /\ ~e.dash
            /\ ~Has(existing, "cwd")
            /\ e.timeout = Unset => ~Has(existing, "timeout")
  /\ \A f \in Fields \ ownedKeys(s.runtime) : ~Has(existing, f)

choose(s, e, existing) ==
  CASE s.method = "file" -> "file"
    [] s.method # "file" /\ s.onPath /\ cliCan(s, e, existing) -> "cli"
    [] s.method = "cli" /\ ~(s.onPath /\ cliCan(s, e, existing)) -> "refused"
    [] OTHER -> "file"

After(s, e, existing) ==
  IF e = Removal THEN Absent ELSE merged(existing, ownedFields(s.runtime, e))

\* The commands of a change: what is left of them is job[p].cmds.
Commands(s, e, existing) ==
  CASE e = Removal -> <<"remove">>
    [] e # Removal /\ s.runtime = "claude" /\ existing # Absent -> <<"remove", "add">>
    [] OTHER -> <<"add">>

Job(s, e, existing) ==
  [request |-> e, existing |-> existing, how |-> choose(s, e, existing),
   cmds |-> Commands(s, e, existing)]

NoJob == [how |-> "none"]

Init ==
  /\ setup \in Setups
  /\ entry \in Entries
  /\ job = [p \in Procs |-> NoJob]
  /\ result = [p \in Procs |-> "running"]
  /\ faults = 0
  /\ foreign = 0
  /\ before = [p \in Procs |-> Absent]
  /\ raced = [p \in Procs |-> FALSE]

Running(p) == job[p].how # "none" /\ result[p] = "running"

\* PlanAdd, PlanRemove.
Plan(p, e) ==
  LET j == Job(setup, e, entry)
  IN /\ job[p] = NoJob
     /\ job' = [job EXCEPT ![p] = j]
     /\ result' = [result EXCEPT ![p] = IF j.how = "refused" THEN "refused" ELSE "running"]
     /\ before' = [before EXCEPT ![p] = entry]
     /\ UNCHANGED <<setup, entry, faults, foreign, raced>>

(* ---- applying ---- *)

\* The entry becomes e; processes between their plan and their end see a race.
Becomes(p, e) ==
  /\ entry' = e
  /\ raced' = [q \in Procs |-> raced[q] \/ (q # p /\ Running(q) /\ e # entry)]

Ends(p, how) ==
  /\ result' = [result EXCEPT ![p] = how]
  /\ UNCHANGED job

Noop(p) == job[p].existing = After(setup, job[p].request, job[p].existing)

\* Apply skips a CLI change that had nothing to do when it was planned.
Skip(p) ==
  /\ Running(p) /\ job[p].how = "cli" /\ Noop(p)
  /\ Ends(p, "ok")
  /\ UNCHANGED <<setup, entry, faults, foreign, before, raced>>

\* An edit of the file reads it again.
EditFile(p) ==
  /\ Running(p) /\ job[p].how = "file"
  /\ Becomes(p, After(setup, job[p].request, entry))
  /\ Ends(p, "ok")
  /\ UNCHANGED <<setup, faults, foreign, before>>

\* What add-json keeps of an entry.
Known(e) == [f \in Fields |-> IF f \in ownedKeys("claude") THEN e[f] ELSE Unset]

\* Mutant: the entry's environment is left to the runtime.
GeminiArgsAlone(e, existing) ==
  [f \in Fields |-> IF f \in {"command", "env", "timeout"} THEN e[f] ELSE Unset]

\* The entry `gemini mcp add' is given: no cwd, and the old env when the
\* request has none.
GeminiArgs(e, existing) ==
  [f \in Fields |->
     CASE f \in {"command", "timeout"} -> e[f]
       [] f = "env" -> IF e.env = Unset /\ existing # Absent THEN existing.env ELSE e.env
       [] OTHER -> Unset]

Payload(p) ==
  CASE job[p].cmds[1] = "restore" -> Known(job[p].existing)
    [] job[p].cmds[1] # "restore" /\ setup.runtime = "claude" ->
         Known(After(setup, job[p].request, job[p].existing))
    [] OTHER -> GeminiArgs(job[p].request, job[p].existing)

\* The command takes effect; Refuses: the runtime reports that it did not.
Effect(p) == IF job[p].cmds[1] = "remove" THEN Absent ELSE Payload(p)

Refuses(p) ==
  /\ setup.runtime = "claude"
  /\ job[p].cmds[1] \in {"add", "restore"}
  /\ entry # Absent

RunsCommand(p) == Running(p) /\ job[p].how = "cli" /\ ~Noop(p)

\* A command succeeded: the next one, or the end.
Advance(p) ==
  CASE job[p].cmds = <<"restore">> -> Ends(p, "restored")
    [] Len(job[p].cmds) > 1 ->
         job' = [job EXCEPT ![p].cmds = Tail(@)] /\ UNCHANGED result
    [] OTHER -> Ends(p, "ok")

\* Mutant: nothing is restored.
FallPlain(p) == Ends(p, IF job[p].cmds = <<"restore">> THEN "hint" ELSE "failed")

\* Mutant: a failed `add' is rolled back by removing what it may have left.
FallRollsBack(p) ==
  IF job[p].cmds = <<"add">> /\ setup.runtime = "claude"
  THEN job' = [job EXCEPT ![p].cmds = <<"remove">>] /\ UNCHANGED result
  ELSE Ends(p, "failed")

\* A command failed: an `add' that followed a `remove' is undone, a failing
\* restore hands the user the old entry, anything else is an error.
Fall(p) ==
  LET removed == job[p].cmds = <<"add">> /\ setup.runtime = "claude"
                                         /\ job[p].existing # Absent
  IN CASE job[p].cmds = <<"restore">> -> Ends(p, "hint")
       [] removed -> job' = [job EXCEPT ![p].cmds = <<"restore">>] /\ UNCHANGED result
       [] OTHER -> Ends(p, "failed")

\* The command does what it was told, or the runtime refuses.
Command(p) ==
  /\ RunsCommand(p)
  /\ \/ ~Refuses(p) /\ Becomes(p, Effect(p)) /\ Advance(p)
     \/ Refuses(p) /\ Fall(p) /\ UNCHANGED <<entry, raced>>
  /\ UNCHANGED <<setup, faults, foreign, before>>

\* The command fails, or is killed after cliTimeout, with or without effect.
Fault(p) ==
  /\ RunsCommand(p)
  /\ faults < MaxFaults
  /\ faults' = faults + 1
  /\ \/ UNCHANGED <<entry, raced>>
     \/ ~Refuses(p) /\ Becomes(p, Effect(p))
  /\ Fall(p)
  /\ UNCHANGED <<setup, foreign, before>>

\* The runtime or the user.
ForeignWrite(e) ==
  /\ foreign < MaxForeign
  /\ e # entry
  /\ foreign' = foreign + 1
  /\ entry' = e
  /\ raced' = [q \in Procs |-> raced[q] \/ Running(q)]
  /\ UNCHANGED <<setup, job, result, faults, before>>

Step(p) == Skip(p) \/ EditFile(p) \/ Command(p) \/ Fault(p)

Next ==
  \/ \E p \in Procs, e \in Requests \cup {Removal} : Plan(p, e)
  \/ \E p \in Procs : Step(p)
  \/ \E e \in Entries : ForeignWrite(e)

Spec == Init /\ [][Next]_vars

(* ---- properties ---- *)

Jobs ==
  [request : Requests \cup {Removal}, existing : EntrySet, how : {"cli", "file", "refused"},
   cmds : {<<"remove">>, <<"add">>, <<"remove", "add">>, <<"restore">>}]

TypeOK ==
  /\ setup \in Setups
  /\ entry \in EntrySet
  /\ job \in [Procs -> Jobs \cup {NoJob}]
  /\ result \in [Procs -> {"running", "ok", "failed", "restored", "hint", "refused"}]
  /\ faults \in 0..MaxFaults
  /\ foreign \in 0..MaxForeign
  /\ before \in [Procs -> EntrySet]
  /\ raced \in [Procs -> BOOLEAN]

Ending(p) == result[p] = "running" /\ result'[p] # "running" /\ job[p] # NoJob

Updates(p) == job[p].request # Removal /\ before[p] # Absent

\* Unless somebody else changed the entry in between, a change that succeeds
\* through the runtime's CLI leaves the same entry as the edit of the file: what
\* abby sets is set, and no other field of the entry is lost, whichever runtime,
\* scope, option and earlier entry.
CliLosesNothing ==
  [][\A p \in Procs : Ending(p) /\ result'[p] = "ok" /\ ~raced[p] =>
       entry' = After(setup, job[p].request, before[p])]_vars

\* An entry that was there is never lost behind a plain error: when an update
\* fails undisturbed and the entry is gone, the error carries the old entry for
\* the user to add again, or it was the `remove' that failed after it had removed.
FailureKeepsACopy ==
  [][\A p \in Procs : Ending(p) /\ Updates(p) /\ ~raced[p] /\ result'[p] # "ok" =>
       \/ entry' # Absent
       \/ result'[p] = "hint" /\ job[p].existing = before[p]
       \/ result'[p] = "failed" /\ Head(job[p].cmds) = "remove"]_vars

\* Two installs of the same agent at once, with commands that work and nobody
\* else writing: once one of them reports success and both have ended, the entry
\* is there, although each of them removes it on its way.
AddsLeaveAnEntry ==
  (/\ faults = 0 /\ foreign = 0
   /\ \A p \in Procs : job[p] # NoJob /\ job[p].request # Removal /\ result[p] # "running"
   /\ \E p \in Procs : result[p] = "ok")
     => entry # Absent

(* EditFile stands for the editor of TomlBlock when the runtime is Codex. *)

\* An accepted edit leaves every other line of the file as it was and in order,
\* comments in front of the next table included, and the entry as asked for; and
\* an edit of a valid file is refused only if the entry is inline, or a line of a
\* multi-line string looks like a header, or mixed line endings are in the way
\* (upsertTOMLServer, removeTOMLServer).
TomlEditExact == setup.runtime = "codex" => Misedited = {}

\* Editing settles: the same edit again changes nothing, so that a repeated
\* install finds nothing to do, and a removal takes back what an edit added.
TomlEditsSettle == setup.runtime = "codex" => Unsettled = {}

(* ---- the inductive invariant ---- *)

\* What a process that nobody raced knows: it planned on what was there, the
\* commands it has run tell what is there now, and the ones left are to make of
\* it what was asked for.
UnderWay(p) ==
  LET j == job[p]
      first == j.cmds = Commands(setup, j.request, j.existing)
  IN /\ j.existing = before[p]
     /\ j.how = choose(setup, j.request, j.existing)
     /\ first \/ (j.how = "cli" /\ ~Noop(p))
     /\ (first /\ ~raced[p]) => entry = before[p]
     /\ ~first => /\ setup.runtime = "claude" /\ j.request # Removal /\ j.existing # Absent
                  /\ j.cmds \in {<<"add">>, <<"restore">>}
     /\ (~first /\ j.cmds = <<"add">> /\ ~raced[p]) => entry = Absent

IInv == TypeOK /\ \A p \in Procs : Running(p) => UnderWay(p)

\* p has removed the entry and has yet to put one back.
Mending(p) ==
  Running(p) /\ job[p].cmds # Commands(setup, job[p].request, job[p].existing)

\* While there are only adds and nothing fails, an entry that is missing was
\* never there, or somebody is about to put one back.
MissingIsMended ==
  (/\ faults = 0 /\ foreign = 0 /\ entry = Absent
   /\ \A p \in Procs : job[p] # NoJob => job[p].request # Removal)
     => \/ \E p \in Procs : Mending(p)
        \/ \A p \in Procs : job[p] # NoJob => job[p].existing = Absent /\ result[p] # "ok"
==============================================================================
