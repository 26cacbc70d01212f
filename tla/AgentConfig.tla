----------------------------- MODULE AgentConfig -----------------------------
(***************************************************************************)
(* The settings of an installed agent: ~/.abbyfile/<name>/config.yaml,     *)
(* the `config set' and `config reset' commands that change it             *)
(* (pkg/config/loader.go), hand edits, and the agent that starts from it   *)
(* (pkg/agent/agent.go), whose file and command tools work under the       *)
(* sandbox that the compiled values and the file together give.            *)
(*                                                                         *)
(* A command loads the file and writes it back whole, by a rename, without *)
(* a lock.  A setting is one of the names of Fields; `lines' and           *)
(* `overflow' stand for those of the context budget, `limits' for          *)
(* memory_limits and command_policy, which only a hand edit can set.       *)
(***************************************************************************)
EXTENDS Naturals, FiniteSets

CONSTANTS
  Procs,         \* processes running `config set' or `config reset'
  Settable,       \* <<field, value>> pairs a user may set
  HandEdits,     \* contents a hand edit may leave: documents, or Broken
  Compiled,      \* the values compiled into the agent
  Default,       \* sandbox.Default()
  Illegal,       \* values that sandbox.Validate or the parser refuses
  Negative,      \* durations that parse and are not positive
  Dangling,      \* directories whose link may lose its target
  MaxEdits,      \* bound on hand edits
  Unset,         \* a setting the file does not have
  NoFile, Broken,
  Denied         \* nothing allowed: sandbox.DenyAll()

SandboxFields == {"dirs", "bash", "commands", "commandTimeout"}
BudgetFields == {"lines", "overflow"}
Fields == {"model", "toolTimeout", "limits"} \cup BudgetFields \cup SandboxFields

Values == {c[2] : c \in Settable}
Doc == [Fields -> Values \cup Illegal \cup {Unset}]

ASSUME ValuesAssumption ==
  /\ Settable \subseteq (Fields \ {"limits"}) \X Values
  /\ Negative \subseteq Illegal
  /\ Unset \notin Values \cup Illegal
  /\ Broken # NoFile /\ {Broken, NoFile} \cap Doc = {}
  /\ HandEdits \subseteq Doc \cup {Broken}
  /\ MaxEdits \in Nat

\* The sandbox an agent was built with has been validated.
ASSUME CompiledAssumption == \A f \in SandboxFields : Compiled[f] \notin Illegal

VARIABLES
  file,      \* the file: a document, NoFile or Broken
  job,       \* per process: the command it runs, and the document it has loaded
  lost,      \* directories whose link has lost its target
  edits,     \* number of hand edits
  raced      \* history: the file was written since the process loaded it

settingVars == <<file, job, lost, edits, raced>>

Idle == [kind |-> "idle"]
Nothing == [f \in Fields |-> Unset]

(* ---- config.yaml ---- *)

IsZero(doc) == doc = Nothing

\* LoadFrom: a missing file is an empty document, a broken one an error.
Loaded == IF file = NoFile THEN Nothing ELSE file

\* New: for an agent that starts, a broken file counts as none.
Overrides == IF file = Broken THEN Nothing ELSE Loaded

\* The override on top of the default sandbox; an unparsable timeout is passed
\* over, one that is not positive is not.
validateSandboxOverride(doc) ==
  LET s == [f \in SandboxFields |-> IF doc[f] = Unset THEN Default[f] ELSE doc[f]]
  IN /\ \A f \in SandboxFields \ {"commandTimeout"} : s[f] \notin Illegal
     /\ s.commandTimeout \notin Negative

\* Mutant: what is set is not checked.
AcceptsAll(doc, f, v) == TRUE

Accepts(doc, f, v) ==
  /\ f \in BudgetFields \cup SandboxFields => v \notin Illegal
  /\ f \in SandboxFields => validateSandboxOverride([doc EXCEPT ![f] = v])

\* What `reset' clears: a setting of its own, or a whole block.
Resettable == {{"model"}, {"toolTimeout"}, {"limits"}, BudgetFields, SandboxFields}

\* Mutant: the settings are taken out of the document.
Dropped(doc, block) == [g \in Fields \ block |-> doc[g]]

Reset(doc, block) == [g \in Fields |-> IF g \in block THEN Unset ELSE doc[g]]

(* ---- the agent ---- *)

\* applyConfigOverrides: every value of the file stands, but a duration that does
\* not parse and a max_command_timeout that is not positive, which leave the
\* compiled one.
PassedOver(f, v) ==
  \/ f = "toolTimeout" /\ v \in Illegal \ Negative
  \/ f = "commandTimeout" /\ v \in Illegal

Merged(doc) ==
  [f \in Fields |-> IF doc[f] = Unset \/ PassedOver(f, doc[f]) THEN Compiled[f] ELSE doc[f]]

SandboxOf(doc) == [f \in SandboxFields |-> doc[f]]

sandboxOverridden(doc) == \E f \in SandboxFields : doc[f] # Unset

\* sandbox.New: the values are legal and the directories can be resolved.
Builds(s) == \A f \in SandboxFields : s[f] \notin Illegal \cup lost

\* Mutant: an agent whose sandbox cannot be built gets the default one.
SandboxOrDefault(doc) ==
  LET wanted == SandboxOf(Merged(doc)) IN IF Builds(wanted) THEN wanted ELSE Default

effectiveSandbox(doc) ==
  LET wanted == SandboxOf(Merged(doc))
  IN CASE Builds(wanted) -> wanted
       [] ~Builds(wanted) /\ sandboxOverridden(doc) /\ Builds(SandboxOf(Compiled)) ->
            SandboxOf(Compiled)
       [] OTHER -> [f \in SandboxFields |-> Denied]

\* What `config get' prints as the effective sandbox.
sandboxFields(doc) ==
  [f \in SandboxFields |-> IF doc[f] # Unset THEN doc[f] ELSE Compiled[f]]

InitSettings ==
  /\ file = NoFile
  /\ job = [p \in Procs |-> Idle]
  /\ lost = {}
  /\ edits = 0
  /\ raced = [p \in Procs |-> FALSE]

(* ---- commands ---- *)

\* WriteFieldTo up to its write: load and check.  Nothing is kept of a refusal.
StartSet(p, f, v) ==
  /\ job[p] = Idle /\ file # Broken
  /\ Accepts(Loaded, f, v)
  /\ job' = [job EXCEPT ![p] = [kind |-> "set", own |-> {f}, doc |-> [Loaded EXCEPT ![f] = v]]]
  /\ raced' = [raced EXCEPT ![p] = FALSE]
  /\ UNCHANGED <<file, lost, edits>>

\* ResetFieldTo up to its write.
StartReset(p, block) ==
  /\ job[p] = Idle /\ file # Broken
  /\ job' = [job EXCEPT ![p] = [kind |-> "reset", own |-> block, doc |-> Reset(Loaded, block)]]
  /\ raced' = [raced EXCEPT ![p] = FALSE]
  /\ UNCHANGED <<file, lost, edits>>

\* Mutant: every `reset' removes the file.
Removed(j) == IF j.kind = "reset" THEN NoFile ELSE j.doc

\* A `reset' that leaves nothing removes the file.
Written(j) == IF j.kind = "reset" /\ IsZero(j.doc) THEN NoFile ELSE j.doc

Write(p) ==
  /\ job[p] # Idle
  /\ file' = Written(job[p])
  /\ job' = [job EXCEPT ![p] = Idle]
  /\ raced' = [q \in Procs |-> raced[q] \/ (q # p /\ job[q] # Idle)]
  /\ UNCHANGED <<lost, edits>>

\* The command dies, or cannot write.
Dies(p) ==
  /\ job[p] # Idle
  /\ job' = [job EXCEPT ![p] = Idle]
  /\ UNCHANGED <<file, lost, edits, raced>>

(* ---- the user ---- *)

HandEdit(c) ==
  /\ edits < MaxEdits /\ c # file
  /\ edits' = edits + 1
  /\ file' = c
  /\ raced' = [q \in Procs |-> raced[q] \/ job[q] # Idle]
  /\ UNCHANGED <<job, lost>>

LoseTarget(d) ==
  /\ d \notin lost
  /\ lost' = lost \cup {d}
  /\ UNCHANGED <<file, job, edits, raced>>

NextSettings ==
  \/ \E p \in Procs :
       \/ \E c \in Settable : StartSet(p, c[1], c[2])
       \/ \E block \in Resettable : StartReset(p, block)
       \/ Write(p) \/ Dies(p)
  \/ \E c \in HandEdits : HandEdit(c)
  \/ \E d \in Dangling : LoseTarget(d)

SettingsSpec == InitSettings /\ [][NextSettings]_settingVars

(* ---- properties ---- *)

Commands == [kind : {"set", "reset"}, own : SUBSET Fields, doc : Doc]

SettingsTyped ==
  /\ file \in Doc \cup {NoFile, Broken}
  /\ job \in [Procs -> Commands \cup {Idle}]
  /\ lost \subseteq Dangling
  /\ edits \in 0..MaxEdits
  /\ raced \in [Procs -> BOOLEAN]

Finishes(p) == job[p] # Idle /\ job'[p] = Idle /\ file' # file

\* A command that nobody overtook changes the settings it names and no other:
\* it neither drops a sibling, nor the file while it still says something, nor
\* writes over a file it could not read.
KeepsOtherSettings ==
  [][\A p \in Procs : Finishes(p) /\ ~raced[p] =>
       /\ file # Broken
       /\ \A f \in Fields \ job[p].own :
            (IF file' = NoFile THEN Nothing ELSE file')[f] = Loaded[f]]_settingVars

\* While the file has been written by `config' commands alone, and every allowed
\* directory can be resolved, the sandbox an agent starts with is the one that
\* `config get' shows: no accepted value locks it out or is passed over.
ShownIsEnforced ==
  edits = 0 /\ lost = {} => effectiveSandbox(Overrides) = sandboxFields(Overrides)

\* Whatever the file holds, and whatever cannot be built: each sandbox value that
\* an agent starts with is the one the file gives, the compiled one, or denies
\* everything; in particular it is never the default of an agent that was
\* compiled narrower.
NeverWiderThanGiven ==
  \A f \in SandboxFields :
    effectiveSandbox(Overrides)[f] \in
      {Denied, Compiled[f]} \cup ({Overrides[f]} \ (Illegal \cup {Unset}))

(* ---- the inductive invariant ---- *)

\* A command that nobody overtook holds what the file says, but for its own.
InHand ==
  \A p \in Procs : job[p] # Idle /\ ~raced[p] =>
    file # Broken /\ \A f \in Fields \ job[p].own : job[p].doc[f] = Loaded[f]

\* The commands alone write no sandbox that cannot be built, and have none in
\* hand.
OnlyChecked ==
  edits = 0 =>
    /\ file # Broken
    /\ \A f \in SandboxFields :
         Overrides[f] \notin Illegal
           /\ \A p \in Procs : job[p] # Idle => job[p].doc[f] \notin Illegal

SettingsIInv == SettingsTyped /\ InHand /\ OnlyChecked
==============================================================================
