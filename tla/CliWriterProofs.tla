--------------------------- MODULE CliWriterProofs ---------------------------
(***************************************************************************)
(* Proofs about CliWriter, for any processes, entries, requests and        *)
(* setups, and about edits of the runtime's file by TomlBlock that follow  *)
(* one another, for files of any length.                                   *)
(*                                                                         *)
(* The properties of CliWriter are about the last step of a change: what   *)
(* it does is right because of what the process knows by then (UnderWay).  *)
(* Those of the edits rest on what TomlBlockProofs says of one edit; they  *)
(* do not depend on the state of CliWriter.                                *)
(***************************************************************************)
EXTENDS CliWriter, TomlBlockProofs, FiniteSetTheorems, SequenceTheorems, TLAPS

(* ---- entries ---- *)

\* What abby makes of an entry is an entry.
LEMMA MergedIsEntry ==
  ASSUME NEW r, NEW e \in Requests, NEW x \in EntrySet
  PROVE  merged(x, ownedFields(r, e)) \in [Fields -> Values \cup {Unset}]
<1> DEFINE set == ownedFields(r, e)
<1>1. \A f \in ownedKeys(r) : e[f] \in Values \cup {Unset}
  BY CliAssumption DEF ownedKeys
<1>2. \A f \in Fields : set[f] \in Values \cup {Unset}
  BY <1>1 DEF ownedFields
<1>3. \A f \in Fields : x # Absent => x[f] \in Values \cup {Unset}
  BY DEF EntrySet
<1> QED  BY <1>2, <1>3 DEF merged

LEMMA AfterIsEntry ==
  ASSUME NEW s, NEW e \in Requests \cup {Removal}, NEW x \in EntrySet
  PROVE  /\ After(s, e, x) \in EntrySet
         /\ e # Removal => After(s, e, x) # Absent
<1>1. CASE e = Removal  BY <1>1 DEF After, EntrySet
<1>2. CASE e # Removal
  <2>1. e \in Requests  BY <1>2
  <2>2. merged(x, ownedFields(s.runtime, e)) \in [Fields -> Values \cup {Unset}]
    BY <2>1, MergedIsEntry
  <2> QED  BY <1>2, <2>2, CliAssumption DEF After, EntrySet
<1> QED  BY <1>1, <1>2

\* Claude's own store drops nothing of an entry that abby may change through it.
LEMMA KnownIsAll ==
  ASSUME NEW s \in Setups, NEW e \in Requests, NEW x \in EntrySet,
         s.runtime = "claude", cliCan(s, e, x)
  PROVE  Known(After(s, e, x)) = After(s, e, x)
<1> DEFINE a == merged(x, ownedFields("claude", e))
<1>1. After(s, e, x) = a
  BY CliAssumption DEF After
<1>2. a \in [Fields -> Values \cup {Unset}]
  BY MergedIsEntry
<1>3. \A f \in Fields \ ownedKeys("claude") : a[f] = Unset
  <2> SUFFICES ASSUME NEW f \in Fields \ ownedKeys("claude") PROVE a[f] = Unset
    OBVIOUS
  <2>1. ownedFields("claude", e)[f] = Unset
    BY DEF ownedFields
  <2>2. x # Absent => x[f] = Unset
    BY DEF cliCan, Has
  <2> QED  BY <2>1, <2>2 DEF merged
<1>4. Known(a) = [f \in Fields |-> a[f]]
  BY <1>3 DEF Known
<1> HIDE DEF a
<1> QED  BY <1>1, <1>2, <1>4

\* What abby gives `gemini mcp add' is the entry that it promised.
LEMMA GeminiIsAll ==
  ASSUME NEW s \in Setups, NEW e \in Requests, NEW x \in EntrySet,
         s.runtime = "gemini", cliCan(s, e, x)
  PROVE  GeminiArgs(e, x) = After(s, e, x)
<1> DEFINE set == ownedFields("gemini", e)
<1>1. After(s, e, x) = merged(x, set)
  BY CliAssumption DEF After
<1>2. e # Removal /\ e.command \in Values /\ Unset \notin Values
  BY CliAssumption
<1>3. x # Absent => x["other"] = Unset
  BY DEF cliCan, Has, Fields, ownedKeys
<1>4. e.cwd = Unset /\ (x # Absent => x["cwd"] = Unset)
  BY <1>2 DEF cliCan, Has
<1>5. e.timeout = Unset /\ x # Absent => x["timeout"] = Unset
  BY <1>2 DEF cliCan, Has
<1>6. /\ set["command"] = e.command /\ set["env"] = e.env /\ set["timeout"] = e.timeout
      /\ set["cwd"] = e.cwd /\ set["other"] = Unset
  BY DEF ownedFields, ownedKeys, Fields
<1> HIDE DEF set
<1>7. ASSUME NEW f \in Fields
      PROVE  GeminiArgs(e, x)[f] = merged(x, set)[f]
  <2>1. CASE f = "command"  BY <2>1, <1>2, <1>6 DEF GeminiArgs, merged, Fields
  <2>2. CASE f = "env"  BY <2>2, <1>6 DEF GeminiArgs, merged, Fields
  <2>3. CASE f = "timeout"  BY <2>3, <1>5, <1>6 DEF GeminiArgs, merged, Fields
  <2>4. CASE f = "cwd"  BY <2>4, <1>4, <1>6 DEF GeminiArgs, merged, Fields
  <2>5. CASE f = "other"  BY <2>5, <1>3, <1>6 DEF GeminiArgs, merged, Fields
  <2> QED  BY <2>1, <2>2, <2>3, <2>4, <2>5 DEF Fields
<1>8. GeminiArgs(e, x) = merged(x, set)
  BY <1>7 DEF GeminiArgs, merged
<1> QED  BY <1>1, <1>8

(* ---- the invariant ---- *)

\* What the commands of a change are, and that choosing the runtime's own means
\* that it can.
LEMMA JobTypes ==
  ASSUME NEW s \in Setups, NEW e \in Requests \cup {Removal}, NEW x \in EntrySet
  PROVE  /\ Job(s, e, x) \in Jobs
         /\ choose(s, e, x) = "cli" => cliCan(s, e, x)
         /\ Commands(s, e, x) \in {<<"remove">>, <<"add">>, <<"remove", "add">>}
BY DEF Job, Jobs, choose, Commands

LEMMA Initially == Init => IInv
<1> SUFFICES ASSUME Init PROVE IInv
  OBVIOUS
<1>1. TypeOK
  BY CliAssumption DEF Init, TypeOK, EntrySet
<1>2. \A p \in Procs : ~Running(p)
  BY DEF Init, Running, NoJob
<1> QED  BY <1>1, <1>2 DEF IInv

\* A record is not NoJob when it has a request that is running.
LEMMA RunningJob ==
  ASSUME TypeOK, NEW p \in Procs, Running(p)
  PROVE  job[p] \in Jobs
BY DEF TypeOK, Running, NoJob

LEMMA EffectIsEntry ==
  ASSUME TypeOK, NEW p \in Procs, Running(p), UnderWay(p), job[p].how = "cli",
         setup.runtime # "codex"
  PROVE  /\ Effect(p) \in EntrySet
         /\ job[p].cmds[1] # "remove" => Effect(p) # Absent
<1> DEFINE j == job[p]
<1>0. j \in Jobs
  BY RunningJob
<1>1. CASE j.cmds[1] = "remove"
  BY <1>1 DEF Effect, EntrySet
<1>2. CASE j.cmds[1] = "restore"
  <2>1. j.cmds = <<"restore">>
    BY <1>0, <1>2 DEF Jobs
  <2>2. j.existing \in [Fields -> Values \cup {Unset}]
    BY <2>1, <1>0 DEF UnderWay, Commands, Jobs, EntrySet
  <2>3. Known(j.existing) \in [Fields -> Values \cup {Unset}]
    BY <2>2 DEF Known
  <2> QED  BY <1>2, <2>3, CliAssumption DEF Effect, Payload, EntrySet
<1>3. CASE j.cmds[1] = "add"
  <2>1. j.request \in Requests
    BY <1>0, <1>3 DEF UnderWay, Commands, Jobs
  <2>2. CASE setup.runtime = "claude"
    <3>1. After(setup, j.request, j.existing) \in EntrySet \ {Absent}
      BY <1>0, <2>1, AfterIsEntry, CliAssumption DEF Jobs
    <3>2. Known(After(setup, j.request, j.existing)) \in [Fields -> Values \cup {Unset}]
      BY <3>1 DEF Known, EntrySet
    <3> QED  BY <1>3, <2>2, <3>2, CliAssumption DEF Effect, Payload, EntrySet
  <2>3. CASE setup.runtime # "claude"
    <3>1. /\ j.request.command \in Values
          /\ {j.request.env, j.request.timeout} \subseteq Values \cup {Unset}
      BY <2>1, CliAssumption
    <3>2. j.existing # Absent => j.existing["env"] \in Values \cup {Unset}
      BY <1>0 DEF Jobs, EntrySet, Fields
    <3>3. GeminiArgs(j.request, j.existing) \in [Fields -> Values \cup {Unset}]
      BY <3>1, <3>2 DEF GeminiArgs
    <3> QED  BY <1>3, <2>3, <3>3, CliAssumption DEF Effect, Payload, EntrySet
  <2> QED  BY <2>2, <2>3
<1> QED  BY <1>0, <1>1, <1>2, <1>3 DEF Jobs

\* What others see of a change of the entry, and of a foreign one.
LEMMA OthersUnderWay ==
  ASSUME TypeOK, NEW q \in Procs, Running(q), UnderWay(q),
         UNCHANGED <<setup, job[q], before>>,
         raced'[q] \in BOOLEAN,
         raced'[q] = FALSE => raced[q] = FALSE /\ entry' = entry
  PROVE  UnderWay(q)'
BY DEF UnderWay, Noop

\* A command is run for an entry that the runtime's own can change.
LEMMA CliRuntime ==
  ASSUME TypeOK, NEW p \in Procs, Running(p), UnderWay(p), job[p].how = "cli"
  PROVE  cliCan(setup, job[p].request, job[p].existing) /\ setup.runtime # "codex"
<1>1. job[p] \in Jobs
  BY RunningJob
<1>2. cliCan(setup, job[p].request, job[p].existing)
  <2>1. setup \in Setups /\ job[p].request \in Requests \cup {Removal}
        /\ job[p].existing \in EntrySet
    BY <1>1 DEF TypeOK, Jobs
  <2>2. choose(setup, job[p].request, job[p].existing) = "cli"
    BY DEF UnderWay
  <2> QED  BY <2>1, <2>2, JobTypes
<1> QED  BY <1>2 DEF cliCan

\* After a command p has ended, or knows what it has done.
LEMMA AfterCommand ==
  ASSUME IInv, NEW p \in Procs, RunsCommand(p),
         UNCHANGED <<setup, before>>, raced'[p] = raced[p],
         \/ ~Refuses(p) /\ entry' = Effect(p) /\ Advance(p)
         \/ Fall(p)
  PROVE  /\ job' \in [Procs -> Jobs \cup {NoJob}]
         /\ result' \in [Procs -> {"running", "ok", "failed", "restored", "hint", "refused"}]
         /\ \A q \in Procs \ {p} : job'[q] = job[q] /\ result'[q] = result[q]
         /\ Running(p)' => UnderWay(p)'
<1> DEFINE j == job[p]
<1>1. j \in Jobs /\ Running(p) /\ UnderWay(p) /\ TypeOK
  BY RunningJob DEF IInv, RunsCommand
<1>2. j.how = "cli" /\ ~Noop(p) /\ setup.runtime # "codex" /\ p \in DOMAIN job
  BY <1>1, CliRuntime DEF RunsCommand, TypeOK
<1>3. CASE \E how \in {"ok", "failed", "restored", "hint"} : Ends(p, how)
  BY <1>1, <1>3 DEF Ends, TypeOK, Running
<1>4. CASE /\ Len(j.cmds) > 1 /\ entry' = Effect(p)
           /\ job' = [job EXCEPT ![p].cmds = Tail(@)] /\ UNCHANGED result
  <2>1. j.cmds = <<"remove", "add">>
    <3>1. ~(Len(<<"remove">>) > 1) /\ ~(Len(<<"add">>) > 1) /\ ~(Len(<<"restore">>) > 1)
      OBVIOUS
    <3>2. j.cmds \in {<<"remove">>, <<"add">>, <<"remove", "add">>, <<"restore">>}
      BY <1>1 DEF Jobs
    <3>3. j.cmds = <<"remove">> \/ j.cmds = <<"add">> \/ j.cmds = <<"restore">>
            => ~(Len(j.cmds) > 1)
      BY <3>1, Zenon
    <3> QED  BY <1>4, <3>2, <3>3, Zenon
  <2>2. job' = [job EXCEPT ![p] = [j EXCEPT !.cmds = <<"add">>]]
    BY <1>4, <2>1
  <2>3. [j EXCEPT !.cmds = <<"add">>] \in Jobs
    BY <1>1 DEF Jobs
  <2>4. /\ job'[p].request = j.request /\ job'[p].existing = j.existing
        /\ job'[p].how = j.how /\ job'[p].cmds = <<"add">>
    BY <1>1, <1>2, <2>2 DEF Jobs
  <2>5. j.request # Removal /\ setup.runtime = "claude" /\ j.existing # Absent
    BY <1>1, <2>1 DEF UnderWay, Commands
  <2>6. entry' = Absent
    BY <1>4, <2>1 DEF Effect
  <2>7. Commands(setup, j.request, j.existing) = <<"remove", "add">>
    BY <2>5 DEF Commands
  <2>8. UnderWay(p)'
    <3>1. /\ job'[p].existing = before'[p]
          /\ job'[p].how = choose(setup', job'[p].request, job'[p].existing)
          /\ job'[p].how = "cli" /\ ~Noop(p)'
      BY <1>1, <1>2, <2>4 DEF UnderWay, Noop
    <3>2. /\ setup'.runtime = "claude" /\ job'[p].request # Removal
          /\ job'[p].existing # Absent /\ job'[p].cmds \in {<<"add">>, <<"restore">>}
      BY <2>4, <2>5
    <3>3. job'[p].cmds # Commands(setup', job'[p].request, job'[p].existing)
      <4>1. <<"add">> # <<"remove", "add">>
        OBVIOUS
      <4> QED  BY <2>4, <2>7, <4>1
    <3> QED  BY <2>6, <3>1, <3>2, <3>3 DEF UnderWay
  <2> QED  BY <1>1, <1>4, <2>2, <2>3, <2>8 DEF TypeOK
<1>5. CASE /\ j.cmds = <<"add">> /\ setup.runtime = "claude" /\ j.existing # Absent
           /\ job' = [job EXCEPT ![p].cmds = <<"restore">>] /\ UNCHANGED result
  <2>1. job' = [job EXCEPT ![p] = [j EXCEPT !.cmds = <<"restore">>]]
    BY <1>5
  <2>2. [j EXCEPT !.cmds = <<"restore">>] \in Jobs
    BY <1>1 DEF Jobs
  <2>3. /\ job'[p].request = j.request /\ job'[p].existing = j.existing
        /\ job'[p].how = j.how /\ job'[p].cmds = <<"restore">>
    BY <1>1, <1>2, <2>1 DEF Jobs
  <2>4. j.request # Removal
    BY <1>1, <1>5 DEF UnderWay, Commands
  <2>5. Commands(setup, j.request, j.existing) # <<"restore">>
    BY <1>5, <2>4 DEF Commands
  <2>6. UnderWay(p)'
    <3>1. /\ job'[p].existing = before'[p]
          /\ job'[p].how = choose(setup', job'[p].request, job'[p].existing)
          /\ job'[p].how = "cli" /\ ~Noop(p)'
      BY <1>1, <1>2, <2>3 DEF UnderWay, Noop
    <3>2. /\ setup'.runtime = "claude" /\ job'[p].request # Removal
          /\ job'[p].existing # Absent /\ job'[p].cmds \in {<<"add">>, <<"restore">>}
      BY <1>5, <2>3, <2>4
    <3>3. job'[p].cmds # Commands(setup', job'[p].request, job'[p].existing)
      BY <2>3, <2>5
    <3>4. job'[p].cmds # <<"add">>
      BY <2>3
    <3> QED  BY <3>1, <3>2, <3>3, <3>4 DEF UnderWay
  <2> QED  BY <1>1, <1>5, <2>1, <2>2, <2>6 DEF TypeOK
<1> QED
  <2>1. CASE Advance(p) /\ entry' = Effect(p)
    BY <2>1, <1>3, <1>4 DEF Advance
  <2>2. CASE Fall(p)
    BY <2>2, <1>3, <1>5 DEF Fall
  <2> QED  BY <2>1, <2>2

LEMMA Stuttering == IInv /\ UNCHANGED vars => IInv'
BY DEF vars, IInv, TypeOK, Running, UnderWay, Noop

\* One step per action: each keeps the types, and what every running process
\* knows.
LEMMA Preserved == IInv /\ Next => IInv'
<1> SUFFICES ASSUME IInv, Next PROVE IInv'
  OBVIOUS
<1> USE DEF IInv
<1>1. ASSUME NEW p \in Procs, NEW e \in Requests \cup {Removal}, Plan(p, e) PROVE IInv'
  <2> DEFINE j == Job(setup, e, entry)
  <2>1. j \in Jobs
    BY JobTypes DEF TypeOK
  <2>2. TypeOK'
    BY <1>1, <2>1 DEF Plan, TypeOK
  <2>3. job'[p] = j /\ before'[p] = entry /\ entry' = entry /\ setup' = setup
    BY <1>1 DEF Plan, TypeOK
  <2>4. UnderWay(p)'
    BY <2>3 DEF UnderWay, Job, Noop
  <2>5. ASSUME NEW q \in Procs \ {p}, Running(q)' PROVE UnderWay(q)'
    <3>1. /\ job'[q] = job[q] /\ result'[q] = result[q] /\ before'[q] = before[q]
          /\ UNCHANGED <<setup, entry, raced>>
      BY <1>1, <2>5 DEF Plan, TypeOK
    <3>2. UnderWay(q)
      BY <2>5, <3>1 DEF Running
    <3> QED  BY <3>1, <3>2 DEF UnderWay, Noop
  <2> QED  BY <2>2, <2>4, <2>5
<1>2. ASSUME NEW p \in Procs, Skip(p) PROVE IInv'
  <2>1. TypeOK'
    BY <1>2 DEF Skip, Ends, TypeOK
  <2>2. ASSUME NEW q \in Procs, Running(q)' PROVE UnderWay(q)'
    <3>1. q # p /\ Running(q)
      BY <1>2, <2>2 DEF Skip, Ends, TypeOK, Running
    <3> QED  BY <1>2, <3>1 DEF Skip, Ends, UnderWay, Noop
  <2> QED  BY <2>1, <2>2
<1>3. ASSUME NEW p \in Procs, EditFile(p) PROVE IInv'
  <2>1. job[p] \in Jobs
    BY <1>3, RunningJob DEF EditFile
  <2>2. After(setup, job[p].request, entry) \in EntrySet
    BY <2>1, AfterIsEntry DEF Jobs, TypeOK
  <2>3. TypeOK'
    BY <1>3, <2>2 DEF EditFile, Becomes, Ends, TypeOK
  <2>4. ASSUME NEW q \in Procs, Running(q)' PROVE UnderWay(q)'
    <3>1. q # p /\ Running(q)
      BY <1>3, <2>4 DEF EditFile, Ends, TypeOK, Running
    <3>2. raced'[q] = FALSE => raced[q] = FALSE /\ entry' = entry
      BY <1>3, <3>1, <2>3 DEF EditFile, Becomes, TypeOK
    <3> QED  BY <1>3, <2>3, <3>1, <3>2, OthersUnderWay DEF EditFile, Ends, TypeOK
  <2> QED  BY <2>3, <2>4
<1>4. ASSUME NEW p \in Procs, Command(p) \/ Fault(p) PROVE IInv'
  <2>1. RunsCommand(p) /\ Running(p) /\ UnderWay(p) /\ job[p].how = "cli"
    BY <1>4 DEF Command, Fault, RunsCommand
  <2>2. Effect(p) \in EntrySet
    BY <2>1, CliRuntime, EffectIsEntry
  <2>3. /\ UNCHANGED <<setup, before, foreign>>
        /\ (entry' = entry /\ raced' = raced) \/ Becomes(p, Effect(p))
        /\ \/ ~Refuses(p) /\ entry' = Effect(p) /\ Advance(p)
           \/ Fall(p)
    BY <1>4 DEF Command, Fault, Becomes
  <2>4. /\ entry' \in EntrySet /\ raced' \in [Procs -> BOOLEAN] /\ raced'[p] = raced[p]
        /\ \A q \in Procs \ {p} : Running(q) /\ raced'[q] = FALSE
                                 => raced[q] = FALSE /\ entry' = entry
    BY <2>2, <2>3 DEF Becomes, TypeOK
  <2>5. /\ job' \in [Procs -> Jobs \cup {NoJob}]
        /\ result' \in [Procs -> {"running", "ok", "failed", "restored", "hint", "refused"}]
        /\ \A q \in Procs \ {p} : job'[q] = job[q] /\ result'[q] = result[q]
        /\ Running(p)' => UnderWay(p)'
    BY <2>1, <2>3, <2>4, AfterCommand
  <2>6. faults' \in 0..MaxFaults
    BY <1>4, CliAssumption DEF Command, Fault, TypeOK
  <2>7. TypeOK'
    BY <2>3, <2>4, <2>5, <2>6 DEF TypeOK
  <2>8. ASSUME NEW q \in Procs \ {p}, Running(q)' PROVE UnderWay(q)'
    <3>1. Running(q)
      BY <2>5, <2>8 DEF Running
    <3> QED  BY <2>3, <2>4, <2>5, <3>1, OthersUnderWay
  <2> QED  BY <2>5, <2>7, <2>8
<1>5. ASSUME NEW e \in Entries, ForeignWrite(e) PROVE IInv'
  <2>1. TypeOK'
    BY <1>5, CliAssumption DEF ForeignWrite, TypeOK
  <2>2. ASSUME NEW q \in Procs, Running(q)' PROVE UnderWay(q)'
    <3>1. Running(q) /\ raced'[q] = TRUE
      BY <1>5, <2>2 DEF ForeignWrite, Running, TypeOK
    <3> QED  BY <1>5, <3>1, OthersUnderWay DEF ForeignWrite
  <2> QED  BY <2>1, <2>2
<1> QED  BY <1>1, <1>2, <1>3, <1>4, <1>5 DEF Next, Step

\* The inductive invariant of the CLI writer: what a process that nobody raced
\* knows of the entry between its plan and its end (cliAddChange, cliRemoveChange).
THEOREM Invariance == Spec => []IInv
BY Initially, Stuttering, Preserved, PTL DEF Spec

\* Type correctness of the CLI writer.
THEOREM TypeCorrect == Spec => []TypeOK
BY Invariance, PTL DEF IInv

(* ---- how a change ends ---- *)

\* A change ends by a step of its own.
LEMMA EndsByItself ==
  ASSUME IInv, Next, NEW p \in Procs, Ending(p)
  PROVE  /\ TypeOK /\ Running(p) /\ UnderWay(p) /\ job[p] \in Jobs
         /\ Skip(p) \/ EditFile(p) \/ Command(p) \/ Fault(p)
<1>1. TypeOK /\ job[p] \in Jobs
  BY DEF IInv, TypeOK, Ending
<1>2. Running(p) /\ UnderWay(p)
  BY <1>1 DEF IInv, Running, Ending, Jobs
<1>3. ASSUME NEW q \in Procs, NEW e \in Requests \cup {Removal}, Plan(q, e) PROVE FALSE
  <2>1. q # p
    BY <1>3 DEF Plan, Ending
  <2> QED  BY <1>1, <1>3, <2>1 DEF Plan, Ending, TypeOK
<1>4. ASSUME NEW e \in Entries, ForeignWrite(e) PROVE FALSE
  BY <1>4 DEF ForeignWrite, Ending
<1>5. ASSUME NEW q \in Procs \ {p}, Skip(q) \/ EditFile(q) PROVE FALSE
  BY <1>1, <1>5 DEF Skip, EditFile, Ends, Ending, TypeOK
<1>6. ASSUME NEW q \in Procs \ {p}, Command(q) \/ Fault(q) PROVE FALSE
  <2>1. /\ RunsCommand(q) /\ UNCHANGED <<setup, before>>
        /\ (entry' = entry /\ raced' = raced) \/ Becomes(q, Effect(q))
        /\ \/ ~Refuses(q) /\ entry' = Effect(q) /\ Advance(q)
           \/ Fall(q)
    BY <1>6 DEF Command, Fault, Becomes
  <2>2. raced'[q] = raced[q]
    BY <1>1, <2>1 DEF Becomes, TypeOK
  <2>3. result'[p] = result[p]
    BY <2>1, <2>2, AfterCommand
  <2> QED  BY <2>3 DEF Ending
<1> QED  BY <1>1, <1>2, <1>3, <1>4, <1>5, <1>6 DEF Next, Step

\* What one command that ends the change did.
LEMMA LastCommand ==
  ASSUME TypeOK, NEW p \in Procs, job[p] \in Jobs, Running(p), UnderWay(p), Ending(p),
         Command(p) \/ Fault(p)
  PROVE  \/ /\ result'[p] = "ok" /\ entry' = Effect(p)
            /\ job[p].cmds \in {<<"remove">>, <<"add">>}
         \/ /\ result'[p] = "restored" /\ entry' = Effect(p)
            /\ job[p].cmds = <<"restore">>
         \/ result'[p] = "hint" /\ job[p].cmds = <<"restore">>
         \/ /\ result'[p] = "failed" /\ entry' \in {entry, Effect(p)}
            /\ job[p].cmds # <<"restore">>
            /\ ~(job[p].cmds = <<"add">> /\ setup.runtime = "claude"
                                        /\ job[p].existing # Absent)
<1> DEFINE cmds == job[p].cmds
<1>1. cmds \in {<<"remove">>, <<"add">>, <<"remove", "add">>, <<"restore">>}
  BY DEF Jobs
<1>2. /\ entry' \in {entry, Effect(p)}
      /\ (Advance(p) /\ entry' = Effect(p)) \/ Fall(p)
  BY DEF Command, Fault, Becomes
<1>3. \A how : Ends(p, how) => result'[p] = how
  BY DEF Ends, TypeOK
<1>4. ~UNCHANGED result
  BY DEF Ending
<1>5. CASE Fall(p)
  BY <1>2, <1>3, <1>4, <1>5 DEF Fall
<1>6. CASE Advance(p) /\ entry' = Effect(p)
  <2>1. CASE cmds = <<"restore">>
    BY <1>3, <1>6, <2>1 DEF Advance
  <2>2. CASE cmds = <<"remove", "add">>
    <3>1. Len(<<"remove", "add">>) > 1 /\ <<"remove", "add">> # <<"restore">>
      OBVIOUS
    <3> QED  BY <1>4, <1>6, <2>2, <3>1 DEF Advance
  <2>3. CASE cmds \in {<<"remove">>, <<"add">>}
    <3>1. /\ ~(Len(<<"remove">>) > 1) /\ ~(Len(<<"add">>) > 1)
          /\ <<"remove">> # <<"restore">> /\ <<"add">> # <<"restore">>
      OBVIOUS
    <3>2. Ends(p, "ok")
      <4>1. CASE cmds = <<"remove">>  BY <1>6, <3>1, <4>1 DEF Advance
      <4>2. CASE cmds = <<"add">>  BY <1>6, <3>1, <4>2 DEF Advance
      <4> QED  BY <2>3, <4>1, <4>2
    <3> QED  BY <1>3, <1>6, <2>3, <3>2
  <2> QED  BY <1>1, <2>1, <2>2, <2>3
<1> QED  BY <1>2, <1>5, <1>6

LEMMA OkLosesNothing ==
  ASSUME IInv, Next, NEW p \in Procs, Ending(p), result'[p] = "ok", ~raced[p]
  PROVE  entry' = After(setup, job[p].request, before[p])
<1> DEFINE j == job[p]
<1>1. /\ TypeOK /\ Running(p) /\ UnderWay(p) /\ j \in Jobs
      /\ Skip(p) \/ EditFile(p) \/ Command(p) \/ Fault(p)
  BY EndsByItself
<1>2. setup \in Setups /\ j.request \in Requests \cup {Removal} /\ j.existing \in EntrySet
  BY <1>1 DEF TypeOK, Jobs
<1>3. CASE Skip(p)
  BY <1>1, <1>3 DEF Skip, UnderWay, Noop
<1>4. CASE EditFile(p)
  BY <1>1, <1>4 DEF EditFile, Becomes, UnderWay
<1>5. CASE Command(p) \/ Fault(p)
  <2>1. entry' = Effect(p) /\ j.cmds \in {<<"remove">>, <<"add">>}
    BY <1>1, <1>5, LastCommand
  <2>2. j.how = "cli" /\ j.existing = before[p]
    BY <1>1, <1>5 DEF Command, Fault, RunsCommand, UnderWay
  <2>3. cliCan(setup, j.request, j.existing) /\ setup.runtime \in {"claude", "gemini"}
    BY <1>1, <1>2, <2>2, CliRuntime, CliAssumption
  <2>4. CASE j.cmds = <<"remove">>
    <3>1. j.request = Removal
      BY <1>1, <2>4 DEF UnderWay, Commands
    <3> QED  BY <2>1, <2>4, <3>1 DEF Effect, After
  <2>5. CASE j.cmds = <<"add">>
    <3>1. j.request \in Requests
      BY <1>1, <1>2, <2>5 DEF UnderWay, Commands
    <3>2. CASE setup.runtime = "claude"
      BY <1>2, <2>1, <2>2, <2>3, <2>5, <3>1, <3>2, KnownIsAll DEF Effect, Payload
    <3>3. CASE setup.runtime = "gemini"
      BY <1>2, <2>1, <2>2, <2>3, <2>5, <3>1, <3>3, GeminiIsAll DEF Effect, Payload
    <3> QED  BY <2>3, <3>2, <3>3
  <2> QED  BY <2>1, <2>4, <2>5
<1> QED  BY <1>1, <1>3, <1>4, <1>5

LEMMA FailureKeeps ==
  ASSUME IInv, Next, NEW p \in Procs, Ending(p), Updates(p), ~raced[p], result'[p] # "ok"
  PROVE  \/ entry' # Absent
         \/ result'[p] = "hint" /\ job[p].existing = before[p]
         \/ result'[p] = "failed" /\ Head(job[p].cmds) = "remove"
<1> DEFINE j == job[p]
<1>1. /\ TypeOK /\ Running(p) /\ UnderWay(p) /\ j \in Jobs
      /\ Skip(p) \/ EditFile(p) \/ Command(p) \/ Fault(p)
  BY EndsByItself
<1>2. j.existing = before[p] /\ j.existing # Absent /\ j.request # Removal
  BY <1>1 DEF UnderWay, Updates
<1>3. ~Skip(p) /\ ~EditFile(p)
  BY <1>1 DEF Skip, EditFile, Ends, TypeOK
<1>4. j.how = "cli" /\ setup.runtime # "codex"
  BY <1>1, <1>3, CliRuntime DEF Command, Fault, RunsCommand
<1>5. j.cmds[1] # "remove" => Effect(p) # Absent
  BY <1>1, <1>4, EffectIsEntry
<1>6. CASE result'[p] = "restored" /\ entry' = Effect(p) /\ j.cmds = <<"restore">>
  BY <1>5, <1>6
<1>7. CASE /\ result'[p] = "failed" /\ entry' \in {entry, Effect(p)}
           /\ j.cmds # <<"restore">> /\ ~(j.cmds = <<"add">> /\ setup.runtime = "claude")
  <2>1. CASE j.cmds \in {<<"remove">>, <<"remove", "add">>}
    <3>1. Head(<<"remove">>) = "remove" /\ Head(<<"remove", "add">>) = "remove"
      OBVIOUS
    <3> QED  BY <1>7, <2>1, <3>1
  <2>2. CASE j.cmds = <<"add">>
    <3>1. entry = before[p]
      BY <1>1, <1>7, <2>2 DEF UnderWay
    <3> QED  BY <1>2, <1>5, <1>7, <2>2, <3>1
  <2> QED  BY <1>1, <1>7, <2>1, <2>2 DEF Jobs
<1> QED  BY <1>1, <1>2, <1>3, <1>6, <1>7, LastCommand

\* A change that succeeds through the runtime's CLI leaves the entry the edit of
\* the file would have left, whatever the runtimes, scopes, entries and requests
\* (cliReason, cliAddChange).
THEOREM SuccessLosesNothing == Spec => CliLosesNothing
<1>1. IInv /\ [Next]_vars
        => [\A p \in Procs : Ending(p) /\ result'[p] = "ok" /\ ~raced[p] =>
              entry' = After(setup, job[p].request, before[p])]_vars
  BY OkLosesNothing
<1> QED  BY <1>1, Invariance, PTL DEF Spec, CliLosesNothing

\* A failing update never loses an entry behind a plain error, but for a `remove'
\* that failed after it had taken effect (the apply of cliAddChange).
THEOREM CopyKept == Spec => FailureKeepsACopy
<1>1. IInv /\ [Next]_vars
        => [\A p \in Procs : Ending(p) /\ Updates(p) /\ ~raced[p] /\ result'[p] # "ok" =>
              \/ entry' # Absent
              \/ result'[p] = "hint" /\ job[p].existing = before[p]
              \/ result'[p] = "failed" /\ Head(job[p].cmds) = "remove"]_vars
  BY FailureKeeps
<1> QED  BY <1>1, Invariance, PTL DEF Spec, FailureKeepsACopy

(* ---- adds at once ---- *)

\* Another process's step leaves what p is about to do.
LEMMA StillMending ==
  ASSUME NEW p \in Procs, Mending(p), UNCHANGED setup, job'[p] = job[p], result'[p] = result[p]
  PROVE  Mending(p)'
BY DEF Mending, Running

LEMMA MendedAtFirst == Init => MissingIsMended
BY DEF Init, MissingIsMended

LEMMA MendedAfterCommand ==
  ASSUME IInv, MissingIsMended, NEW p \in Procs, Command(p)
  PROVE  MissingIsMended'
<1> SUFFICES ASSUME faults' = 0, foreign' = 0, entry' = Absent,
                    \A q \in Procs : job'[q] # NoJob => job'[q].request # Removal
             PROVE  \/ \E q \in Procs : Mending(q)'
                    \/ \A q \in Procs : job'[q] # NoJob
                         => job'[q].existing = Absent /\ result'[q] # "ok"
  BY DEF MissingIsMended
<1> DEFINE j == job[p]
<1>1. /\ RunsCommand(p) /\ Running(p) /\ UnderWay(p) /\ TypeOK /\ j \in Jobs
      /\ j.how = "cli" /\ setup.runtime # "codex"
  BY RunningJob, CliRuntime DEF Command, RunsCommand, IInv
<1>2. j.cmds[1] # "remove" => Effect(p) # Absent
  BY <1>1, EffectIsEntry
<1>3. CASE Refuses(p)
  BY <1>3 DEF Command, Refuses
<1>4. CASE ~Refuses(p)
  <2>1. j.cmds[1] = "remove" /\ entry' = Effect(p) /\ Advance(p) /\ UNCHANGED setup
    BY <1>2, <1>4 DEF Command, Becomes
  <2>2. j.cmds = <<"remove">> \/ j.cmds = <<"remove", "add">>
    BY <1>1, <2>1 DEF Jobs
  <2>3. job' = job \/ job' = [job EXCEPT ![p].cmds = Tail(@)]
    BY <2>1 DEF Advance, Ends
  <2>4. job'[p] # NoJob /\ job'[p].request = j.request /\ p \in DOMAIN job
    BY <1>1, <2>3 DEF Jobs, NoJob, TypeOK
  <2>5. j.request # Removal
    BY <2>4
  <2>6. j.cmds = <<"remove", "add">>
    <3>1. <<"remove">> # <<"add">> /\ <<"remove">> # <<"remove", "add">>
          /\ <<"remove">> # <<"restore">>
      OBVIOUS
    <3>2. j.cmds # <<"remove">>
      BY <1>1, <2>5, <3>1 DEF UnderWay, Commands
    <3> QED  BY <2>2, <3>2
  <2>7. job' = [job EXCEPT ![p].cmds = Tail(@)] /\ UNCHANGED result
    <3>1. Len(<<"remove", "add">>) > 1 /\ <<"remove", "add">> # <<"restore">>
      OBVIOUS
    <3> QED  BY <2>1, <2>6, <3>1 DEF Advance
  <2>8. Tail(j.cmds) = <<"add">> /\ <<"add">> # <<"remove", "add">>
    BY <2>6
  <2>9. job' = [job EXCEPT ![p] = [j EXCEPT !.cmds = <<"add">>]]
    BY <2>7, <2>8
  <2>10. /\ job'[p].cmds = <<"add">> /\ job'[p].how = "cli"
         /\ job'[p].request = j.request /\ job'[p].existing = j.existing
    BY <1>1, <2>4, <2>9 DEF Jobs
  <2>11. Commands(setup, j.request, j.existing) = <<"remove", "add">>
    <3>1. <<"remove", "add">> # <<"add">> /\ <<"remove", "add">> # <<"restore">>
      OBVIOUS
    <3> QED  BY <1>1, <2>6, <3>1 DEF UnderWay
  <2>12. Mending(p)'
    BY <1>1, <2>1, <2>7, <2>8, <2>10, <2>11 DEF Mending, Running
  <2> QED  BY <2>12
<1> QED  BY <1>3, <1>4

LEMMA MendedNext ==
  ASSUME IInv, MissingIsMended, Next
  PROVE  MissingIsMended'
<1> USE DEF IInv
<1>1. ASSUME NEW p \in Procs, NEW e \in Requests \cup {Removal}, Plan(p, e)
      PROVE  MissingIsMended'
  <2> SUFFICES ASSUME faults' = 0, foreign' = 0, entry' = Absent,
                      \A q \in Procs : job'[q] # NoJob => job'[q].request # Removal
               PROVE  \/ \E q \in Procs : Mending(q)'
                      \/ \A q \in Procs : job'[q] # NoJob
                           => job'[q].existing = Absent /\ result'[q] # "ok"
    BY DEF MissingIsMended
  <2>1. /\ job[p] = NoJob /\ job'[p] = Job(setup, e, entry) /\ result'[p] # "ok"
        /\ \A q \in Procs \ {p} : job'[q] = job[q] /\ result'[q] = result[q]
        /\ UNCHANGED <<setup, entry, faults, foreign>>
    BY <1>1 DEF Plan, TypeOK
  <2>2. CASE \E q \in Procs : Mending(q)
    <3>1. PICK q \in Procs : Mending(q)
      BY <2>2
    <3>2. q # p
      BY <2>1, <3>1 DEF Mending, Running, NoJob
    <3> QED  BY <2>1, <3>1, <3>2, StillMending
  <2>3. CASE \A q \in Procs : job[q] # NoJob => job[q].existing = Absent /\ result[q] # "ok"
    BY <2>1, <2>3 DEF Job
  <2>4. \A q \in Procs : job[q] # NoJob => job[q].request # Removal
    BY <2>1
  <2> QED  BY <2>1, <2>2, <2>3, <2>4 DEF MissingIsMended
<1>2. ASSUME NEW p \in Procs, Skip(p)  PROVE MissingIsMended'
  <2> SUFFICES ASSUME faults' = 0, foreign' = 0, entry' = Absent,
                      \A q \in Procs : job'[q] # NoJob => job'[q].request # Removal
               PROVE  \E q \in Procs : Mending(q)'
    BY DEF MissingIsMended
  <2>1. /\ \A q \in Procs \ {p} : job'[q] = job[q] /\ result'[q] = result[q]
        /\ UNCHANGED <<setup, entry, faults, foreign, job>>
        /\ Running(p) /\ job[p] \in Jobs /\ UnderWay(p) /\ Noop(p)
    BY <1>2, RunningJob DEF Skip, Ends, TypeOK
  <2>2. job[p] # NoJob
    BY <2>1 DEF Running, NoJob
  <2>3. job[p].existing # Absent
    <3>1. job[p].request \in Requests /\ job[p].existing \in EntrySet
      BY <2>1, <2>2 DEF Jobs
    <3> QED  BY <2>1, <3>1, AfterIsEntry, <2>2 DEF Noop
  <2>4. PICK q \in Procs : Mending(q)
    BY <2>1, <2>2, <2>3 DEF MissingIsMended
  <2>5. q # p
    BY <1>2, <2>1, <2>4 DEF Mending, UnderWay, Skip
  <2> QED  BY <2>1, <2>4, <2>5, StillMending
<1>3. ASSUME NEW p \in Procs, EditFile(p)  PROVE MissingIsMended'
  <2>1. /\ job[p] \in Jobs /\ job[p] # NoJob /\ job' = job
        /\ entry' = After(setup, job[p].request, entry)
    BY <1>3, RunningJob DEF EditFile, Ends, Becomes, Running, NoJob
  <2>2. job[p].request # Removal => entry' # Absent
    BY <2>1, AfterIsEntry DEF Jobs, TypeOK
  <2> QED  BY <2>1, <2>2 DEF MissingIsMended
<1>4. ASSUME NEW p \in Procs, Command(p)  PROVE MissingIsMended'
  BY <1>4, MendedAfterCommand
<1>5. ASSUME NEW p \in Procs, Fault(p)  PROVE MissingIsMended'
  BY <1>5 DEF Fault, TypeOK, MissingIsMended
<1>6. ASSUME NEW e \in Entries, ForeignWrite(e)  PROVE MissingIsMended'
  BY <1>6 DEF ForeignWrite, TypeOK, MissingIsMended
<1> QED  BY <1>1, <1>2, <1>3, <1>4, <1>5, <1>6 DEF Next, Step

\* While there are only adds and none fails, an entry that is missing was never
\* there or is about to be put back, however many processes there are
\* (cliAddChange).
THEOREM MendedAlways == Spec => []MissingIsMended
<1>1. IInv /\ MissingIsMended /\ [Next]_vars => MissingIsMended'
  <2>1. MissingIsMended /\ UNCHANGED vars => MissingIsMended'
    BY DEF MissingIsMended, Mending, Running, vars
  <2> QED  BY <2>1, MendedNext
<1> QED  BY <1>1, MendedAtFirst, Invariance, PTL DEF Spec

\* Any number of installs of one agent at once, with commands that work: once one
\* has succeeded and all have ended the entry is there (cliAddChange).
THEOREM AddsLeaveEntry == Spec => []AddsLeaveAnEntry
<1>1. MissingIsMended => AddsLeaveAnEntry
  BY DEF MissingIsMended, AddsLeaveAnEntry, Mending, Running
<1> QED  BY <1>1, MendedAlways, PTL

(* ---- an edit of an edited text ---- *)
\* A segment as it stands in an edited text: blank lines only, or no blank line last.
EndsWell(z) == Blanks(z) \/ NotBlank(z[Len(z)])
LEMMA LastOf ==
  ASSUME NEW S, NEW x \in Seq(S), NEW y \in Seq(S), y # <<>>
  PROVE  x \o y # <<>> /\ (x \o y)[Len(x \o y)] = y[Len(y)] /\ Len(y) \in 1..Len(y)
<1>1. /\ x \o y \in Seq(S) /\ Len(x \o y) = Len(x) + Len(y)
      /\ \A k \in 1..Len(y) : (x \o y)[Len(x) + k] = y[k]
  BY ConcatParts
<1>2. Len(y) \in Nat /\ Len(y) > 0 /\ Len(x) \in Nat
  OBVIOUS
<1> QED  BY <1>1, <1>2
LEMMA FirstOf ==
  ASSUME NEW S, NEW x \in Seq(S), NEW y \in Seq(S), x # <<>>
  PROVE  x \o y # <<>> /\ (x \o y)[1] = x[1] /\ 1 \in 1..Len(x)
<1>1. /\ x \o y \in Seq(S) /\ Len(x \o y) = Len(x) + Len(y)
      /\ \A k \in 1..Len(x) : (x \o y)[k] = x[k]
  BY ConcatParts
<1>2. Len(x) \in Nat /\ Len(x) > 0 /\ Len(y) \in Nat
  OBVIOUS
<1> QED  BY <1>1, <1>2
LEMMA TightJoin ==
  ASSUME NEW V, NEW x \in Seq(Line(V)), NEW y \in Seq(Line(V)), Tight(x), Tight(y), x # <<>>, y # <<>>
  PROVE  Tight((x \o <<Blank>>) \o y)
<1>1. x \o <<Blank>> \in Seq(Line(V)) /\ <<Blank>> \in Seq(Line(V))
  BY OneBlank, CatType
<1>2. x \o <<Blank>> # <<>> /\ (x \o <<Blank>>)[1] = x[1]
  BY <1>1, FirstOf
<1>3. ((x \o <<Blank>>) \o y)[1] = x[1]
  BY <1>1, <1>2, FirstOf
<1>4. ((x \o <<Blank>>) \o y)[Len((x \o <<Blank>>) \o y)] = y[Len(y)]
  BY <1>1, LastOf
<1> QED  BY <1>3, <1>4 DEF Tight
\* Lines that come after a blank one.
LEMMA TrimMore ==
  ASSUME NEW V, NEW z \in Seq(Line(V)), NEW y \in Seq(Line(V)), EndsWell(z), Tight(y), y # <<>>
  PROVE  /\ Trimmed((z \o <<Blank>>) \o y) = JoinStep(Trimmed(z), y)
         /\ EndsWell((z \o <<Blank>>) \o y)
<1>1. <<Blank>> \in Seq(Line(V)) /\ Blanks(<<Blank>>) /\ z \o <<Blank>> \in Seq(Line(V))
      /\ <<>> \in Seq(Line(V)) /\ Blanks(<<>>)
  <2>1. <<Blank>> \in Seq(Line(V)) /\ Blanks(<<Blank>>)
    BY OneBlank
  <2> QED  BY <2>1, CatType DEF Blanks
<1>2. EndsWell((z \o <<Blank>>) \o y)
  BY <1>1, LastOf DEF EndsWell, Tight
<1>3. CASE Blanks(z)
  <2>1. Blanks(z \o <<Blank>>)
    BY <1>1, <1>3, BlanksCat
  <2>2. Trimmed(((z \o <<Blank>>) \o y) \o <<>>) = y
    BY <1>1, <2>1, TrimmedIs
  <2>3. ((z \o <<Blank>>) \o y) \o <<>> = (z \o <<Blank>>) \o y
    BY <1>1, CatType
  <2>4. JoinStep(<<>>, y) = y /\ Trimmed(z) = <<>>
    BY <1>3, TrimmedEmpty, JoinNothing
  <2> QED  BY <1>2, <2>2, <2>3, <2>4
<1>4. CASE ~Blanks(z)
  <2>1. PICK p, q : Cut3(z, p, q, V)
    BY TrimmedCut
  <2>2. PICK t : t = Trimmed(z)
    OBVIOUS
  <2>3. p \in Seq(Line(V)) /\ q \in Seq(Line(V)) /\ t \in Seq(Line(V)) /\ Blanks(p) /\ Blanks(q) /\ Tight(t)
        /\ z = (p \o t) \o q
    BY <2>1, <2>2 DEF Cut3
  <2>4. q = <<>>
    <3>1. SUFFICES ASSUME q # <<>> PROVE FALSE
      OBVIOUS
    <3>2. p \o t \in Seq(Line(V))
      BY <2>3, CatType
    <3>3. z[Len(z)] = q[Len(q)] /\ Len(q) \in 1..Len(q)
      BY <2>3, <3>1, <3>2, LastOf
    <3>4. ~NotBlank(q[Len(q)])
      BY <2>3, <3>3 DEF Blanks
    <3> QED  BY <1>4, <3>3, <3>4 DEF EndsWell
  <2>5. z = p \o t
    <3>1. p \o t \in Seq(Line(V))
      BY <2>3, CatType
    <3> QED  BY <2>3, <2>4, <3>1
  <2>6. t # <<>>
    <3>1. SUFFICES ASSUME t = <<>> PROVE FALSE
      OBVIOUS
    <3>2. p \o <<>> = p
      BY <2>3
    <3>3. z = p
      BY <2>5, <3>1, <3>2
    <3> QED  BY <1>4, <2>3, <3>3
  <2>7. PICK k : k = (t \o <<Blank>>) \o y
    OBVIOUS
  <2>8. k \in Seq(Line(V)) /\ Tight(k)
    BY <1>1, <2>3, <2>6, <2>7, TightJoin, CatType
  <2>9. (z \o <<Blank>>) \o y = p \o k
    <3>1. Assoc(Line(V))
      BY AssocAll
    <3>2. t \o <<Blank>> \in Seq(Line(V))
      BY <1>1, <2>3, CatType
    <3>3. p \o ((t \o <<Blank>>) \o y) = (p \o (t \o <<Blank>>)) \o y
      BY <2>3, <3>1, <3>2, SMTT(30) DEF Assoc
    <3>4. p \o (t \o <<Blank>>) = (p \o t) \o <<Blank>>
      BY <1>1, <2>3, <3>1 DEF Assoc
    <3> QED  BY <2>5, <2>7, <3>3, <3>4
  <2>10. Trimmed((p \o k) \o <<>>) = k
    BY <1>1, <2>3, <2>8, TrimmedIs
  <2>11. (p \o k) \o <<>> = p \o k
    BY <2>3, <2>8, CatType
  <2>12. JoinStep(t, y) = k
    BY <2>6, <2>7, CatType, <1>1, <2>3 DEF JoinStep
  <2> QED  BY <1>2, <2>2, <2>9, <2>10, <2>11, <2>12
<1> QED  BY <1>3, <1>4

\* Lines that go on with a segment.
Goes(w, out, cur, mine, seen) == w.out = out /\ w.cur = cur /\ w.mine = mine /\ w.seen = seen
LEMMA WeaveOn ==
  ASSUME NEW V, NEW b \in Seq(Line(V)), NEW x \in Seq(Line(V)), NEW r \in Seq(Line(V)), Headless(r),
         NEW w, w = Weave(x, b), w.mine => Plainly(r)
  PROVE  Goes(Weave(x \o r, b), w.out, w.cur \o r, w.mine, w.seen)
<1>0. w \in Weaves(V) /\ w.cur \in Seq(Line(V)) /\ w.mine \in BOOLEAN
  BY WeaveType, WeaveFields
<1> DEFINE Q == {l \in Line(V) : ~IsHeader(l) /\ (w.mine => ~IsContent(l))}
           G == {z \in Seq(Q) : Goes(Weave(x \o z, b), w.out, w.cur \o z, w.mine, w.seen)}
<1>1. <<>> \in G
  BY <1>0 DEF Goes
<1>2. ASSUME NEW z \in Seq(Q), NEW l \in Q, z \in G PROVE Append(z, l) \in G
  <2>0. Q \in SUBSET Line(V)
    OBVIOUS
  <2>1. x \o Append(z, l) = Append(x \o z, l) /\ x \o z \in Seq(Line(V)) /\ l \in Line(V)
        /\ Append(z, l) \in Seq(Q) /\ z \in Seq(Line(V))
    BY <2>0, CatLast
  <2>2. w.cur \o Append(z, l) = Append(w.cur \o z, l)
    <3>1. PICK c \in Seq(Line(V)) : c = w.cur
      BY <1>0
    <3>2. z \in Seq(Line(V)) /\ l \in Line(V)
      BY <2>1
    <3> HIDE DEF Q
    <3>3. c \o Append(z, l) = Append(c \o z, l)
      BY <3>2, CatAppend
    <3> QED  BY <3>1, <3>3
  <2>3. PICK u \in Weaves(V) : u = Weave(x \o z, b)
    BY <2>1, WeaveType
  <2>4. Weave(Append(x \o z, l), b) = WeaveStep(u, l, b)
    BY <2>1, <2>3, WeaveAppend
  <2>5. PICK n : n = WeaveStep(u, l, b)
    OBVIOUS
  <2>6. n.out = u.out /\ n.mine = u.mine /\ n.seen = u.seen
        /\ n.cur = (IF u.mine /\ IsContent(l) THEN <<>> ELSE Append(u.cur, l))
    <3>1. ~IsHeader(l)
      OBVIOUS
    <3>2. ~IsHeader(l) =>
              /\ n.out = u.out /\ n.mine = u.mine /\ n.seen = u.seen
              /\ n.cur = (IF u.mine /\ IsContent(l) THEN <<>> ELSE Append(u.cur, l))
      BY <2>5 DEF WeaveStep
    <3> QED  BY <3>1, <3>2, Zenon
  <2>7. u.out = w.out /\ u.cur = w.cur \o z /\ u.mine = w.mine /\ u.seen = w.seen
    BY <1>2, <2>3 DEF Goes
  <2>8. w.mine => ~IsContent(l)
    OBVIOUS
  <2> HIDE DEF Q
  <2>9. n.out = w.out /\ n.cur = w.cur \o Append(z, l) /\ n.mine = w.mine /\ n.seen = w.seen
    BY <2>2, <2>6, <2>7, <2>8
  <2> QED  BY <2>1, <2>4, <2>5, <2>9 DEF Goes
<1>3. r \in Seq(Q)
  <2>1. \A i \in 1..Len(r) : r[i] \in Q
    <3>1. SUFFICES ASSUME NEW i \in 1..Len(r) PROVE r[i] \in Q
      OBVIOUS
    <3>2. i \in DOMAIN r /\ r[i] \in Line(V)
      OBVIOUS
    <3> QED  BY <3>2 DEF Headless, Plainly
  <2> QED  BY <2>1
<1> HIDE DEF G, Q
<1>4. Seq(Q) \subseteq G
  BY <1>1, <1>2, SeqInducts
<1> QED  BY <1>3, <1>4 DEF G
\* Whether a table of the server has been.
Mark(w) == IF w.seen THEN "after" ELSE "before"
\* An edit of an edited text, where the first edit stands and where it would stand.
Redone(x, p, s, b, V) ==
  /\ x \in Seq(Line(V)) /\ p \in Seq(Line(V))
  /\ Ended(Weave(x, b)) = p /\ Mark(Weave(x, b)) = s /\ EndsWell(Weave(x, b).cur)
LEMMA RedoneNone ==
  ASSUME NEW V, NEW b PROVE Redone(<<>>, <<>>, "before", b, V)
<1>1. PICK w : w = Weave(<<>>, b)
  OBVIOUS
<1>2. w.out = <<>> /\ w.cur = <<>> /\ w.seen = FALSE
  BY <1>1, WeaveNone
<1>3. Blanks(<<>>)
  BY DEF Blanks
<1>4. <<>> \in Seq(Line(V))
  OBVIOUS
<1>5. Trimmed(<<>>) = <<>>
  BY <1>3, <1>4, TrimmedEmpty
<1>6. Ended(w) = <<>>
  BY <1>2, <1>5 DEF Ended, JoinStep
<1> QED  BY <1>1, <1>2, <1>3, <1>4, <1>6 DEF Redone, EndsWell, Mark
LEMMA RedoneBool ==
  ASSUME NEW V, NEW b \in Seq(Line(V)), NEW x, NEW p, NEW s, Redone(x, p, s, b, V), x = <<>>
  PROVE  p = <<>> /\ s = "before"
<1>1. Redone(<<>>, <<>>, "before", b, V)
  BY RedoneNone
<1> QED  BY <1>1, Zenon DEF Redone
LEMMA EndedTight ==
  ASSUME NEW V, NEW w, NEW o \in Seq(Line(V)), NEW y \in Seq(Line(V)), Tight(y), w.out = o, w.cur = y
  PROVE  Ended(w) = JoinStep(o, y) /\ EndsWell(y)
<1>1. Trimmed(y) = y
  BY TrimmedTight
<1>2. EndsWell(y)
  BY DEF EndsWell, Tight, Blanks
<1> QED  BY <1>1, <1>2 DEF Ended
\* The first lines of a text.
LEMMA RedoneFirst ==
  ASSUME NEW V, NEW b \in Seq(Line(V)), NEW y \in Seq(Line(V)), Tight(y), Headless(y)
  PROVE  Redone(y, y, "before", b, V)
<1>1. PICK w : w = Weave(<<>>, b)
  OBVIOUS
<1>2. w.out = <<>> /\ w.cur = <<>> /\ w.mine = FALSE /\ w.seen = FALSE
  BY <1>1, WeaveNone
<1>3. <<>> \in Seq(Line(V)) /\ <<>> \o y = y
  OBVIOUS
<1>4. Goes(Weave(<<>> \o y, b), w.out, w.cur \o y, w.mine, w.seen)
  BY <1>1, <1>2, <1>3, WeaveOn
<1>5. PICK u : u = Weave(y, b)
  OBVIOUS
<1>6. u.out = <<>> /\ u.cur = y /\ u.seen = FALSE
  BY <1>2, <1>3, <1>4, <1>5 DEF Goes
<1>7. Ended(u) = JoinStep(<<>>, y) /\ EndsWell(y)
  BY <1>3, <1>6, EndedTight
<1>8. Ended(u) = y
  BY <1>7, JoinNothing
<1> QED  BY <1>5, <1>6, <1>7, <1>8 DEF Redone, Mark

LEMMA ScanPadType ==
  ASSUME NEW V, NEW o \in Seq(Line(V)), NEW m \in {<<>>, <<Blank>>}
  PROVE  o \o m \in Seq(Line(V)) /\ m \in Seq(Line(V))
<1>1. m \in Seq(Line(V))
  BY BlankIsLine, PadType
<1> QED  BY <1>1, CatType
\* A blank line after an edited text.
LEMMA RedonePad ==
  ASSUME NEW V, NEW b \in Seq(Line(V)), NEW o, NEW p, NEW s, Redone(o, p, s, b, V),
         NEW m \in {<<>>, <<Blank>>}, NEW w, w = Weave(o \o m, b)
  PROVE  w \in Weaves(V) /\ Ended(w) = p /\ Mark(w) = s /\ o \o m \in Seq(Line(V))
<1>1. /\ o \in Seq(Line(V)) /\ Ended(Weave(o, b)) = p /\ Mark(Weave(o, b)) = s
  BY DEF Redone
<1>2. o \o m \in Seq(Line(V))
  BY <1>1, ScanPadType
<1>3. w \in Weaves(V)
  BY <1>2, WeaveType
<1>4. CASE m = <<>>
  BY <1>1, <1>2, <1>3, <1>4
<1>5. CASE m = <<Blank>>
  <2>1. PICK u : u = Weave(o, b)
    OBVIOUS
  <2>2. Headless(m) /\ Plainly(m) /\ m \in Seq(Line(V))
    BY <1>5, OneBlank DEF Headless, Plainly, Blank, IsHeader, IsContent
  <2>3. Goes(w, u.out, u.cur \o m, u.mine, u.seen)
    BY <1>1, <2>1, <2>2, WeaveOn
  <2>4. w.out = u.out /\ w.cur = u.cur \o <<Blank>> /\ w.seen = u.seen
    BY <1>5, <2>3, Zenon DEF Goes
  <2>5. u.cur \in Seq(Line(V))
    BY <1>1, <2>1, WeaveType, WeaveFields
  <2>6. Trimmed(w.cur) = Trimmed(u.cur)
    BY <2>4, <2>5, TrimmedBlank
  <2>7. Ended(w) = Ended(u)
    BY <2>4, <2>6 DEF Ended
  <2> QED  BY <1>1, <1>2, <1>3, <2>1, <2>4, <2>7 DEF Mark
<1> QED  BY <1>4, <1>5
\* A segment of another table.
OneHead(c) ==
  c # <<>> /\ IsHeader(c[1]) /\ ~Target(c[1]) /\ \A i \in 2..Len(c) : ~IsHeader(c[i])
LEMMA HeadTail ==
  ASSUME NEW V, NEW y \in Seq(Line(V)), OneHead(y)
  PROVE  \E h \in Line(V), r \in Seq(Line(V)) :
           y = <<h>> \o r /\ IsHeader(h) /\ ~Target(h) /\ Headless(r)
<1>1. y # <<>> /\ y[1] \in Line(V) /\ Tail(y) \in Seq(Line(V)) /\ Len(Tail(y)) = Len(y) - 1 /\ Len(y) \in Nat
  BY DEF OneHead
<1>2. \A i \in 1..Len(Tail(y)) : Tail(y)[i] = y[i + 1] /\ i + 1 \in 2..Len(y)
  BY <1>1
<1>3. Headless(Tail(y))
  <2>1. DOMAIN Tail(y) = 1..Len(Tail(y))
    BY <1>1
  <2> QED  BY <1>2, <2>1 DEF Headless, OneHead
<1>4. y = <<y[1]>> \o Tail(y)
  BY <1>1
<1> QED  BY <1>1, <1>3, <1>4 DEF OneHead
LEMMA RedoneLed ==
  ASSUME NEW V, NEW b \in Seq(Line(V)), NEW o, NEW p, NEW s, Redone(o, p, s, b, V),
         NEW y \in Seq(Line(V)), Tight(y), OneHead(y)
  PROVE  Redone(JoinStep(o, y), JoinStep(p, y), s, b, V)
<1>1. o \in Seq(Line(V)) /\ p \in Seq(Line(V))
  BY DEF Redone
<1>2. PICK m \in {<<>>, <<Blank>>} : JoinStep(o, y) = o \o m \o y
  BY <1>1, BlankIsLine, JoinPad
<1>3. PICK w : w = Weave(o \o m, b)
  OBVIOUS
<1>4. w \in Weaves(V) /\ Ended(w) = p /\ Mark(w) = s /\ o \o m \in Seq(Line(V))
  <2>1. \A n \in {<<>>, <<Blank>>} : \A u : u = Weave(o \o n, b) =>
           u \in Weaves(V) /\ Ended(u) = p /\ Mark(u) = s /\ o \o n \in Seq(Line(V))
    BY RedonePad
  <2> QED  BY <1>3, <2>1
<1>5. PICK h \in Line(V), r \in Seq(Line(V)) : y = <<h>> \o r /\ IsHeader(h) /\ ~Target(h) /\ Headless(r)
  BY HeadTail
<1>6. PICK x \in Seq(Line(V)) : x = Append(o \o m, h)
  BY <1>4, AppendIn
<1>7. (o \o m) \o y = x \o r
  <2>1. PICK q \in Seq(Line(V)) : q = o \o m
    BY <1>4
  <2>2. Spreads(Line(V))
    BY Spread
  <2>3. <<>> \in Seq(Line(V))
    OBVIOUS
  <2>4. \A z, c, d \in Seq(Line(V)) : z \o ((<<h>> \o c) \o d) = (Append(z, h) \o c) \o d
    BY <2>2 DEF Spreads
  <2>5. q \o ((<<h>> \o r) \o <<>>) = (Append(q, h) \o r) \o <<>>
    BY <2>3, <2>4, ZenonT(30)
  <2>6. (<<h>> \o r) \o <<>> = <<h>> \o r
    OBVIOUS
  <2>7. (x \o r) \o <<>> = x \o r
    BY CatType
  <2> QED  BY <1>5, <1>6, <2>1, <2>5, <2>6, <2>7
<1>8. PICK v : v = Weave(x, b)
  OBVIOUS
<1>9. v.out = p /\ v.cur = <<h>> /\ ~v.mine /\ Mark(v) = s
  <2>1. Weave(x, b) = WeaveStep(Weave(o \o m, b), h, b)
    BY <1>4, <1>6, WeaveAppend
  <2>2. v = WeaveStep(w, h, b)
    BY <1>3, <1>8, <2>1
  <2>3. IsHeader(h) =>
              /\ v.out = (IF Target(h) /\ ~w.seen THEN JoinStep(Ended(w), b) ELSE Ended(w))
              /\ v.cur = (IF Target(h) THEN <<>> ELSE <<h>>)
              /\ v.mine = Target(h) /\ v.seen = (Target(h) \/ w.seen)
    BY <2>2 DEF WeaveStep
  <2>4. v.out = Ended(w) /\ v.cur = <<h>> /\ v.mine = Target(h) /\ v.seen = (Target(h) \/ w.seen)
    BY <1>5, <2>3
  <2>5. ~v.mine /\ (v.seen <=> w.seen)
    BY <1>5, <2>4 DEF Target
  <2>6. Mark(v) = Mark(w)
    BY <2>5 DEF Mark
  <2> QED  BY <1>4, <2>4, <2>5, <2>6
<1>10. Goes(Weave(x \o r, b), v.out, v.cur \o r, v.mine, v.seen)
  BY <1>5, <1>8, <1>9, WeaveOn
<1>11. PICK z : z = Weave(x \o r, b)
  OBVIOUS
<1>12. z.out = p /\ z.cur = y /\ Mark(z) = s
  BY <1>5, <1>9, <1>10, <1>11 DEF Goes, Mark
<1>13. Ended(z) = JoinStep(p, y) /\ EndsWell(y)
  BY <1>1, <1>12, EndedTight
<1>14. JoinStep(o, y) \in Seq(Line(V)) /\ JoinStep(p, y) \in Seq(Line(V))
  BY <1>1, JoinStepType
<1> QED  BY <1>1, <1>2, <1>7, <1>11, <1>12, <1>13, <1>14 DEF Redone

LEMMA PlainlyHeadless ==
  ASSUME NEW y, Plainly(y) PROVE Headless(y)
BY DEF Plainly, Headless, IsContent, IsHeader
LEMMA RedonePlain ==
  ASSUME NEW V, NEW b \in Seq(Line(V)), NEW o, NEW p, NEW s, Redone(o, p, s, b, V),
         NEW y \in Seq(Line(V)), Tight(y), Plainly(y), y # <<>>
  PROVE  Redone(JoinStep(o, y), JoinStep(p, y), s, b, V)
<1>1. o \in Seq(Line(V)) /\ p \in Seq(Line(V))
      /\ Ended(Weave(o, b)) = p /\ Mark(Weave(o, b)) = s /\ EndsWell(Weave(o, b).cur)
  BY DEF Redone
<1>2. Headless(y)
  BY PlainlyHeadless
<1>3. CASE o = <<>>
  <2>1. p = <<>> /\ s = "before"
    BY <1>3, RedoneBool
  <2>2. Redone(y, y, "before", b, V)
    BY <1>2, RedoneFirst
  <2>3. JoinStep(<<>>, y) = y
    BY JoinNothing
  <2> QED  BY <1>3, <2>1, <2>2, <2>3
<1>4. CASE o # <<>>
  <2>1. PICK u \in Weaves(V) : u = Weave(o, b)
    BY <1>1, WeaveType
  <2>2. PICK c \in Seq(Line(V)), q \in Seq(Line(V)) : c = u.cur /\ q = u.out
    BY WeaveFields
  <2>3. PICK x \in Seq(Line(V)) : x = o \o <<Blank>>
    BY <1>1, OneBlank, CatType
  <2>4. Headless(<<Blank>>) /\ Plainly(<<Blank>>) /\ <<Blank>> \in Seq(Line(V))
    BY OneBlank DEF Headless, Plainly, Blank, IsHeader, IsContent
  <2>5. PICK w : w = Weave(x, b)
    OBVIOUS
  <2>6. Goes(Weave(o \o <<Blank>>, b), u.out, u.cur \o <<Blank>>, u.mine, u.seen)
    BY <1>1, <2>1, <2>4, WeaveOn
  <2>7. w.out = q /\ w.cur = c \o <<Blank>> /\ Mark(w) = s
    BY <1>1, <2>1, <2>2, <2>3, <2>5, <2>6 DEF Goes, Mark
  <2>8. Goes(Weave(x \o y, b), w.out, w.cur \o y, w.mine, w.seen)
    BY <1>2, <2>5, WeaveOn
  <2>9. PICK v : v = Weave(x \o y, b)
    OBVIOUS
  <2>10. v.out = q /\ v.cur = (c \o <<Blank>>) \o y /\ Mark(v) = s
    BY <2>7, <2>8, <2>9 DEF Goes, Mark
  <2>11. EndsWell(c)
    BY <1>1, <2>1, <2>2
  <2>12. Trimmed((c \o <<Blank>>) \o y) = JoinStep(Trimmed(c), y) /\ EndsWell((c \o <<Blank>>) \o y)
    BY <2>11, TrimMore
  <2>13. PICK t \in Seq(Line(V)) : t = Trimmed(c)
    BY TrimmedType
  <2>14. Ended(v) = JoinStep(q, JoinStep(t, y))
    BY <2>10, <2>12, <2>13 DEF Ended
  <2>15. p = JoinStep(q, t)
    BY <1>1, <2>1, <2>2, <2>13 DEF Ended
  <2>16. JoinStep(JoinStep(q, t), y) = JoinStep(q, JoinStep(t, y))
    BY BlankIsLine, JoinAssociative
  <2>17. Ended(v) = JoinStep(p, y) /\ Mark(v) = s /\ EndsWell(v.cur)
    BY <2>10, <2>12, <2>14, <2>15, <2>16
  <2>18. JoinStep(o, y) = x \o y
    BY <1>4, <2>3 DEF JoinStep
  <2>19. JoinStep(o, y) \in Seq(Line(V)) /\ JoinStep(p, y) \in Seq(Line(V))
    BY <1>1, JoinStepType
  <2> QED  BY <1>1, <2>9, <2>17, <2>18, <2>19 DEF Redone
<1> QED  BY <1>3, <1>4
\* The lines of a block are replaced.
LEMMA WrittenOn ==
  ASSUME NEW V, NEW b \in Seq(Line(V)), NEW x \in Seq(Line(V)), NEW w, w = Weave(x, b),
         w.mine, w.seen, Blanks(w.cur), NEW t \in Seq(Writes(V)), NEW v, v = Weave(x \o t, b)
  PROVE  v.out = w.out /\ v.mine /\ v.seen /\ Blanks(v.cur)
<1>0. w \in Weaves(V) /\ w.out \in Seq(Line(V))
  BY WeaveType, WeaveFields
<1> DEFINE Done(u) == u.out = w.out /\ u.mine /\ u.seen /\ Blanks(u.cur)
           G == {z \in Seq(Writes(V)) : Done(Weave(x \o z, b))}
<1>1. <<>> \in G
  <2>1. x \o <<>> = x
    OBVIOUS
  <2> QED  BY <2>1
<1>2. ASSUME NEW z \in Seq(Writes(V)), NEW l \in Writes(V), z \in G PROVE Append(z, l) \in G
  <2>0. Writes(V) \in SUBSET Line(V)
    BY DEF Writes
  <2>1. x \o Append(z, l) = Append(x \o z, l) /\ x \o z \in Seq(Line(V)) /\ l \in Line(V)
        /\ Append(z, l) \in Seq(Writes(V))
    BY <2>0, CatLast
  <2>2. PICK u \in Weaves(V) : u = Weave(x \o z, b)
    BY <2>1, WeaveType
  <2>3. PICK n : n = WeaveStep(u, l, b)
    OBVIOUS
  <2>4. Weave(Append(x \o z, l), b) = n
    BY <2>1, <2>2, <2>3, WeaveAppend
  <2>5. Done(u)
    BY <1>2, <2>2
  <2>6. u.out \in Seq(Line(V)) /\ u.cur \in Seq(Line(V)) /\ u.seen \in BOOLEAN /\ u.mine \in BOOLEAN
    BY WeaveFields
  <2>7. Target(l) \/ l.kind \in {"key", "blank"}
    BY DEF Writes, Written
  <2>8. CASE Target(l)
    <3>1. IsHeader(l)
      BY <2>8 DEF Target
    <3>2. Ended(u) = u.out
      <4>1. Trimmed(u.cur) = <<>>
        BY <2>5, <2>6, TrimmedEmpty
      <4> QED  BY <4>1 DEF Ended, JoinStep
    <3>3. IsHeader(l) =>
              /\ n.out = (IF Target(l) /\ ~u.seen THEN JoinStep(Ended(u), b) ELSE Ended(u))
              /\ n.cur = (IF Target(l) THEN <<>> ELSE <<l>>)
              /\ n.mine = Target(l) /\ n.seen = (Target(l) \/ u.seen)
      BY <2>3 DEF WeaveStep
    <3>4. n.out = w.out /\ n.cur = <<>> /\ n.mine /\ n.seen
      BY <2>5, <2>8, <3>1, <3>2, <3>3
    <3>5. Done(n)
      BY <3>4 DEF Blanks
    <3> QED  BY <2>1, <2>4, <3>5
  <2>9. CASE ~Target(l)
    <3>1. ~IsHeader(l)
      BY <2>7, <2>9 DEF IsHeader
    <3>2. ~IsHeader(l) =>
              /\ n.out = u.out /\ n.mine = u.mine /\ n.seen = u.seen
              /\ n.cur = (IF u.mine /\ IsContent(l) THEN <<>> ELSE Append(u.cur, l))
      BY <2>3 DEF WeaveStep
    <3>3. n.out = w.out /\ n.mine /\ n.seen /\ n.cur = (IF IsContent(l) THEN <<>> ELSE Append(u.cur, l))
      BY <2>5, <2>6, <3>1, <3>2
    <3>4. Blanks(n.cur)
      <4>1. CASE IsContent(l)
        BY <3>3, <4>1 DEF Blanks
      <4>2. CASE ~IsContent(l)
        <5>1. ~NotBlank(l)
          BY <2>7, <2>9, <4>2 DEF IsContent, NotBlank
        <5>2. \A i \in DOMAIN Append(u.cur, l) : (i \in DOMAIN u.cur /\ Append(u.cur, l)[i] = u.cur[i])
                                                \/ Append(u.cur, l)[i] = l
          BY <2>6
        <5> QED  BY <2>5, <3>3, <4>2, <5>1, <5>2 DEF Blanks
      <4> QED  BY <4>1, <4>2
    <3>5. Done(n)
      BY <3>3, <3>4
    <3> QED  BY <2>1, <2>4, <3>5
  <2> QED  BY <2>8, <2>9
<1> HIDE DEF G
<1>3. Seq(Writes(V)) \subseteq G
  BY <1>1, <1>2, SeqInducts
<1>4. Done(v)
  BY <1>3 DEF G
<1> QED  BY <1>4

LEMMA RedoneBlock ==
  ASSUME NEW V, NEW b \in Seq(Line(V)), NEW o, NEW p, Redone(o, p, "before", b, V),
         NEW k, Block(k, V)
  PROVE  Redone(JoinStep(o, k), JoinStep(p, b), "after", b, V)
<1>1. o \in Seq(Line(V)) /\ p \in Seq(Line(V))
  BY DEF Redone
<1>2. PICK t \in Seq(Writes(V)) : k = <<Header("me")>> \o t
  BY DEF Block
<1>3. PICK h \in Line(V) : h = Header("me") /\ IsHeader(h) /\ Target(h)
  BY HeaderMe
<1>4. k \in Seq(Line(V)) /\ t \in Seq(Line(V))
  <2>1. <<>> \in Seq(Line(V))
    OBVIOUS
  <2>2. k \in Seq(Line(V))
    BY <1>2, <2>1, BlockCat
  <2>3. Writes(V) \in SUBSET Line(V)
    BY DEF Writes
  <2> QED  BY <2>2, <2>3, SeqSub
<1>5. PICK m \in {<<>>, <<Blank>>} : JoinStep(o, k) = o \o m \o k
  BY <1>1, <1>4, BlankIsLine, JoinPad
<1>6. PICK w : w = Weave(o \o m, b)
  OBVIOUS
<1>7. w \in Weaves(V) /\ Ended(w) = p /\ Mark(w) = "before" /\ o \o m \in Seq(Line(V))
  <2>1. \A n \in {<<>>, <<Blank>>} : \A u : u = Weave(o \o n, b) =>
           u \in Weaves(V) /\ Ended(u) = p /\ Mark(u) = "before" /\ o \o n \in Seq(Line(V))
    BY RedonePad
  <2> QED  BY <1>6, <2>1
<1>8. PICK x \in Seq(Line(V)) : x = Append(o \o m, h)
  BY <1>7, AppendIn
<1>9. (o \o m) \o k = x \o t
  <2>1. PICK q \in Seq(Line(V)) : q = o \o m
    BY <1>7
  <2>2. q \o (<<Header("me")>> \o t) = Append(q, Header("me")) \o t
    BY BlockCat
  <2> QED  BY <1>2, <1>3, <1>8, <2>1, <2>2
<1>10. PICK v : v = Weave(x, b)
  OBVIOUS
<1>11. v.out = JoinStep(p, b) /\ v.cur = <<>> /\ v.mine /\ v.seen
  <2>1. Weave(x, b) = WeaveStep(Weave(o \o m, b), h, b)
    BY <1>7, <1>8, WeaveAppend
  <2>2. v = WeaveStep(w, h, b)
    BY <1>6, <1>10, <2>1
  <2>3. IsHeader(h) =>
              /\ v.out = (IF Target(h) /\ ~w.seen THEN JoinStep(Ended(w), b) ELSE Ended(w))
              /\ v.cur = (IF Target(h) THEN <<>> ELSE <<h>>)
              /\ v.mine = Target(h) /\ v.seen = (Target(h) \/ w.seen)
    BY <2>2 DEF WeaveStep
  <2>4. ~w.seen
    BY <1>7 DEF Mark
  <2>5. v.out = JoinStep(Ended(w), b) /\ v.cur = <<>> /\ v.mine = Target(h) /\ v.seen = (Target(h) \/ w.seen)
    BY <1>3, <2>3, <2>4
  <2>6. v.mine /\ v.seen
    BY <1>3, <2>5 DEF Target
  <2> QED  BY <1>7, <2>5, <2>6
<1>12. PICK z : z = Weave(x \o t, b)
  OBVIOUS
<1>13. z.out = v.out /\ z.mine /\ z.seen /\ Blanks(z.cur)
  <2>1. Blanks(v.cur)
    BY <1>11 DEF Blanks
  <2> QED  BY <1>10, <1>11, <1>12, <2>1, WrittenOn
<1>14. Ended(z) = JoinStep(p, b)
  <2>1. z \in Weaves(V)
    <3>1. x \o t \in Seq(Line(V))
      BY <1>4, CatType
    <3> QED  BY <1>12, <3>1, WeaveType
  <2>2. z.cur \in Seq(Line(V))
    BY <2>1, WeaveFields
  <2>3. Trimmed(z.cur) = <<>>
    BY <1>13, <2>2, TrimmedEmpty
  <2> QED  BY <1>11, <1>13, <2>3 DEF Ended, JoinStep
<1>15. JoinStep(o, k) \in Seq(Line(V)) /\ JoinStep(p, b) \in Seq(Line(V))
  BY <1>1, <1>4, JoinStepType
<1>16. Mark(z) = "after" /\ EndsWell(z.cur)
  BY <1>13 DEF Mark, EndsWell
<1>17. JoinStep(o, k) = x \o t
  BY <1>5, <1>9
<1> QED  BY <1>12, <1>14, <1>15, <1>16, <1>17 DEF Redone
\* What an edit has read since the last header.
CurIs(w) ==
  \/ w.mine /\ Plainly(w.cur)
  \/ ~w.mine /\ w.out = <<>> /\ Headless(w.cur)
  \/ ~w.mine /\ OneHead(w.cur)
LEMMA TrimmedHead ==
  ASSUME NEW V, NEW c \in Seq(Line(V)), NEW t, t = Trimmed(c)
  PROVE  /\ Plainly(c) => Plainly(t)
         /\ Headless(c) => Headless(t)
         /\ OneHead(c) => OneHead(t)
<1>1. PICK p, q : Cut3(c, p, q, V)
  BY TrimmedCut
<1>2. p \in Seq(Line(V)) /\ q \in Seq(Line(V)) /\ t \in Seq(Line(V)) /\ Blanks(p) /\ Blanks(q) /\ c = (p \o t) \o q
  BY <1>1 DEF Cut3
<1>3. /\ p \o t \in Seq(Line(V)) /\ Len(p \o t) = Len(p) + Len(t)
      /\ \A i \in 1..Len(p) : (p \o t)[i] = p[i]
      /\ \A i \in 1..Len(t) : (p \o t)[Len(p) + i] = t[i]
  BY <1>2, ConcatParts
<1>4. /\ Len(c) = Len(p \o t) + Len(q)
      /\ \A i \in 1..Len(p \o t) : c[i] = (p \o t)[i]
      /\ \A i \in 1..Len(q) : c[Len(p \o t) + i] = q[i]
  BY <1>2, <1>3, ConcatParts
<1>5. Len(p) \in Nat /\ Len(t) \in Nat /\ Len(q) \in Nat /\ DOMAIN c = 1..Len(c) /\ DOMAIN t = 1..Len(t)
      /\ DOMAIN p = 1..Len(p) /\ DOMAIN q = 1..Len(q)
  BY <1>2
<1>6. \A i \in 1..Len(t) : Len(p) + i \in 1..Len(c) /\ c[Len(p) + i] = t[i]
  <2>1. SUFFICES ASSUME NEW i \in 1..Len(t) PROVE Len(p) + i \in 1..Len(c) /\ c[Len(p) + i] = t[i]
    OBVIOUS
  <2>2. Len(p) + i \in 1..Len(p \o t) /\ Len(p) + i \in 1..Len(c)
    BY <1>3, <1>4, <1>5
  <2> QED  BY <1>3, <1>4, <2>2
<1>7. Plainly(c) => Plainly(t)
  BY <1>5, <1>6 DEF Plainly
<1>8. Headless(c) => Headless(t)
  BY <1>5, <1>6 DEF Headless
<1>9. ASSUME OneHead(c) PROVE OneHead(t)
  <2>1. c # <<>> /\ IsHeader(c[1]) /\ ~Target(c[1]) /\ \A i \in 2..Len(c) : ~IsHeader(c[i])
    BY <1>9 DEF OneHead
  <2>2. NotBlank(c[1]) /\ 1 \in 1..Len(c)
    BY <1>5, <2>1 DEF NotBlank, IsHeader
  <2>3. Len(p) = 0
    <3>1. SUFFICES ASSUME Len(p) # 0 PROVE FALSE
      OBVIOUS
    <3>2. 1 \in 1..Len(p) /\ 1 \in 1..Len(p \o t)
      BY <1>3, <1>5, <3>1
    <3>3. c[1] = p[1]
      BY <1>3, <1>4, <3>2
    <3> QED  BY <1>2, <1>5, <2>2, <3>2, <3>3 DEF Blanks
  <2>4. Len(t) # 0
    <3>1. SUFFICES ASSUME Len(t) = 0 PROVE FALSE
      OBVIOUS
    <3>2. Len(p \o t) = 0 /\ Len(c) = Len(q)
      BY <1>3, <1>4, <1>5, <2>3, <3>1
    <3>3. c[1] = q[1] /\ 1 \in 1..Len(q)
      <4>1. 1 \in 1..Len(q)
        BY <2>2, <3>2
      <4>2. c[0 + 1] = q[1]
        BY <1>4, <3>2, <4>1
      <4> QED  BY <4>1, <4>2
    <3> QED  BY <1>2, <1>5, <2>2, <3>3 DEF Blanks
  <2>5. \A i \in 1..Len(t) : c[i] = t[i] /\ i \in 1..Len(c)
    <3>1. SUFFICES ASSUME NEW i \in 1..Len(t) PROVE c[i] = t[i] /\ i \in 1..Len(c)
      OBVIOUS
    <3>2. Len(p) + i = i
      BY <2>3
    <3> QED  BY <1>6, <3>2
  <2>6. 1 \in 1..Len(t) /\ t # <<>>
    BY <1>5, <2>4
  <2>7. \A i \in 2..Len(t) : i \in 1..Len(t) /\ i \in 2..Len(c)
    BY <1>5, <2>5
  <2> QED  BY <2>1, <2>5, <2>6, <2>7 DEF OneHead
<1> QED  BY <1>7, <1>8, <1>9

LEMMA RedoneCur ==
  ASSUME NEW V, NEW b \in Seq(Line(V)), NEW w \in Weaves(V), CurIs(w), NEW p, NEW s,
         Redone(w.out, p, s, b, V), NEW y, y = Trimmed(w.cur), NEW e, e = Ended(w)
  PROVE  Redone(e, JoinStep(p, y), s, b, V)
<1>1. PICK o \in Seq(Line(V)), c \in Seq(Line(V)) : o = w.out /\ c = w.cur
  BY WeaveFields
<1>2. Redone(o, p, s, b, V) /\ e = JoinStep(o, y)
  BY <1>1 DEF Ended
<1>3. y \in Seq(Line(V)) /\ Tight(y)
  BY <1>1, TrimmedType
<1>4. CASE y = <<>>
  <2>1. e = o /\ JoinStep(p, y) = p
    BY <1>2, <1>4, JoinNothing
  <2> QED  BY <1>2, <2>1
<1>5. CASE y # <<>>
  <2>1. CASE Plainly(c)
    <3>1. Plainly(y)
      BY <1>1, <2>1, TrimmedHead
    <3> QED  BY <1>2, <1>3, <1>5, <3>1, RedonePlain
  <2>2. CASE o = <<>> /\ Headless(c)
    <3>1. Headless(y)
      BY <1>1, <2>2, TrimmedHead
    <3>2. p = <<>> /\ s = "before"
      BY <1>2, <2>2, RedoneBool
    <3>3. Redone(y, y, "before", b, V)
      BY <1>3, <3>1, RedoneFirst
    <3>4. JoinStep(<<>>, y) = y
      BY JoinNothing
    <3> QED  BY <1>2, <2>2, <3>2, <3>3, <3>4
  <2>3. CASE OneHead(c)
    <3>1. OneHead(y)
      BY <1>1, <2>3, TrimmedHead
    <3> QED  BY <1>2, <1>3, <3>1, RedoneLed
  <2> QED  BY <1>1, <2>1, <2>2, <2>3 DEF CurIs
<1> QED  BY <1>4, <1>5
\* Two edits of a text, and how the second goes on the first's.
Echoes(w, z, b, V) ==
  /\ CurIs(w) /\ z.cur = w.cur /\ (z.mine <=> w.mine) /\ (z.seen <=> w.seen)
  /\ Redone(w.out, z.out, Mark(w), b, V)
LEMMA EchoHeader ==
  ASSUME NEW V, NEW k, Block(k, V), NEW b \in Seq(Line(V)), NEW w \in Weaves(V), NEW z \in Weaves(V),
         Echoes(w, z, b, V), NEW l \in Line(V), IsHeader(l),
         NEW u, u = WeaveStep(w, l, k), NEW v, v = WeaveStep(z, l, b)
  PROVE  Echoes(u, v, b, V)
<1>1. CurIs(w) /\ z.cur = w.cur /\ (z.seen <=> w.seen) /\ Redone(w.out, z.out, Mark(w), b, V)
  BY DEF Echoes
<1>2. PICK e, f : e = Ended(w) /\ f = Ended(z)
  OBVIOUS
<1>3. PICK y : y = Trimmed(w.cur)
  OBVIOUS
<1>4. f = JoinStep(z.out, y)
  BY <1>1, <1>2, <1>3 DEF Ended
<1>5. Redone(e, f, Mark(w), b, V)
  <2>1. PICK p, s : p = z.out /\ s = Mark(w)
    OBVIOUS
  <2>2. Redone(w.out, p, s, b, V)
    BY <1>1, <2>1
  <2>3. Redone(e, JoinStep(p, y), s, b, V)
    BY <1>1, <1>2, <1>3, <2>2, RedoneCur
  <2> QED  BY <1>4, <2>1, <2>3
<1>6. /\ u.out = (IF Target(l) /\ ~w.seen THEN JoinStep(e, k) ELSE e)
      /\ u.cur = (IF Target(l) THEN <<>> ELSE <<l>>)
      /\ u.mine = Target(l) /\ u.seen = (Target(l) \/ w.seen)
  <2>1. IsHeader(l) =>
              /\ u.out = (IF Target(l) /\ ~w.seen THEN JoinStep(Ended(w), k) ELSE Ended(w))
              /\ u.cur = (IF Target(l) THEN <<>> ELSE <<l>>)
              /\ u.mine = Target(l) /\ u.seen = (Target(l) \/ w.seen)
    BY DEF WeaveStep
  <2> QED  BY <1>2, <2>1, Zenon
<1>7. /\ v.out = (IF Target(l) /\ ~z.seen THEN JoinStep(f, b) ELSE f)
      /\ v.cur = (IF Target(l) THEN <<>> ELSE <<l>>)
      /\ v.mine = Target(l) /\ v.seen = (Target(l) \/ z.seen)
  <2>1. IsHeader(l) =>
              /\ v.out = (IF Target(l) /\ ~z.seen THEN JoinStep(Ended(z), b) ELSE Ended(z))
              /\ v.cur = (IF Target(l) THEN <<>> ELSE <<l>>)
              /\ v.mine = Target(l) /\ v.seen = (Target(l) \/ z.seen)
    BY DEF WeaveStep
  <2> QED  BY <1>2, <2>1, Zenon
<1>8. CASE Target(l)
  <2>1. u.mine /\ v.mine /\ u.seen /\ v.seen /\ u.cur = <<>> /\ v.cur = <<>>
    BY <1>6, <1>7, <1>8 DEF Target
  <2>2. Redone(u.out, v.out, "after", b, V)
    <3>1. CASE w.seen
      <4>1. u.out = e /\ v.out = f /\ Mark(w) = "after"
        BY <1>1, <1>6, <1>7, <3>1 DEF Mark
      <4> QED  BY <1>5, <4>1
    <3>2. CASE ~w.seen
      <4>1. u.out = JoinStep(e, k) /\ v.out = JoinStep(f, b) /\ Mark(w) = "before"
        BY <1>1, <1>6, <1>7, <1>8, <3>2 DEF Mark
      <4>2. Redone(e, f, "before", b, V)
        BY <1>5, <4>1
      <4>3. Redone(JoinStep(e, k), JoinStep(f, b), "after", b, V)
        BY <4>2, RedoneBlock
      <4> QED  BY <4>1, <4>3
    <3> QED  BY <3>1, <3>2
  <2>3. Mark(u) = "after" /\ CurIs(u)
    BY <2>1 DEF Mark, CurIs, Plainly
  <2> QED  BY <2>1, <2>2, <2>3 DEF Echoes
<1>9. CASE ~Target(l)
  <2>1. u.out = e /\ v.out = f /\ u.cur = <<l>> /\ v.cur = <<l>>
    BY <1>6, <1>7, <1>9
  <2>2. ~u.mine /\ ~v.mine /\ (u.seen <=> w.seen) /\ (v.seen <=> z.seen)
    BY <1>6, <1>7, <1>9 DEF Target
  <2>3. Mark(u) = Mark(w)
    BY <2>2 DEF Mark
  <2>4. CurIs(u)
    BY <1>9, <2>1, <2>2 DEF CurIs, OneHead
  <2> QED  BY <1>1, <1>5, <2>1, <2>2, <2>3, <2>4 DEF Echoes
<1> QED  BY <1>8, <1>9
LEMMA EchoOn ==
  ASSUME NEW V, NEW k, NEW b \in Seq(Line(V)), NEW w \in Weaves(V), NEW z \in Weaves(V),
         Echoes(w, z, b, V), NEW l \in Line(V), ~IsHeader(l),
         NEW u, u = WeaveStep(w, l, k), NEW v, v = WeaveStep(z, l, b)
  PROVE  Echoes(u, v, b, V)
<1>1. CurIs(w) /\ z.cur = w.cur /\ (z.mine <=> w.mine) /\ (z.seen <=> w.seen)
      /\ Redone(w.out, z.out, Mark(w), b, V)
  BY DEF Echoes
<1>2. /\ u.out = w.out /\ u.mine = w.mine /\ u.seen = w.seen
      /\ u.cur = (IF w.mine /\ IsContent(l) THEN <<>> ELSE Append(w.cur, l))
  <2>1. ~IsHeader(l) =>
      /\ u.out = w.out /\ u.mine = w.mine /\ u.seen = w.seen
      /\ u.cur = (IF w.mine /\ IsContent(l) THEN <<>> ELSE Append(w.cur, l))
    BY DEF WeaveStep
  <2> QED  BY <2>1, Zenon
<1>3. /\ v.out = z.out /\ v.mine = z.mine /\ v.seen = z.seen
      /\ v.cur = (IF z.mine /\ IsContent(l) THEN <<>> ELSE Append(z.cur, l))
  <2>1. ~IsHeader(l) =>
      /\ v.out = z.out /\ v.mine = z.mine /\ v.seen = z.seen
      /\ v.cur = (IF z.mine /\ IsContent(l) THEN <<>> ELSE Append(z.cur, l))
    BY DEF WeaveStep
  <2> QED  BY <2>1, Zenon
<1>4. PICK c \in Seq(Line(V)) : c = w.cur /\ c = z.cur
  BY <1>1, WeaveFields
<1>5. PICK d : d = Append(c, l)
  OBVIOUS
<1>6. d # <<>> /\ DOMAIN d = 1..Len(d) /\ Len(d) = Len(c) + 1 /\ Len(c) \in Nat /\ DOMAIN c = 1..Len(c)
      /\ (\A i \in 1..Len(c) : d[i] = c[i]) /\ d[Len(c) + 1] = l
  BY <1>4, <1>5
<1>7. Headless(c) => Headless(d)
  <2>1. ASSUME Headless(c), NEW i \in 1..Len(d) PROVE ~IsHeader(d[i])
    <3>1. i \in 1..Len(c) \/ i = Len(c) + 1
      BY <1>6
    <3> QED  BY <1>6, <2>1, <3>1 DEF Headless
  <2> QED  BY <1>6, <2>1 DEF Headless
<1>8. OneHead(c) => OneHead(d)
  <2>1. SUFFICES ASSUME OneHead(c) PROVE OneHead(d)
    OBVIOUS
  <2>2. c # <<>> /\ IsHeader(c[1]) /\ ~Target(c[1]) /\ \A i \in 2..Len(c) : ~IsHeader(c[i])
    BY <2>1 DEF OneHead
  <2>3. 1 \in 1..Len(c) /\ d[1] = c[1]
    BY <1>4, <1>6, <2>2
  <2>4. ASSUME NEW i \in 2..Len(d) PROVE ~IsHeader(d[i])
    <3>1. (i \in 1..Len(c) /\ i \in 2..Len(c)) \/ i = Len(c) + 1
      BY <1>6
    <3> QED  BY <1>6, <2>2, <3>1
  <2> QED  BY <1>6, <2>2, <2>3, <2>4 DEF OneHead
<1>9. Plainly(c) /\ ~IsContent(l) => Plainly(d)
  BY <1>4, <1>5, AppendPlainly
<1>10. (u.mine <=> w.mine) /\ (v.mine <=> z.mine) /\ (u.seen <=> w.seen) /\ (v.seen <=> z.seen)
       /\ u.out = w.out /\ v.out = z.out
  BY <1>2, <1>3
<1>11. Mark(u) = Mark(w)
  BY <1>10 DEF Mark
<1>12. CASE w.mine
  <2>1. Plainly(c)
    BY <1>1, <1>4, <1>12 DEF CurIs
  <2>2. CASE IsContent(l)
    <3>1. u.cur = <<>> /\ v.cur = <<>>
      BY <1>1, <1>2, <1>3, <1>12, <2>2
    <3>2. CurIs(u)
      BY <1>10, <1>12, <3>1 DEF CurIs, Plainly
    <3> QED  BY <1>1, <1>10, <1>11, <3>1, <3>2 DEF Echoes
  <2>3. CASE ~IsContent(l)
    <3>1. u.cur = d /\ v.cur = d
      BY <1>2, <1>3, <1>4, <1>5, <2>3
    <3>2. CurIs(u)
      BY <1>9, <1>10, <1>12, <2>1, <2>3, <3>1 DEF CurIs
    <3> QED  BY <1>1, <1>10, <1>11, <3>1, <3>2 DEF Echoes
  <2> QED  BY <2>2, <2>3
<1>13. CASE ~w.mine
  <2>1. u.cur = d /\ v.cur = d
    BY <1>1, <1>2, <1>3, <1>4, <1>5, <1>13
  <2>2. CurIs(u)
    BY <1>1, <1>4, <1>7, <1>8, <1>10, <1>13, <2>1 DEF CurIs
  <2> QED  BY <1>1, <1>10, <1>11, <2>1, <2>2 DEF Echoes
<1> QED  BY <1>12, <1>13

LEMMA EchoText ==
  ASSUME NEW V, NEW k, Block(k, V), NEW b \in Seq(Line(V)), NEW x \in Seq(Line(V))
  PROVE  Echoes(Weave(x, k), Weave(x, b), b, V)
<1>0. k \in Seq(Line(V))
  <2>1. PICK t \in Seq(Writes(V)) : k = <<Header("me")>> \o t
    BY DEF Block
  <2>2. <<>> \in Seq(Line(V))
    OBVIOUS
  <2> QED  BY <2>1, <2>2, BlockCat
<1> DEFINE G == {y \in Seq(Line(V)) : Echoes(Weave(y, k), Weave(y, b), b, V)}
<1>1. <<>> \in G
  <2>1. PICK w, z : w = Weave(<<>>, k) /\ z = Weave(<<>>, b)
    OBVIOUS
  <2>2. /\ w.out = <<>> /\ w.cur = <<>> /\ ~w.mine /\ ~w.seen
        /\ z.out = <<>> /\ z.cur = <<>> /\ ~z.mine /\ ~z.seen
    BY <2>1, WeaveNone
  <2>3. Redone(<<>>, <<>>, "before", b, V)
    BY RedoneNone
  <2>4. Mark(w) = "before" /\ CurIs(w)
    BY <2>2 DEF Mark, CurIs, Headless
  <2>5. Echoes(w, z, b, V)
    BY <2>2, <2>3, <2>4 DEF Echoes
  <2> QED  BY <2>1, <2>5
<1>2. ASSUME NEW y \in Seq(Line(V)), NEW l \in Line(V), y \in G PROVE Append(y, l) \in G
  <2>1. PICK w \in Weaves(V), z \in Weaves(V) : w = Weave(y, k) /\ z = Weave(y, b)
    BY <1>0, WeaveType
  <2>2. Echoes(w, z, b, V)
    BY <1>2, <2>1
  <2>3. PICK u, v : u = WeaveStep(w, l, k) /\ v = WeaveStep(z, l, b)
    OBVIOUS
  <2>4. Weave(Append(y, l), k) = u /\ Weave(Append(y, l), b) = v
    BY <1>0, <2>1, <2>3, WeaveAppend
  <2>5. Echoes(u, v, b, V)
    <3>1. CASE IsHeader(l)
      BY <2>2, <2>3, <3>1, EchoHeader
    <3>2. CASE ~IsHeader(l)
      BY <2>2, <2>3, <3>2, EchoOn
    <3> QED  BY <3>1, <3>2
  <2>6. Append(y, l) \in Seq(Line(V))
    BY AppendIn
  <2> QED  BY <2>4, <2>5, <2>6
<1> HIDE DEF G
<1>3. Seq(Line(V)) \subseteq G
  BY <1>1, <1>2, SeqInducts
<1> QED  BY <1>3 DEF G

\* An edit of an edited text is the edit of the text (editTOML, assembleTOML): the
\* block is where it was, and everything else is as the first edit left it.
THEOREM EditsAgain ==
  ASSUME NEW V, NEW k, Block(k, V), NEW b \in Seq(Line(V)), NEW x \in Seq(Line(V))
  PROVE  Assembled(Assembled(x, k), b) = Assembled(x, b)
<1>0. k \in Seq(Line(V))
  <2>1. PICK t \in Seq(Writes(V)) : k = <<Header("me")>> \o t
    BY DEF Block
  <2>2. <<>> \in Seq(Line(V))
    OBVIOUS
  <2> QED  BY <2>1, <2>2, BlockCat
<1>1. PICK w \in Weaves(V), z \in Weaves(V) : w = Weave(x, k) /\ z = Weave(x, b)
  BY <1>0, WeaveType
<1>2. CurIs(w) /\ z.cur = w.cur /\ (z.seen <=> w.seen) /\ Redone(w.out, z.out, Mark(w), b, V)
  BY <1>1, EchoText DEF Echoes
<1>3. PICK e, f, y : e = Ended(w) /\ f = Ended(z) /\ y = Trimmed(w.cur)
  OBVIOUS
<1>4. Redone(e, f, Mark(w), b, V)
  <2>1. PICK p, s : p = z.out /\ s = Mark(w)
    OBVIOUS
  <2>2. Redone(w.out, p, s, b, V)
    BY <1>2, <2>1
  <2>3. Redone(e, JoinStep(p, y), s, b, V)
    BY <1>2, <1>3, <2>2, RedoneCur
  <2>4. f = JoinStep(p, y)
    BY <1>2, <1>3, <2>1 DEF Ended
  <2> QED  BY <2>1, <2>3, <2>4
<1>5. Assembled(x, k) = (IF w.seen THEN e ELSE JoinStep(e, k))
  BY <1>0, <1>1, <1>3, AssembledIs
<1>6. Assembled(x, b) = (IF w.seen THEN f ELSE JoinStep(f, b))
  <2>1. Assembled(x, b) = (IF z.seen THEN f ELSE JoinStep(f, b))
    BY <1>1, <1>3, AssembledIs
  <2> QED  BY <1>2, <2>1
<1>7. Redone(Assembled(x, k), Assembled(x, b), "after", b, V)
  <2>1. CASE w.seen
    BY <1>4, <1>5, <1>6, <2>1 DEF Mark
  <2>2. CASE ~w.seen
    <3>1. Redone(e, f, "before", b, V)
      BY <1>4, <2>2 DEF Mark
    <3>2. Redone(JoinStep(e, k), JoinStep(f, b), "after", b, V)
      BY <3>1, RedoneBlock
    <3> QED  BY <1>5, <1>6, <2>2, <3>2
  <2> QED  BY <2>1, <2>2
<1>8. PICK g, h : g = Assembled(x, k) /\ h = Assembled(x, b)
  OBVIOUS
<1>9. g \in Seq(Line(V)) /\ Ended(Weave(g, b)) = h /\ Weave(g, b).seen
  BY <1>7, <1>8 DEF Redone, Mark
<1>10. Assembled(g, b) = h
  BY <1>9, AssembledIs
<1> QED  BY <1>8, <1>10

(* ---- a second edit, and a removal after an edit ---- *)
\* The server is a table, or a key of [mcp_servers], and not both.
Single(st) == st.ok /\ Defined(st, "me", "inline") => \A m \in Mine : <<m>> \notin st.doc
LEMMA SingleStep ==
  ASSUME NEW V, NEW st \in State(V), Single(st), NEW l \in FileLines(V), NEW n, n = Scan(st, l)
  PROVE  Single(n)
<1>1. l \in Line(V) /\ (l.kind = "key" => l.key # "inline")
  BY DEF FileLines
<1>2. n \in State(V) /\ (n.ok => st.ok)
  BY <1>1, ScanType
<1>3. CASE n.doc = st.doc
  <2>1. Defined(n, "me", "inline") <=> Defined(st, "me", "inline")
    BY <1>2, <1>3, DefinedSame
  <2> QED  BY <1>2, <1>3, <2>1 DEF Single
<1>4. CASE ~st.in /\ l.kind = "header"
  <2>1. PICK t : t = l.table
    OBVIOUS
  <2>2. /\ n \in State(V) /\ n.table = t /\ n.doc = st.doc \cup {<<t>>} /\ ~n.in /\ n.text = st.text
        /\ n.ok <=> (st.ok /\ ~(<<t>> \in st.doc \/ (t \in Mine /\ Defined(st, "me", "inline"))))
    BY <1>1, <1>4, <2>1, HeaderStep
  <2>3. Defined(n, "me", "inline") <=> Defined(st, "me", "inline")
    BY <1>2, <2>2, DefinedTable
  <2>4. \A m : <<m>> \in n.doc <=> m = t \/ <<m>> \in st.doc
    BY <2>2
  <2>5. n.doc # st.doc \cup {<<t>>} \/ ~n.ok \/ t \notin Mine \/ ~Defined(st, "me", "inline")
    BY <2>2
  <2> QED  BY <2>2, <2>3, <2>4, <2>5 DEF Single
<1>5. CASE ~st.in /\ l.kind = "key"
  <2>1. n = Set(st, l.key, l.value) /\ l.key \in Name /\ l.value \in Value(V)
    BY <1>1, <1>5, ScanKey
  <2>2. PICK k \in Name, v \in Value(V) : k = l.key /\ v = l.value
    BY <2>1
  <2>3. PICK t, c, i : t = TableOf(st, k) /\ c = KeyOf(st, k) /\ i = InlineAt(st, k)
    OBVIOUS
  <2>4. /\ n.doc = st.doc \cup {<<t, c, v>>}
        /\ n.ok <=> st.ok /\ ~Defined(st, t, c) /\ (i => \A m \in Mine : <<m>> \notin st.doc)
        /\ \A x, y : Defined(n, x, y) <=> Defined(st, x, y) \/ (x = t /\ y = c)
    BY <2>1, <2>2, <2>3, SetMore
  <2>5. \A m : <<m>> \in n.doc <=> <<m>> \in st.doc
    BY <2>4, FactApart
  <2>6. i \/ c # "inline"
    BY <1>1, <1>5, <2>2, <2>3 DEF KeyOf
  <2>7. CASE i
    BY <2>4, <2>5, <2>7 DEF Single
  <2>8. CASE c # "inline"
    <3>1. Defined(n, "me", "inline") <=> Defined(st, "me", "inline")
      BY <2>4, <2>8
    <3> QED  BY <1>2, <2>5, <3>1 DEF Single
  <2> QED  BY <2>6, <2>7, <2>8
<1>6. CASE st.in /\ l.kind = "close"
  <2>1. Is(n, V, st.table, <<>>, st.doc \cup {<<st.table, "text", st.text>>})
    BY <1>1, <1>6, ScanClose
  <2>2. PICK t, x : t = st.table /\ x = st.text
    OBVIOUS
  <2>3. n.doc = st.doc \cup {<<t, "text", x>>}
    BY <2>1, <2>2 DEF Is
  <2>4. \A m : <<m>> \in n.doc <=> <<m>> \in st.doc
    BY <2>3, FactApart
  <2>5. \A v : <<"me", "inline", v>> \in n.doc <=> <<"me", "inline", v>> \in st.doc
    BY <2>3, FactApart
  <2>6. Defined(n, "me", "inline") <=> Defined(st, "me", "inline")
    BY <1>2, <2>5, DefinedIs
  <2> QED  BY <1>2, <2>4, <2>6 DEF Single
<1>7. CASE st.in /\ l.kind # "close"
  <2>1. Is(n, V, st.table, Append(st.text, l), st.doc)
    BY <1>1, <1>7, ScanText
  <2> QED  BY <1>3, <2>1 DEF Is
<1>8. CASE ~st.in /\ l.kind \in {"comment", "blank"}
  <2>1. n = st
    BY <1>1, <1>8, ScanRest
  <2> QED  BY <1>3, <2>1
<1>9. CASE ~st.in /\ l.kind = "open"
  <2>1. Is(n, V, st.table, st.text, st.doc)
    BY <1>1, <1>9, ScanOpen
  <2> QED  BY <1>3, <2>1 DEF Is
<1>10. CASE ~st.in /\ l.kind = "close"
  <2>1. Is(n, V, st.table, st.text, st.doc)
    BY <1>1, <1>10, ScanStray
  <2> QED  BY <1>3, <2>1 DEF Is
<1> QED  BY <1>1, <1>4, <1>5, <1>6, <1>7, <1>8, <1>9, <1>10, LineKinds
SingleStates(V) == {st \in State(V) : Single(st)}
LEMMA SingleText ==
  ASSUME NEW V, NEW s \in Seq(FileLines(V)) PROVE Single(Scanned(s))
<1>1. FileLines(V) \in SUBSET Line(V) /\ SingleStates(V) \in SUBSET State(V)
  BY DEF FileLines, SingleStates
<1>2. \A st \in SingleStates(V), l \in FileLines(V) : Scan(st, l) \in SingleStates(V)
  <2>1. SUFFICES ASSUME NEW st \in SingleStates(V), NEW l \in FileLines(V)
                 PROVE Scan(st, l) \in SingleStates(V)
    OBVIOUS
  <2>2. st \in State(V) /\ Single(st)
    BY DEF SingleStates
  <2>3. Scan(st, l) \in State(V)
    BY <1>1, <2>2, ScanType
  <2>4. PICK n : n = Scan(st, l)
    OBVIOUS
  <2>5. Single(n)
    BY <2>2, <2>4, SingleStep
  <2> QED  BY <2>3, <2>4, <2>5 DEF SingleStates
<1>3. Scan0 \in SingleStates(V)
  <2>1. Scan0 \in State(V)
    BY ScanStart
  <2>2. \A m : <<m>> \notin Scan0.doc
    BY DEF Scan0
  <2> QED  BY <2>1, <2>2 DEF SingleStates, Single
<1>4. Scanned(s) \in SingleStates(V)
  BY <1>1, <1>2, <1>3, ScanCarryAll
<1> QED  BY <1>4 DEF SingleStates
\* A header of the server, outside of every string, is in the document.
TableIn(d) == \E m \in Mine : <<m>> \in d
LEMMA TargetIn ==
  ASSUME NEW V, NEW s \in Seq(Line(V)), Clear(s), HasTarget(s) PROVE TableIn(Decode(s))
<1> DEFINE G == {y \in Seq(Line(V)) : Clear(y) /\ HasTarget(y) => TableIn(Decode(y))}
<1>1. <<>> \in G
  BY DEF HasTarget
<1>2. ASSUME NEW y \in Seq(Line(V)), NEW l \in Line(V), y \in G PROVE Append(y, l) \in G
  <2>1. PICK z : z = Append(y, l)
    OBVIOUS
  <2>2. SUFFICES ASSUME Clear(z), HasTarget(z) PROVE TableIn(Decode(z))
    BY <2>1, AppendIn
  <2>3. Clear(y) /\ Plain1(Scanned(y), l)
    BY <2>1, <2>2, ClearAppend
  <2>4. PICK st \in State(V) : st = Scanned(y)
    BY ScannedType
  <2>5. Scanned(z) = Scan(st, l)
    BY <2>1, <2>4, ScannedAppend
  <2>6. HasTarget(y) \/ Target(l)
    <3>1. DOMAIN z = 1..Len(y) + 1 /\ z[Len(y) + 1] = l /\ DOMAIN y = 1..Len(y) /\ Len(y) \in Nat
          /\ \A i \in 1..Len(y) : z[i] = y[i]
      BY <2>1, BeforeAppend
    <3>2. PICK i \in DOMAIN z : Target(z[i])
      BY <2>2 DEF HasTarget
    <3>3. i \in 1..Len(y) \/ i = Len(y) + 1
      BY <3>1
    <3> QED  BY <3>1, <3>2, <3>3 DEF HasTarget
  <2>7. CASE HasTarget(y)
    <3>1. TableIn(st.doc)
      BY <1>2, <2>3, <2>4, <2>7 DEF Decode
    <3>2. st.doc \subseteq Scan(st, l).doc
      BY ScanType
    <3> QED  BY <2>5, <3>1, <3>2 DEF TableIn, Decode
  <2>8. CASE Target(l)
    <3>1. l.kind = "header" /\ IsHeader(l) /\ l.table \in Mine
      BY <2>8 DEF Target, IsHeader
    <3>2. ~st.in
      BY <2>3, <2>4, <2>8, <3>1 DEF Plain1
    <3>3. PICK t, n : t = l.table /\ n = Scan(st, l)
      OBVIOUS
    <3>4. n.doc = st.doc \cup {<<t>>}
      <4>1. ~st.in /\ l.kind = "header" /\ t = l.table /\ n = Scan(st, l)
        BY <3>1, <3>2, <3>3
      <4>2. /\ n \in State(V) /\ n.table = t /\ n.doc = st.doc \cup {<<t>>} /\ ~n.in /\ n.text = st.text
            /\ n.ok <=> (st.ok /\ ~(<<t>> \in st.doc \/ (t \in Mine /\ Defined(st, "me", "inline"))))
        BY <4>1, HeaderStep
      <4> QED  BY <4>2
    <3> QED  BY <2>5, <3>1, <3>3, <3>4 DEF TableIn, Decode
  <2> QED  BY <2>6, <2>7, <2>8
<1> HIDE DEF G
<1>3. Seq(Line(V)) \subseteq G
  BY <1>1, <1>2, SeqInducts
<1> QED  BY <1>3 DEF G

\* What an accepted edit says of the file.
LEMMA NotKeyed ==
  ASSUME NEW V, NEW L \in Seq(FileLines(V)), Valid(L), Clear(L), Entry(Decode(L)) # {} => HasTarget(L)
  PROVE  ~Defined(Scanned(L), "me", "inline")
<1> SUFFICES ASSUME Defined(Scanned(L), "me", "inline") PROVE FALSE
  OBVIOUS
<1>0. L \in Seq(Line(V))
  BY SeqSub DEF FileLines
<1>1. PICK st \in State(V) : st = Scanned(L)
  BY <1>0, ScannedType
<1>2. PICK v \in Value(V) : <<"me", "inline", v>> \in st.doc
  BY <1>1, DefinedIs
<1>3. PICK f : f = <<"me", "inline", v>>
  OBVIOUS
<1>4. f \in Decode(L) /\ f[1] = "me"
  BY <1>1, <1>2, <1>3 DEF Decode
<1>5. Entry(Decode(L)) # {}
  BY <1>4 DEF Entry, Mine
<1>6. TableIn(Decode(L))
  BY <1>0, <1>5, TargetIn
<1>7. Single(st) /\ st.ok
  BY <1>1, SingleText DEF Valid
<1> QED  BY <1>1, <1>6, <1>7 DEF TableIn, Single, Decode
\* Of a file that holds no server, only other tables.
LEMMA NoEntry ==
  ASSUME NEW V, NEW L \in Seq(Line(V)), Clear(L), Entry(Decode(L)) = {}
  PROVE  Others(L) = NonBlank(L)
<1>1. ~HasTarget(L)
  <2>1. SUFFICES ASSUME HasTarget(L) PROVE FALSE
    OBVIOUS
  <2>2. PICK m \in Mine : <<m>> \in Decode(L)
    BY <2>1, TargetIn DEF TableIn
  <2>3. PICK f : f = <<m>>
    OBVIOUS
  <2>4. f[1] = m
    BY <2>3
  <2> QED  BY <2>2, <2>3, <2>4 DEF Entry
<1>2. L \in Seq(Apart(Line(V)))
  BY <1>1, NoTarget
<1> QED  BY <1>2, ForeignOthers
\* What was wrong with the lines so far stays wrong.
LEMMA OkPrefix ==
  ASSUME NEW V, NEW x \in Seq(Line(V)), NEW y \in Seq(Line(V)), Scanned(x \o y).ok
  PROVE  Scanned(x).ok
<1> SUFFICES ASSUME ~Scanned(x).ok PROVE FALSE
  OBVIOUS
<1>1. PICK P : P = {st \in State(V) : ~st.ok}
  OBVIOUS
<1>2. P \in SUBSET State(V) /\ Line(V) \in SUBSET Line(V)
  BY <1>1
<1>3. \A st \in P, l \in Line(V) : Scan(st, l) \in P
  BY <1>1, ScanType
<1>4. Scanned(x) \in P
  BY <1>1, ScannedType
<1>5. Scanned(x \o y) \in P
  BY <1>2, <1>3, <1>4, ScanCarry
<1> QED  BY <1>1, <1>5
LEMMA DefinedPrefix ==
  ASSUME NEW V, NEW x \in Seq(Line(V)), NEW y \in Seq(Line(V)), NEW t, NEW k, Defined(Scanned(x), t, k)
  PROVE  Defined(Scanned(x \o y), t, k)
<1>1. PICK P : P = {st \in State(V) : Defined(st, t, k)}
  OBVIOUS
<1>2. P \in SUBSET State(V) /\ Line(V) \in SUBSET Line(V)
  BY <1>1
<1>3. \A st \in P, l \in Line(V) : Scan(st, l) \in P
  BY <1>1, ScanType, DefinedStays
<1>4. Scanned(x) \in P
  BY <1>1, ScannedType
<1>5. Scanned(x \o y) \in P
  BY <1>2, <1>3, <1>4, ScanCarry
<1> QED  BY <1>1, <1>5
\* An edit with the same value once more.
LEMMA OverlaidTwice ==
  ASSUME NEW F, NEW v
  PROVE  Overlaid(Overlaid(F, v), v) = Overlaid(F, v)
<1>1. PICK G : G = {f \in F : Len(f) = 1 \/ f[1] # "me" \/ f[2] # "command"}
  OBVIOUS
<1>2. PICK x, y : x = <<"me">> /\ y = <<"me", "command", v>>
  OBVIOUS
<1>3. Overlaid(F, v) = G \cup {x, y}
  BY <1>1, <1>2 DEF Overlaid
<1>4. PICK H : H = G \cup {x, y}
  OBVIOUS
<1>5. Overlaid(H, v) = {f \in H : Len(f) = 1 \/ f[1] # "me" \/ f[2] # "command"} \cup {x, y}
  BY <1>2 DEF Overlaid
<1>6. Overlaid(H, v) = H
  BY <1>1, <1>4, <1>5
<1> QED  BY <1>3, <1>4, <1>6

\* The lines after the block, read after it and without it: either nothing but comments and
\* blank lines has come, or the decoder stands alike.
Trails(a, r, c, a0, r0) ==
  \/ Headless(c) /\ a = a0 /\ r = r0
  \/ Sim(a, r, {}) /\ a.table \notin Mine
\* Where the block has been read, and where it has not.
Apiece(a0, r0, X, V) ==
  /\ a0 \in State(V) /\ r0 \in State(V) /\ a0.ok /\ r0.ok /\ ~a0.in /\ ~r0.in
  /\ a0.text = <<>> /\ r0.text = <<>>
  /\ a0.doc = r0.doc \cup X /\ MineFacts(X) /\ Entry(r0.doc) = {}
LEMMA OtherPlaced ==
  ASSUME NEW d, NEW X, MineFacts(X), Entry(d) = {} PROVE Other(d \cup X) = d
BY DEF MineFacts, Entry, Other
LEMMA TrailStep ==
  ASSUME NEW V, NEW a0, NEW r0, NEW X, Apiece(a0, r0, X, V), NEW a \in State(V), NEW r \in State(V),
         NEW c \in Seq(Line(V)), NEW l \in Line(V), ~Target(l), Quiet(Append(c, l)),
         Trails(a, r, c, a0, r0), a.ok, ~a.in => a.text = <<>>,
         NEW n, n = Scan(a, l), NEW m, m = Scan(r, l), n.ok, ~Defined(n, "me", "inline")
  PROVE  Trails(n, m, Append(c, l), a0, r0)
<1>0. MineFacts({})
  BY DEF MineFacts
<1>1. CASE Headless(c) /\ a = a0 /\ r = r0
  <2>1. ~a.in /\ ~r.in /\ a.ok /\ r.ok /\ a.text = <<>> /\ r.text = <<>> /\ a.doc = r.doc \cup X
        /\ MineFacts(X) /\ Entry(r.doc) = {}
    BY <1>1 DEF Apiece
  <2>2. r.doc = Other(a.doc) \cup {}
    BY <2>1, OtherPlaced
  <2>3. CASE IsHeader(l)
    <3>1. Sim(n, m, {}) /\ n.table \notin Mine
      BY <1>0, <2>1, <2>2, <2>3, SimHeader
    <3> QED  BY <3>1 DEF Trails
  <2>4. CASE ~IsHeader(l)
    <3>1. Headless(Append(c, l)) /\ ~IsContent(l)
      BY <1>1, <2>4, QuietAppend
    <3>2. l.kind \in {"comment", "blank"}
      BY <3>1 DEF IsContent
    <3>3. n = a /\ m = r
      BY <2>1, <3>2, ScanRest
    <3> QED  BY <1>1, <3>1, <3>3 DEF Trails
  <2> QED  BY <2>3, <2>4
<1>2. CASE Sim(a, r, {}) /\ a.table \notin Mine
  <2>1. Sim(n, m, {}) /\ n.table \notin Mine
    BY <1>0, <1>2, SimStep
  <2> QED  BY <2>1 DEF Trails
<1> QED  BY <1>1, <1>2 DEF Trails
LEMMA TrailText ==
  ASSUME NEW V, NEW y \in Seq(Line(V)), NEW z \in Seq(Line(V)), NEW a0, NEW r0, NEW X,
         a0 = Scanned(y), r0 = Scanned(z), Apiece(a0, r0, X, V),
         NEW C \in Seq(Apart(Line(V))), Quiet(C),
         Scanned(y \o C).ok, ~Defined(Scanned(y \o C), "me", "inline")
  PROVE  Trails(Scanned(y \o C), Scanned(z \o C), C, a0, r0)
<1> DEFINE Ready(c) == Quiet(c) /\ Scanned(y \o c).ok /\ ~Defined(Scanned(y \o c), "me", "inline")
<1> DEFINE G == {c \in Seq(Apart(Line(V))) : Ready(c) => Trails(Scanned(y \o c), Scanned(z \o c), c, a0, r0)}
<1>0. Apart(Line(V)) \in SUBSET Line(V)
  BY DEF Apart
<1>1. <<>> \in G
  <2>1. y \o <<>> = y /\ z \o <<>> = z
    BY ConcatEmptySeq
  <2>2. Headless(<<>>) /\ <<>> \in Seq(Apart(Line(V)))
    BY DEF Headless
  <2> QED  BY <2>1, <2>2 DEF Trails
<1>2. ASSUME NEW c \in Seq(Apart(Line(V))), NEW l \in Apart(Line(V)), c \in G PROVE Append(c, l) \in G
  <2>1. /\ y \o Append(c, l) = Append(y \o c, l) /\ y \o c \in Seq(Line(V)) /\ l \in Line(V)
        /\ Append(c, l) \in Seq(Apart(Line(V))) /\ c \in Seq(Line(V))
    BY <1>0, CatLast
  <2>2. z \o Append(c, l) = Append(z \o c, l) /\ z \o c \in Seq(Line(V))
    BY <1>0, CatLast
  <2>3. SUFFICES ASSUME Ready(Append(c, l))
                 PROVE Trails(Scanned(y \o Append(c, l)), Scanned(z \o Append(c, l)), Append(c, l), a0, r0)
    BY <2>1
  <2>4. PICK a \in State(V), r \in State(V) : a = Scanned(y \o c) /\ r = Scanned(z \o c)
    BY <2>1, <2>2, ScannedType
  <2>5. PICK n, m : n = Scan(a, l) /\ m = Scan(r, l)
    OBVIOUS
  <2>6. Scanned(y \o Append(c, l)) = n /\ Scanned(z \o Append(c, l)) = m
    BY <2>1, <2>2, <2>4, <2>5, ScannedAppend
  <2>7. n.ok /\ ~Defined(n, "me", "inline") /\ Quiet(Append(c, l))
    BY <2>3, <2>6
  <2>8. Quiet(c)
    BY <2>1, <2>7, QuietAppend
  <2>9. a.ok /\ ~Defined(a, "me", "inline")
    BY <2>1, <2>5, <2>7, ScanType, DefinedStays
  <2>10. Trails(a, r, c, a0, r0)
    BY <1>2, <2>4, <2>8, <2>9
  <2>11. ~a.in => a.text = <<>>
    BY <2>1, <2>4, NoText
  <2>12. ~Target(l)
    BY DEF Apart
  <2>13. Trails(n, m, Append(c, l), a0, r0)
    BY <2>1, <2>5, <2>7, <2>9, <2>10, <2>11, <2>12, TrailStep
  <2> QED  BY <2>6, <2>13
<1>3. Ready(C)
  OBVIOUS
<1> HIDE DEF G, Ready
<1>4. Seq(Apart(Line(V))) \subseteq G
  BY <1>1, <1>2, SeqInducts
<1> QED  BY <1>3, <1>4 DEF G

\* Without its block, an edited text says what it says of everything else.
LEMMA Unplaced ==
  ASSUME NEW V, NEW A \in Seq(Apart(Line(V))), NEW C \in Seq(Apart(Line(V))), Quiet(C),
         NEW b \in Seq(Line(V)), NEW X, Sets(b, X, V), MineFacts(X), ~Scanned(A).in,
         NEW e, e = JoinStep(JoinStep(A, b), C), Scanned(e).ok, ~Scanned(e).in,
         ~Defined(Scanned(e), "me", "inline"), NEW m, m = JoinStep(JoinStep(A, <<>>), C)
  PROVE  Scanned(m).ok /\ ~Scanned(m).in /\ Scanned(m).doc = Other(Scanned(e).doc)
<1>0. A \in Seq(Line(V)) /\ C \in Seq(Line(V)) /\ Blank \in Line(V)
  <2>1. Apart(Line(V)) \in SUBSET Line(V)
    BY DEF Apart
  <2> QED  BY <2>1, SeqSub, BlankIsLine
<1>1. PICK x \in Seq(Line(V)) : x = JoinStep(A, b)
  BY <1>0, JoinStepType
<1>2. PICK p \in {<<>>, <<Blank>>} : x = A \o p \o b
  BY <1>0, <1>1, JoinPad
<1>3. PICK q \in {<<>>, <<Blank>>} : e = x \o q \o C
  BY <1>0, <1>1, JoinPad
<1>4. PICK r \in {<<>>, <<Blank>>} : m = A \o r \o C
  <2>1. m = JoinStep(A, C)
    BY JoinNothing
  <2> QED  BY <1>0, <2>1, JoinPad
<1>5. A \o p \in Seq(Line(V)) /\ x \o q \in Seq(Line(V)) /\ A \o r \in Seq(Line(V))
  BY <1>0, ScanPadType
<1>6. PICK y \in Seq(Line(V)), z \in Seq(Line(V)), u \in Seq(Line(V)) : y = x \o q /\ z = A \o r /\ u = A \o p
  BY <1>5
<1>7. e = y \o C /\ m = z \o C /\ x = u \o b
  BY <1>2, <1>3, <1>4, <1>6
<1>8. Scanned(y \o C).ok /\ ~Defined(Scanned(y \o C), "me", "inline")
  BY <1>7
<1>9. Scanned(y).ok /\ ~Defined(Scanned(y), "me", "inline")
  BY <1>0, <1>8, OkPrefix, DefinedPrefix
<1>10. Scanned(x).ok /\ ~Defined(Scanned(x), "me", "inline")
  <2>1. q \in Seq(Line(V)) /\ y = x \o q
    BY <1>0, <1>6, PadType
  <2>2. Scanned(x \o q).ok /\ ~Defined(Scanned(x \o q), "me", "inline")
    BY <1>9, <2>1
  <2> QED  BY <2>1, <2>2, OkPrefix, DefinedPrefix
<1>11. Scanned(u).ok /\ ~Defined(Scanned(u), "me", "inline")
  <2>1. Scanned(u \o b).ok /\ ~Defined(Scanned(u \o b), "me", "inline")
    BY <1>7, <1>10
  <2> QED  BY <2>1, OkPrefix, DefinedPrefix
<1>12. Scanned(A).ok /\ ~Defined(Scanned(A), "me", "inline")
  <2>1. p \in Seq(Line(V)) /\ u = A \o p
    BY <1>0, <1>6, PadType
  <2>2. Scanned(A \o p).ok /\ ~Defined(Scanned(A \o p), "me", "inline")
    BY <1>11, <2>1
  <2> QED  BY <1>0, <2>1, <2>2, OkPrefix, DefinedPrefix
<1>13. Entry(Scanned(A).doc) = {} /\ Free(Scanned(A))
  <2>1. Bare(Scanned(A))
    BY BareText
  <2> QED  BY <1>12, <2>1 DEF Bare, Free
<1>14. PICK t : Stands(Scanned(x), t, Scanned(A).doc \cup X)
  BY <1>0, <1>1, <1>13, JoinSets
<1>15. Scanned(y) = Scanned(x) /\ Scanned(z) = Scanned(A)
  <2>1. ~Scanned(x).in
    BY <1>14 DEF Stands
  <2>2. Scanned(x \o q) = Scanned(x)
    BY <2>1, ScanPad
  <2>3. Scanned(A \o r) = Scanned(A)
    BY <1>0, ScanPad
  <2> QED  BY <1>6, <2>2, <2>3
<1>16. PICK a0 \in State(V), r0 \in State(V) : a0 = Scanned(y) /\ r0 = Scanned(z)
  BY ScannedType
<1>17. Apiece(a0, r0, X, V)
  <2>1. a0.ok /\ r0.ok /\ ~a0.in /\ ~r0.in /\ a0.doc = r0.doc \cup X /\ Entry(r0.doc) = {}
    BY <1>12, <1>13, <1>14, <1>15, <1>16 DEF Stands
  <2>2. a0.text = <<>> /\ r0.text = <<>>
    BY <1>16, <2>1, NoText
  <2> QED  BY <2>1, <2>2 DEF Apiece
<1>18. Trails(Scanned(y \o C), Scanned(z \o C), C, a0, r0)
  BY <1>8, <1>16, <1>17, TrailText
<1>19. Trails(Scanned(e), Scanned(m), C, a0, r0)
  BY <1>7, <1>18
<1>20. CASE Scanned(e) = a0 /\ Scanned(m) = r0
  <2>1. r0.ok /\ ~r0.in /\ a0.doc = r0.doc \cup X /\ MineFacts(X) /\ Entry(r0.doc) = {}
    BY <1>17 DEF Apiece
  <2>2. Other(a0.doc) = r0.doc
    BY <2>1, OtherPlaced
  <2> QED  BY <1>20, <2>1, <2>2
<1>21. CASE Sim(Scanned(e), Scanned(m), {})
  BY <1>21 DEF Sim
<1> QED  BY <1>19, <1>20, <1>21 DEF Trails
LEMMA WithoutOther ==
  ASSUME NEW d PROVE withoutServer(Other(d)) = withoutServer(d) /\ Entry(Other(d)) = {}
BY DEF withoutServer, Other, Entry
\* The removal of what an edit has put into a text is accepted.
LEMMA Undone ==
  ASSUME NEW V, NEW A \in Seq(Apart(Line(V))), NEW C \in Seq(Apart(Line(V))), Quiet(C),
         NEW b \in Seq(Line(V)), NEW X, Sets(b, X, V), MineFacts(X), ~Scanned(A).in,
         NEW e, e = JoinStep(JoinStep(A, b), C), Valid(e),
         ~Defined(Scanned(e), "me", "inline"), NEW m, m = JoinStep(JoinStep(A, <<>>), C)
  PROVE  guardTOMLEdit(e, m) /\ Entry(Decode(m)) = {}
<1>1. Scanned(e).ok /\ ~Scanned(e).in
  BY DEF Valid
<1>2. Scanned(m).ok /\ ~Scanned(m).in /\ Scanned(m).doc = Other(Scanned(e).doc)
  BY <1>1, Unplaced
<1>3. PICK d : d = Scanned(e).doc
  OBVIOUS
<1>4. withoutServer(Other(d)) = withoutServer(d) /\ Entry(Other(d)) = {}
  BY WithoutOther
<1> QED  BY <1>2, <1>3, <1>4 DEF guardTOMLEdit, Valid, Decode

\* What an accepted edit is like: of the file, and of what is written.
Sure(L, a, b, e, W) ==
  /\ L \in Seq(FileLines(W)) /\ Valid(L) /\ Clear(L) /\ ~Scanned(L).in
  /\ MineFacts(a) /\ Sets(b, a, W) /\ Block(b, W) /\ b \in Seq(Line(W))
  /\ e \in Seq(LfLines(W)) /\ e = Assembled(L, b) /\ Valid(e) /\ Entry(Decode(e)) = a
  /\ <<"me">> \in Decode(e) /\ a # {} /\ HasTarget(e) /\ ~Defined(Scanned(e), "me", "inline")
LEMMA SureEdit ==
  ASSUME NEW V, NEW v \in V, NEW f \in Seq(FileLines(V)), NEW L, L = LF(f), OwnPlain(L),
         NEW W, W = Value(V), NEW a \in Servers(V), NEW b \in Seq(Writes(W)), NEW e \in Seq(LfLines(W)),
         Upserts(L, a, b, e, v), Block(b, W), <<"me">> \in a, Accepts(L, a, e)
  PROVE  Sure(L, a, b, e, W)
<1>1. L \in Seq(FileLines(W)) /\ L \in Seq(Line(V)) /\ L \in Seq(Line(W))
  <2>1. L \in Seq(FileLines(W)) /\ L \in Seq(Line(V))
    BY FileText
  <2> QED  BY <2>1, SeqSub DEF FileLines
<1>2. Valid(L) /\ (Entry(Decode(L)) # {} => HasTarget(L)) /\ guardTOMLEdit(L, e) /\ Entry(Decode(e)) = a
  BY Zenon DEF Accepts
<1>3. a = Overlaid(Entry(Decode(L)), v) /\ b = renderTOMLServer(a) /\ e = Assembled(L, b)
  BY Zenon DEF Upserts
<1>4. <<"me">> \in Decode(e)
  BY <1>2, EntryHas
<1>5. Clear(L)
  BY <1>1, <1>2, <1>3, <1>4, UpsertKeeps
<1>6. ~Defined(Scanned(L), "me", "inline")
  BY <1>1, <1>2, <1>5, NotKeyed
<1>7. Scanned(L).ok /\ ~Scanned(L).in
  BY <1>2 DEF Valid
<1>8. Proper(a)
  BY <1>1, <1>3, <1>6, <1>7, OverlaidProper
<1>9. Sets(b, a, W)
  BY <1>3, <1>8, RenderSets
<1>10. Valid(e)
  BY <1>2 DEF guardTOMLEdit
<1>11. e \in Seq(Line(W)) /\ b \in Seq(Line(W))
  <2>1. LfLines(W) \in SUBSET Line(W) /\ Writes(W) \in SUBSET Line(W)
    BY DEF LfLines, Writes
  <2> QED  BY <2>1, SeqSub
<1>12. ~Defined(Scanned(e), "me", "inline")
  <2>1. SUFFICES ASSUME Defined(Scanned(e), "me", "inline") PROVE FALSE
    OBVIOUS
  <2>2. PICK st \in State(W) : st = Scanned(e)
    BY <1>11, ScannedType
  <2>3. PICK u \in Value(W) : <<"me", "inline", u>> \in st.doc
    BY <2>1, <2>2, DefinedIs
  <2>4. PICK x : x = <<"me", "inline", u>>
    OBVIOUS
  <2>5. x \in Decode(e) /\ x[1] = "me"
    BY <2>2, <2>3, <2>4 DEF Decode
  <2>6. x \in a
    BY <1>2, <2>5 DEF Entry, Mine
  <2> QED  BY <1>8, <2>4, <2>6 DEF Proper
<1>13. HasTarget(e) /\ a # {}
  BY <1>2, <1>11, <1>12, EntryHeader
<1>14. MineFacts(a)
  BY MineEntry
<1> QED  BY <1>1, <1>2, <1>3, <1>4, <1>5, <1>7, <1>9, <1>10, <1>11, <1>12, <1>13, <1>14 DEF Sure
\* The removal of what was put in.
LEMMA SureRemoval ==
  ASSUME NEW W, NEW L, NEW a, NEW b, NEW e, Sure(L, a, b, e, W), NEW m, m = Assembled(e, <<>>)
  PROVE  /\ m = Assembled(L, <<>>) /\ m \in Seq(LfLines(W)) /\ Removes(e, m)
         /\ NonBlank(m) = Others(L)
<1>0. /\ L \in Seq(FileLines(W)) /\ Valid(L) /\ Clear(L) /\ ~Scanned(L).in
      /\ MineFacts(a) /\ Sets(b, a, W) /\ Block(b, W) /\ b \in Seq(Line(W))
      /\ e \in Seq(LfLines(W)) /\ e = Assembled(L, b) /\ Valid(e) /\ Entry(Decode(e)) = a
      /\ <<"me">> \in Decode(e) /\ a # {} /\ HasTarget(e) /\ ~Defined(Scanned(e), "me", "inline")
  BY DEF Sure
<1>1. L \in Seq(Line(W)) /\ <<>> \in Seq(Line(W)) /\ <<>> \in Seq(LfLines(W))
  BY <1>0, SeqSub DEF FileLines
<1>2. m = Assembled(L, <<>>)
  <2>1. PICK n \in Seq(Line(W)) : n = <<>>
    BY <1>1
  <2>2. Block(b, W)
    BY <1>0
  <2>3. Assembled(Assembled(L, b), n) = Assembled(L, n)
    BY <1>1, <2>2, EditsAgain
  <2> QED  BY <1>0, <2>1, <2>3
<1>3. m \in Seq(LfLines(W))
  BY <1>0, <1>1, EditLf
<1>4. FileLines(W) \in SUBSET Line(W) /\ Blank \in FileLines(W)
  BY FileLineIs
<1>5. PICK A, C : Shape(L, A, C, FileLines(W), W)
  BY <1>0, <1>4, AssembledShape
<1>6. /\ A \in Seq(Apart(FileLines(W))) /\ C \in Seq(Apart(FileLines(W))) /\ Quiet(C)
      /\ e = JoinStep(JoinStep(A, b), C) /\ m = JoinStep(JoinStep(A, <<>>), C)
  BY <1>0, <1>1, <1>2, <1>5 DEF Shape
<1>7. ~Scanned(A).in
  <2>1. <<"me">> \in Decode(JoinStep(JoinStep(A, b), C))
    BY <1>0, <1>6
  <2> QED  BY <1>0, <1>6, <2>1, EditCalm
<1>8. A \in Seq(Apart(Line(W))) /\ C \in Seq(Apart(Line(W)))
  <2>1. Apart(FileLines(W)) \in SUBSET Apart(Line(W))
    BY FileLineIs
  <2> QED  BY <1>6, <2>1, SeqSub
<1>9. guardTOMLEdit(e, m) /\ Entry(Decode(m)) = {}
  BY <1>0, <1>6, <1>7, <1>8, Undone
<1>10. Removes(e, m)
  BY <1>0, <1>9 DEF Removes
<1>11. NonBlank(m) = Others(L)
  BY <1>0, <1>1, <1>2, RemovalKeeps
<1> QED  BY <1>2, <1>3, <1>10, <1>11

\* Writing an edited text back in the ending it has.
LEMMA RestoredAgain ==
  ASSUME NEW V, NEW e \in Seq(LfLines(V)), e # <<>>, NEW u, u = e \/ u = CRLF(e)
  PROVE  restoreLineEndings(u, e) = u /\ Uniform(u) /\ u \in Seq(Line(V))
<1>1. e \in Seq(Line(V)) /\ EndsIn(e, "lf")
  <2>1. e \in Seq(Line(V))
    BY WrittenLf
  <2> QED  BY <2>1, LfText
<1>2. CASE u = e
  <2>1. \A i \in DOMAIN u : u[i].eol = "lf"
    BY <1>1, <1>2 DEF EndsIn
  <2>2. 1 \in DOMAIN u
    BY <1>1, <1>2
  <2>3. ~\A i \in DOMAIN u : u[i].eol = "crlf"
    BY <2>1, <2>2
  <2>4. restoreLineEndings(u, e) = e
    BY <2>1, <2>3 DEF restoreLineEndings
  <2> QED  BY <1>1, <1>2, <2>1, <2>4 DEF Uniform
<1>3. CASE u = CRLF(e)
  <2>1. u = Endings(e, "crlf")
    BY <1>3, EndingsIs
  <2>2. "crlf" \in Eols
    BY DEF Eols
  <2>3. u \in Seq(Line(V)) /\ DOMAIN u = DOMAIN e /\ DOMAIN e = 1..Len(e)
        /\ \A i \in 1..Len(e) : u[i].eol = "crlf"
    BY <1>1, <2>1, <2>2, EndingsType
  <2>4. 1 \in DOMAIN u /\ \A i \in DOMAIN u : u[i].eol = "crlf"
    BY <1>1, <2>3
  <2>5. ~\A i \in DOMAIN u : u[i].eol = "lf"
    BY <2>4
  <2>6. restoreLineEndings(u, e) = CRLF(e)
    BY <2>4, <2>5 DEF restoreLineEndings
  <2> QED  BY <1>3, <2>3, <2>4, <2>6 DEF Uniform
<1> QED  BY <1>2, <1>3
\* An accepted edit, piece by piece.
LEMMA SureParts ==
  ASSUME NEW V, NEW v \in V, NEW f \in Seq(FileLines(V)), NEW L, L = LF(f), OwnPlain(L),
         NEW W, W = Value(V), NEW up, up = upsertTOMLServer(f, v), up # Refused
  PROVE  \E a, b, e : /\ Sure(L, a, b, e, W) /\ Upserts(L, a, b, e, v)
                      /\ (up = e \/ up = CRLF(e)) /\ LF(up) = e
<1>1. PICK a, b, e : /\ Upserts(L, a, b, e, v) /\ a \in Servers(V) /\ Block(b, W)
                     /\ b \in Seq(Writes(W)) /\ <<"me">> \in a /\ e \in Seq(LfLines(W))
  BY UpsertParts
<1>2. up = IF Accepts(L, a, e) THEN restoreLineEndings(f, e) ELSE Refused
  BY <1>1, UpsertIs
<1>3. Accepts(L, a, e) /\ up = restoreLineEndings(f, e)
  BY <1>2
<1>4. up = e \/ up = CRLF(e)
  BY <1>3, RestoredIs
<1>5. LF(up) = e
  BY <1>1, <1>4, RewrittenOut DEF Rewritten
<1>6. Sure(L, a, b, e, W)
  BY <1>1, <1>3, SureEdit
<1> QED  BY <1>1, <1>4, <1>5, <1>6
\* The same edit once more.
LEMMA SureAgain ==
  ASSUME NEW W, NEW v, NEW L, NEW a, NEW b, NEW e, Sure(L, a, b, e, W), Upserts(L, a, b, e, v),
         NEW up, up = e \/ up = CRLF(e), LF(up) = e
  PROVE  upsertTOMLServer(up, v) = up
<1>0. /\ L \in Seq(FileLines(W)) /\ Block(b, W) /\ b \in Seq(Line(W))
      /\ e \in Seq(LfLines(W)) /\ Valid(e) /\ Entry(Decode(e)) = a /\ HasTarget(e)
  BY DEF Sure
<1>1. a = Overlaid(Entry(Decode(L)), v) /\ b = renderTOMLServer(a) /\ e = Assembled(L, b)
  BY Zenon DEF Upserts
<1>2. Overlaid(a, v) = a
  BY <1>1, OverlaidTwice
<1>3. Assembled(e, b) = e
  <2>1. L \in Seq(Line(W))
    BY <1>0, SeqSub DEF FileLines
  <2>2. Assembled(Assembled(L, b), b) = Assembled(L, b)
    BY <1>0, <2>1, EditsAgain
  <2> QED  BY <1>1, <2>2
<1>4. Upserts(e, a, b, e, v)
  BY <1>0, <1>1, <1>2, <1>3, Zenon DEF Upserts
<1>5. guardTOMLEdit(e, e)
  BY <1>0 DEF guardTOMLEdit
<1>6. Accepts(e, a, e)
  BY <1>0, <1>5 DEF Accepts
<1>7. upsertTOMLServer(up, v) = restoreLineEndings(up, e)
  <2>1. upsertTOMLServer(up, v) = IF Accepts(e, a, e) THEN restoreLineEndings(up, e) ELSE Refused
    BY <1>4, UpsertIs
  <2> QED  BY <1>6, <2>1
<1>8. e # <<>>
  BY <1>0 DEF HasTarget
<1> QED  BY <1>0, <1>7, <1>8, RestoredAgain
\* The removal once more.
LEMMA SureBack ==
  ASSUME NEW W, NEW L, NEW a, NEW b, NEW e, Sure(L, a, b, e, W),
         NEW up, up = e \/ up = CRLF(e), LF(up) = e, NEW back, back = removeTOMLServer(up)
  PROVE  /\ back # Refused
         /\ (Entry(Decode(L)) = {} => NonBlank(LF(back)) = NonBlank(L))
<1>0. /\ L \in Seq(FileLines(W)) /\ Clear(L) /\ e \in Seq(LfLines(W)) /\ Entry(Decode(e)) = a
      /\ HasTarget(e) /\ a # {}
  BY DEF Sure
<1>1. PICK m : m = Assembled(e, <<>>)
  OBVIOUS
<1>2. m \in Seq(LfLines(W)) /\ Removes(e, m) /\ NonBlank(m) = Others(L)
  BY <1>1, SureRemoval
<1>3. back = restoreLineEndings(up, m)
  <2>1. back = IF Valid(e) /\ Entry(Decode(e)) = {} THEN up
               ELSE IF Removes(e, m) THEN restoreLineEndings(up, m) ELSE Refused
    BY <1>1, RemoveIs
  <2> QED  BY <1>0, <1>2, <2>1
<1>4. e # <<>>
  BY <1>0 DEF HasTarget
<1>5. Uniform(up) /\ up \in Seq(Line(W))
  BY <1>0, <1>4, RestoredAgain
<1>6. back = m \/ back = CRLF(m)
  BY <1>3, <1>5, RestoredUniform
<1>7. Rewritten(back, m, W)
  BY <1>2, <1>6, RewrittenOut
<1>8. LF(back) = m /\ back \in Seq(Line(W))
  BY <1>7 DEF Rewritten
<1>9. back # Refused
  BY <1>8, NotRefused
<1>10. L \in Seq(Line(W))
  BY <1>0, SeqSub DEF FileLines
<1>11. Entry(Decode(L)) = {} => Others(L) = NonBlank(L)
  BY <1>0, <1>10, NoEntry
<1> QED  BY <1>2, <1>8, <1>9, <1>11

\* Editing settles: the same edit once more writes the same file, the removal after
\* an edit is accepted, and if the file had no entry before, the edit and
\* the removal leave every line that is not blank (upsertTOMLServer, removeTOMLServer).
THEOREM SettledEdits ==
  ASSUME NEW V, "new" \in V, NEW f \in Seq(FileLines(V)), OwnPlain(LF(f))
  PROVE  Settled(f)
<1>1. PICK up, back, L, W : /\ up = upsertTOMLServer(f, "new") /\ back = removeTOMLServer(up)
                            /\ L = LF(f) /\ W = Value(V)
  OBVIOUS
<1>2. SUFFICES ASSUME up # Refused
               PROVE  /\ upsertTOMLServer(up, "new") = up /\ back # Refused
                      /\ (Entry(Decode(L)) = {} => NonBlank(LF(back)) = NonBlank(L))
  BY <1>1 DEF Settled
<1>3. PICK a, b, e : /\ Sure(L, a, b, e, W) /\ Upserts(L, a, b, e, "new")
                     /\ (up = e \/ up = CRLF(e)) /\ LF(up) = e
  BY <1>1, <1>2, SureParts
<1>4. upsertTOMLServer(up, "new") = up
  BY <1>3, SureAgain
<1>5. back # Refused /\ (Entry(Decode(L)) = {} => NonBlank(LF(back)) = NonBlank(L))
  BY <1>1, <1>3, SureBack
<1> QED  BY <1>4, <1>5
\* No file of the checks refutes that editing settles.
LEMMA NoneUnsettled == Unsettled = {}
<1>1. \A f \in Files : Settled(f)
  <2>1. SUFFICES ASSUME NEW f \in Files PROVE Settled(f)
    OBVIOUS
  <2>2. f \in Seq(FileLines(News)) /\ OwnPlain(LF(f))
    BY FilesFit DEF Fits
  <2>3. "new" \in News
    BY DEF News
  <2> QED  BY <2>2, <2>3, SettledEdits
<1> QED  BY <1>1 DEF Unsettled

\* The edits of the files of the checks are exact, whatever the commands do
\* (upsertTOMLServer, removeTOMLServer).
THEOREM TomlExact == Spec => []TomlEditExact
<1>1. TomlEditExact
  BY NoneMisedited DEF TomlEditExact
<1> QED  BY <1>1, PTL

\* And they settle.
THEOREM TomlSettles == Spec => []TomlEditsSettle
<1>1. TomlEditsSettle
  BY NoneUnsettled DEF TomlEditsSettle
<1> QED  BY <1>1, PTL
==============================================================================
