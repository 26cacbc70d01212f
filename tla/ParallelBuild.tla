---------------------------- MODULE ParallelBuild ----------------------------
(***************************************************************************)
(* BuildAll (pkg/builder/builder.go): the builds of several agents, one    *)
(* after the other or in goroutines.  The caller takes a place in the      *)
(* channel `sem' before it starts a goroutine, and only when all have been *)
(* started does it read the results; a goroutine gives its place back      *)
(* after it has sent its result.                                           *)
(***************************************************************************)
EXTENDS Naturals, Sequences, FiniteSets

CONSTANTS
  Defs,          \* the agents to build
  Limits         \* values of --parallelism

ASSUME BuildAssumption == IsFiniteSet(Defs) /\ Limits \subseteq Nat

VARIABLES
  limit,
  unstarted,     \* agents the caller's first loop has still to go through
  sem,           \* places taken
  worker,        \* per agent: "none", "building", "sending", "leaving", "gone"
  results,       \* the channel: <<agent, whether it was built>>
  received,
  failures,      \* what the error will name
  made,          \* agents whose binary is this build's
  verdict        \* "none", "ok" or "error"

buildVars == <<limit, unstarted, sem, worker, results, received, failures, made, verdict>>

Parallel == limit > 1 /\ Cardinality(Defs) > 1

BuildInit ==
  /\ limit \in Limits
  /\ unstarted = Defs
  /\ sem = 0
  /\ worker = [d \in Defs |-> "none"]
  /\ results = <<>>
  /\ received = 0
  /\ failures = {} /\ made = {}
  /\ verdict = IF Defs = {} THEN "ok" ELSE "none"

\* Mutant: a channel that holds one result.
ChannelOfOne == 1

\* The capacity of `results'.
Capacity == Cardinality(Defs)

\* Build either leaves a new binary, or an error and whatever was there.
Built(d, ok) == made' = IF ok THEN made \cup {d} ELSE made

\* The first error ends a sequential build.
BuildNext(d, ok) ==
  /\ ~Parallel /\ verdict = "none" /\ d \in unstarted
  /\ Built(d, ok)
  /\ unstarted' = unstarted \ {d}
  /\ failures' = IF ok THEN failures ELSE {d}
  /\ verdict' = CASE ~ok -> "error"
                  [] ok /\ unstarted = {d} -> "ok"
                  [] OTHER -> "none"
  /\ UNCHANGED <<limit, sem, worker, results, received>>

StartWorker(d) ==
  /\ Parallel /\ d \in unstarted /\ sem < limit
  /\ unstarted' = unstarted \ {d}
  /\ sem' = sem + 1
  /\ worker' = [worker EXCEPT ![d] = "building"]
  /\ UNCHANGED <<limit, results, received, failures, made, verdict>>

FinishBuild(d, ok) ==
  /\ worker[d] = "building"
  /\ Built(d, ok)
  /\ worker' = [worker EXCEPT ![d] = "sending"]
  /\ UNCHANGED <<limit, unstarted, sem, results, received, failures, verdict>>

Send(d) ==
  /\ worker[d] = "sending" /\ Len(results) < Capacity
  /\ results' = Append(results, <<d, d \in made>>)
  /\ worker' = [worker EXCEPT ![d] = "leaving"]
  /\ UNCHANGED <<limit, unstarted, sem, received, failures, made, verdict>>

\* The deferred receive from sem.
Leave(d) ==
  /\ worker[d] = "leaving"
  /\ sem' = sem - 1
  /\ worker' = [worker EXCEPT ![d] = "gone"]
  /\ UNCHANGED <<limit, unstarted, results, received, failures, made, verdict>>

Receive ==
  /\ Parallel /\ unstarted = {} /\ verdict = "none" /\ results # <<>>
  /\ received' = received + 1
  /\ failures' = IF Head(results)[2] THEN failures ELSE failures \cup {Head(results)[1]}
  /\ results' = Tail(results)
  /\ verdict' = CASE received' < Cardinality(Defs) -> "none"
                  [] received' = Cardinality(Defs) /\ failures' = {} -> "ok"
                  [] OTHER -> "error"
  /\ UNCHANGED <<limit, unstarted, sem, worker, made>>

Worker(d) == StartWorker(d) \/ (\E ok \in BOOLEAN : FinishBuild(d, ok)) \/ Send(d) \/ Leave(d)

BuildAll ==
  \/ \E d \in Defs, ok \in BOOLEAN : BuildNext(d, ok)
  \/ \E d \in Defs : Worker(d)
  \/ Receive

(* ---- properties ---- *)

\* The caller is not waiting: for a place while there are agents to start, for a
\* result afterwards.
CallerCanGoOn ==
  IF unstarted # {} THEN Parallel => sem < limit ELSE results # <<>>

\* A goroutine builds, sends its result if there is room, and leaves.
WorkerCanGoOn(d) ==
  worker[d] \in {"building", "leaving"} \/ (worker[d] = "sending" /\ Len(results) < Capacity)

\* Until BuildAll returns, the caller or one of the goroutines can go on.
BuildNeverStuck == verdict = "none" => CallerCanGoOn \/ \E d \in Defs : WorkerCanGoOn(d)

\* Success means that every agent has its new binary; an error names the agents
\* that have none, all of them when the builds ran in parallel.
VerdictIsTrue ==
  /\ verdict = "ok" => made = Defs
  /\ verdict = "error" =>
       /\ failures # {} /\ failures \cap made = {}
       /\ Parallel => failures = Defs \ made

\* Until BuildAll returns its caller or a goroutine can go on, more agents than
\* places or not: they never all wait for each other; and what it returns is true,
\* no result is lost between them.
BuildAllSound == BuildNeverStuck /\ VerdictIsTrue

(* ---- the inductive invariant ---- *)

BuildTypeOK ==
  /\ limit \in Nat /\ unstarted \subseteq Defs /\ sem \in Nat
  /\ worker \in [Defs -> {"none", "building", "sending", "leaving", "gone"}]
  /\ results \in Seq(Defs \X BOOLEAN)
  /\ received \in Nat /\ failures \subseteq Defs /\ made \subseteq Defs
  /\ verdict \in {"none", "ok", "error"}

\* In turn: what has been gone through is built, until an error.
InTurn ==
  /\ \A d \in Defs : worker[d] = "none"
  /\ verdict = "none" => made = Defs \ unstarted /\ unstarted # {} /\ failures = {}
  /\ verdict = "ok" => made = Defs
  /\ verdict = "error" => failures # {} /\ failures \cap made = {}

Active == {d \in Defs : worker[d] \in {"building", "sending", "leaving"}}
Sent == {d \in Defs : worker[d] \in {"leaving", "gone"}}

\* In goroutines: places are taken by those that have started and not left; what
\* was sent is in the channel or was received, and is true; BuildAll has returned
\* when it has received as many results as there are agents.
InGoroutines ==
  /\ \A d \in Defs : worker[d] = "none" <=> d \in unstarted
  /\ sem = Cardinality(Active)
  /\ Len(results) + received = Cardinality(Sent)
  /\ \A k \in DOMAIN results :
       results[k][1] \in Sent /\ (results[k][2] <=> results[k][1] \in made)
  /\ failures \subseteq Sent \ made
  /\ \A d \in Sent \ made : d \in failures \/ \E k \in DOMAIN results : results[k][1] = d
  /\ verdict = "none" <=> received < Cardinality(Defs)
  /\ verdict = "ok" => failures = {}
  /\ verdict = "error" => failures # {}

BuildInv == BuildTypeOK /\ IF Parallel THEN InGoroutines ELSE InTurn

BuildSpec == BuildInit /\ [][BuildAll]_buildVars
==============================================================================
