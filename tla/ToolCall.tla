------------------------------- MODULE ToolCall -------------------------------
(***************************************************************************)
(* One tool call of an agent's MCP server, from the request to the answer  *)
(* (pkg/mcp/bridge.go, pkg/tools/executor.go, pkg/builtins/bash.go).  The  *)
(* call of a CLI tool or of run_command starts a child in a process group  *)
(* of its own; the child may leave a helper behind, in its group or in a   *)
(* session of its own, which holds the output pipes open.  What ends the   *)
(* call is a race between the child, the pipes, the deadline, and the      *)
(* WaitDelay after which os/exec closes the pipes; pkg/tools/              *)
(* procgroup_unix.go arms it.  The other built-in tools run in the server, *)
(* where nothing can end them: they return when they have what they want,  *)
(* or find out about their deadline if they ask (glob and grep); the tools *)
(* of the agent's memory have no deadline.                                 *)
(*                                                                         *)
(* Time passes in ticks.  What the server and os/exec do takes no time: a  *)
(* tick waits for them.  What falls into one tick happens in any order.    *)
(* Processes do what they like, except that a killed one dies, and so do   *)
(* handlers.  Calls share nothing but the machine, so one call stands for  *)
(* all.                                                                    *)
(***************************************************************************)
EXTENDS Integers, Shaper, CommandLine

CONSTANTS
  Calls,               \* records [kind, legal, allowed, toolTimeout, maxCommand, requested]
  DefaultTimeout,      \* of a tool, in ticks
  DefaultCommand,      \* what run_command uses when no timeout is asked for
  WaitDelay,           \* from the deadline or the exit to the closing of the pipes
  Margin,              \* runtimeTimeoutMargin
  MaxTime              \* bound on the clock

ASSUME TimesAssumption ==
  /\ DefaultTimeout \in Nat \ {0} /\ DefaultCommand \in Nat \ {0}
  /\ WaitDelay \in Nat \ {0} /\ Margin \in Nat /\ MaxTime \in Nat
  /\ WaitDelay < Margin

ASSUME CallsAssumption ==
  Calls \subseteq [kind : {"cli", "run_command", "handler", "memory"}, legal : BOOLEAN,
                   allowed : BOOLEAN, toolTimeout : Int, maxCommand : Nat \ {0},
                   requested : Int]

Never == -1
Later(a, b) == IF a > b THEN a ELSE b
Sooner(a, b) == IF a < b THEN a ELSE b

VARIABLES
  call,
  now,
  phase,      \* "asked", "running", "reaped", "draining", "returned", "answered"
  child,      \* "none", "alive", "exit0", "exit1", "killed"
  helper,     \* "none", "group", "daemon", "gone"
  pipes,      \* "open" or "closed" by os/exec
  expired,    \* the context's deadline has fired
  cancelled,  \* what the watcher of the context did: "no", "killed", "late"
  delay,      \* when the WaitDelay timer fires, or Never
  err,        \* what Run returns: "none", "context", "exit", "waitDelay"
  answer,     \* "none", "ok", "timedOut", "failed", "refused"
  finished    \* history: when the child had exited with 0 and the pipes were done

vars == <<call, now, phase, child, helper, pipes, expired, cancelled, delay, err,
          answer, finished>>

Subprocess == call.kind \in {"cli", "run_command"}

\* runBuiltin: a Handler without a context has no deadline.
HasDeadline == call.kind # "memory"

(* ---- limits ---- *)

\* NewExecutor.
ToolTimeout(c) == IF c.toolTimeout = 0 THEN DefaultTimeout ELSE c.toolTimeout

\* A request of 0 stands for none.
commandTimeout(c) ==
  Sooner(IF c.requested > 0 THEN c.requested ELSE DefaultCommand, c.maxCommand)

\* Mutant: run_command is limited like any other tool.
ToolLimit(c) == ToolTimeout(c)

\* The limit runBuiltin sets around run_command.
OuterLimit(c) == Later(ToolTimeout(c), c.maxCommand)

\* The deadline of a call that has one.
Limit(c) ==
  IF c.kind = "run_command" THEN Sooner(OuterLimit(c), commandTimeout(c)) ELSE ToolTimeout(c)

\* Mutant: the limit of run_command is left out.
runtimeToolTimeout(c) ==
  (IF c.toolTimeout > 0 THEN c.toolTimeout ELSE DefaultTimeout) + Margin

\* What install writes as the runtime's own timeout: from the agent's manifest,
\* which also lists run_command when this call is of another tool.
runtimeTimeout(c) ==
  LET tool == IF c.toolTimeout > 0 THEN c.toolTimeout ELSE DefaultTimeout
  IN (IF c.kind = "run_command" THEN Later(tool, c.maxCommand) ELSE tool) + Margin

(* ---- processes ---- *)

Dead == child \in {"exit0", "exit1", "killed"}
Eof == pipes = "closed" \/ (Dead /\ helper \in {"none", "gone"})

\* When a call is done with: its child succeeded and nobody holds its pipes.
Finishing == finished' = IF finished = Never /\ child' = "exit0"
                            /\ helper' \in {"none", "gone"}
                         THEN now ELSE finished

Init ==
  /\ call \in Calls
  /\ now = 0
  /\ phase = "asked"
  /\ child = "none" /\ helper = "none" /\ pipes = "open"
  /\ expired = FALSE /\ cancelled = "no" /\ delay = Never
  /\ err = "none" /\ answer = "none" /\ finished = Never

Answered(a) == phase' = "answered" /\ answer' = a

\* The input does not fit the schema, or the policy or the sandbox refuses.
Refuse ==
  /\ phase = "asked"
  /\ ~call.legal \/ ~call.allowed
  /\ Answered("refused")
  /\ UNCHANGED <<call, now, child, helper, pipes, expired, cancelled, delay, err, finished>>

Runs == phase = "asked" /\ call.legal /\ call.allowed

\* The command cannot be started.
NotFound ==
  /\ Runs /\ Subprocess /\ Limit(call) > 0
  /\ Answered("failed")
  /\ UNCHANGED <<call, now, child, helper, pipes, expired, cancelled, delay, err, finished>>

\* os/exec starts nothing once the context is done.
TooLate ==
  /\ Runs /\ Subprocess /\ Limit(call) <= 0
  /\ Answered("timedOut")
  /\ UNCHANGED <<call, now, child, helper, pipes, expired, cancelled, delay, err, finished>>

\* The handler, or the child.
Start ==
  /\ Runs
  /\ Subprocess => Limit(call) > 0
  /\ phase' = "running"
  /\ child' = IF Subprocess THEN "alive" ELSE "none"
  /\ UNCHANGED <<call, now, helper, pipes, expired, cancelled, delay, err, answer, finished>>

(* ---- the processes of the call ---- *)

Fork(kind) ==
  /\ child = "alive" /\ helper = "none"
  /\ helper' = kind
  /\ UNCHANGED <<call, now, phase, child, pipes, expired, cancelled, delay, err, answer,
                 finished>>

Exit(status) ==
  /\ child = "alive"
  /\ child' = status
  /\ UNCHANGED helper
  /\ Finishing
  /\ UNCHANGED <<call, now, phase, pipes, expired, cancelled, delay, err, answer>>

HelperEnds ==
  /\ helper \in {"group", "daemon"}
  /\ helper' = "gone"
  /\ UNCHANGED child
  /\ Finishing
  /\ UNCHANGED <<call, now, phase, pipes, expired, cancelled, delay, err, answer>>

\* A handler that runs in the server returns, whenever it likes; what it returned
\* without an error is an answer also when its deadline is over.
HandlerReturns(a) ==
  /\ phase = "running" /\ ~Subprocess
  /\ a = "timedOut" => expired
  /\ a = "failed" => ~expired
  /\ Answered(a)
  /\ UNCHANGED <<call, now, child, helper, pipes, expired, cancelled, delay, err, finished>>

(* ---- os/exec ---- *)

Waiting == phase \in {"running", "reaped", "draining", "returned"}

Expire ==
  /\ HasDeadline /\ Waiting /\ ~expired /\ now >= Limit(call)
  /\ expired' = TRUE
  /\ UNCHANGED <<call, now, phase, child, helper, pipes, cancelled, delay, err, answer,
                 finished>>

GroupKilled ==
  /\ child' = IF child = "alive" THEN "killed" ELSE child
  /\ helper' = IF helper = "group" THEN "gone" ELSE helper

\* cmd.Cancel: kill(-pgid) finds the group while the child is not reaped, or the
\* helper is in it.
Cancel ==
  LET found == phase = "running" \/ helper = "group"
  IN /\ Subprocess /\ phase \in {"running", "reaped"} /\ expired /\ cancelled = "no"
     /\ cancelled' = IF found THEN "killed" ELSE "late"
     /\ delay' = now + WaitDelay
     /\ IF found THEN GroupKilled ELSE UNCHANGED <<child, helper>>
     /\ UNCHANGED <<call, now, phase, pipes, expired, err, answer, finished>>

\* Process.Wait returns.
Reap ==
  /\ Subprocess /\ phase = "running" /\ Dead
  /\ phase' = "reaped"
  /\ UNCHANGED <<call, now, child, helper, pipes, expired, cancelled, delay, err, answer,
                 finished>>

\* Mutant: only the deadline starts the WaitDelay timer.
NoDelay == delay' = IF delay = Never THEN MaxTime + WaitDelay ELSE delay

\* The timer starts now unless the watcher has started it.
StartDelay == delay' = IF delay = Never THEN now + WaitDelay ELSE delay

\* Wait takes over from the watcher.
HandOver ==
  /\ phase = "reaped"
  /\ phase' = "draining"
  /\ err' = CASE child # "exit0" -> "exit"
              [] child = "exit0" /\ cancelled = "killed" -> "context"
              [] OTHER -> "none"
  /\ StartDelay
  /\ UNCHANGED <<call, now, child, helper, pipes, expired, cancelled, answer, finished>>

\* The copying goroutines saw the end of the output.
Drained ==
  /\ phase = "draining" /\ Eof
  /\ phase' = "returned"
  /\ UNCHANGED <<call, now, child, helper, pipes, expired, cancelled, delay, err, answer,
                 finished>>

\* Or WaitDelay is over.
ClosePipes ==
  /\ phase = "draining" /\ now >= delay
  /\ phase' = "returned"
  /\ pipes' = "closed"
  /\ err' = IF err = "none" THEN "waitDelay" ELSE err
  /\ UNCHANGED <<call, now, child, helper, expired, cancelled, delay, answer, finished>>

\* Mutant: what the command left behind is not killed.
HelperStays == UNCHANGED helper

KillProcessGroup == helper' = IF helper = "group" THEN "gone" ELSE helper

\* Mutant: an error of the command is taken for that of its deadline.
AnswerAnyError ==
  LET e == IF err = "waitDelay" /\ child = "exit0" /\ ~expired THEN "none" ELSE err
  IN /\ phase = "returned"
     /\ KillProcessGroup
     /\ Answered(IF e # "none" THEN "timedOut" ELSE "ok")
     /\ UNCHANGED <<call, now, child, pipes, expired, cancelled, delay, err, finished>>

\* KillProcessGroup, and what is made of Run's error: only here does one of the
\* two callers differ from the other.
Answer ==
  LET e == IF err = "waitDelay" /\ child = "exit0" /\ ~expired THEN "none" ELSE err
  IN /\ phase = "returned"
     /\ KillProcessGroup
     /\ Answered(CASE expired /\ (e # "none" \/ call.kind = "run_command") -> "timedOut"
                   [] ~expired /\ e # "none" -> "failed"
                   [] OTHER -> "ok")
     /\ UNCHANGED <<call, now, child, pipes, expired, cancelled, delay, err, finished>>

(* ---- time ---- *)

\* The server has something to do at this instant.
Busy ==
  \/ phase \in {"asked", "reaped", "returned"}
  \/ HasDeadline /\ Waiting /\ ~expired /\ now >= Limit(call)
  \/ Subprocess /\ phase = "running" /\ expired /\ cancelled = "no"
  \/ phase = "running" /\ Dead
  \/ phase = "draining" /\ (Eof \/ now >= delay)

Tick ==
  /\ now < MaxTime /\ ~Busy
  /\ now' = now + 1
  /\ UNCHANGED <<call, phase, child, helper, pipes, expired, cancelled, delay, err, answer,
                 finished>>

Server == Refuse \/ TooLate \/ Start \/ Expire \/ Cancel \/ Reap \/ HandOver \/ Drained
            \/ ClosePipes \/ Answer

Processes ==
  \/ \E k \in {"group", "daemon"} : Fork(k)
  \/ \E s \in {"exit0", "exit1"} : Exit(s)
  \/ HelperEnds

Handler == \E a \in {"ok", "failed", "timedOut"} : HandlerReturns(a)

Next == Server \/ NotFound \/ Processes \/ Handler \/ Tick

\* The server, the timers and a killed process do not stop; the child, its helper
\* and a handler may run for ever.
Spec ==
  /\ Init /\ [][Next]_vars
  /\ WF_vars(Server)
  /\ WF_vars(Tick)

(* ---- properties ---- *)

TypeOK ==
  /\ call \in Calls
  /\ now \in 0..MaxTime
  /\ phase \in {"asked", "running", "reaped", "draining", "returned", "answered"}
  /\ child \in {"none", "alive", "exit0", "exit1", "killed"}
  /\ helper \in {"none", "group", "daemon", "gone"}
  /\ pipes \in {"open", "closed"}
  /\ expired \in BOOLEAN
  /\ cancelled \in {"no", "killed", "late"}
  /\ delay \in {Never} \cup 0..(MaxTime + WaitDelay)
  /\ err \in {"none", "context", "exit", "waitDelay"}
  /\ answer \in {"none", "ok", "timedOut", "failed", "refused"}
  /\ finished \in {Never} \cup 0..MaxTime

\* Once a call is answered no process of its group is left, whichever way it
\* ended; and an answer "ok" means the command exited with 0.
NothingLeftRunning ==
  answer # "none" =>
    /\ child # "alive" /\ helper # "group"
    /\ answer = "ok" /\ Subprocess => child = "exit0"

\* A call reported as timed out had really not finished when its own limit was
\* over: the limit asked for, and not that of another tool or of the server.
TimeoutMeansUnfinished ==
  answer = "timedOut" /\ Subprocess /\ finished # Never =>
    finished >= (IF call.kind = "run_command" THEN commandTimeout(call) ELSE ToolTimeout(call))

\* The runtime's own timeout, written at install, never ends a call that the
\* server would still answer: the deadline, WaitDelay and all come before it.
\* Nothing bounds a handler that runs in the server.
RuntimeOutlastsServer == Subprocess /\ answer = "none" => now < runtimeTimeout(call)

(* The output is shaped when a call has succeeded. *)

\* Output over its budget comes back within the byte cap, as its own text, in
\* order and nothing twice, around the marker (Shaper.Shape).
ShapeSound == answer = "ok" => Misshaped = {}

\* An accepted inline_large is honoured: the caps worked out when the agent is
\* parsed, built and run agree (checkInlineLargeCap, buildBudgetData, effectiveFor).
InlineLargeHonoured == answer = "ok" => Dishonoured = {}

(* The command line is split before a run_command starts. *)

\* What abby and the model write as words stays those words: entries of
\* allow_commands let through just the commands they spell, and a command line
\* quoted as the description of run_command says is split into what was quoted
\* (SplitArgv, ParseAllowEntry, Rule.Matches).
WordsStayWords == call.kind = "run_command" => Misread = {}

\* Every call is answered, also when its command never ends and a daemon keeps
\* the pipes open; except one whose handler does not come back.
EveryCallAnswered == <>(answer # "none" \/ (~Subprocess /\ phase = "running"))

(* ---- the inductive invariant ---- *)

\* Which processes there can be.
Processed ==
  /\ phase = "asked" \/ ~Subprocess => child = "none" /\ helper = "none"
  /\ phase = "asked" => ~expired /\ cancelled = "no"
  /\ ~Subprocess => phase \in {"asked", "running", "answered"} /\ cancelled = "no"
  /\ phase = "running" /\ Subprocess => child # "none"
  /\ phase \in {"reaped", "draining", "returned", "answered"} => child # "alive"
  /\ child = "none" => helper = "none"
  /\ cancelled # "no" => child # "alive"
  /\ phase \in {"draining", "returned"} /\ err = "none" => child = "exit0"
  /\ err = "waitDelay" => child = "exit0"

\* How far the clock can be when a command runs: Bound for the call itself,
\* WaitDelay more for its pipes.
Bound == Later(Limit(call), 0)

Timely ==
  /\ answer = "none" <=> phase # "answered"
  /\ phase = "asked" => now = 0 /\ delay = Never
  /\ Subprocess /\ phase \in {"running", "reaped"} => now <= Bound
  /\ phase \in {"running", "reaped"} /\ delay # Never => cancelled # "no"
  /\ phase \in {"draining", "returned"} => delay # Never
  /\ delay # Never => delay <= Bound + WaitDelay
  /\ phase # "answered" /\ delay # Never => now <= delay
  /\ expired => HasDeadline /\ now >= Limit(call)

\* What is known of a call that has finished.
Finished ==
  finished # Never =>
    /\ child = "exit0" /\ helper \in {"none", "gone"}
    /\ phase # "answered" => finished = now
    /\ answer = "timedOut" /\ Subprocess => finished >= Limit(call)

\* A call is reported as timed out when its deadline was over, or was over before
\* its command could start.
TimedOut ==
  answer = "timedOut" => expired \/ (Subprocess /\ child = "none" /\ Limit(call) <= 0)

\* The inductive invariant of the proofs, with what it is for.
IInv == TypeOK /\ Processed /\ Timely /\ Finished /\ TimedOut /\ NothingLeftRunning
==============================================================================
