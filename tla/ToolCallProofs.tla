----------------------------- MODULE ToolCallProofs -----------------------------
(***************************************************************************)
(* Proofs about ToolCall, for every set of calls, all limits and any bound *)
(* on the clock.  IInv says how far the clock can be in each phase; that a *)
(* call is reported as timed out only when it was, and that the runtime    *)
(* waits long enough, follow from it and from the order of the limits.     *)
(* Then what is pure in a call, for inputs of any size: the budgets of any *)
(* two blocks (AcceptedIsHonoured), previews of any output (PreviewsSound) *)
(* and the words of any command line (EntriesMeanTheirWords,               *)
(* QuotedWordsSurvive), by induction over a set of numbers: no backend     *)
(* takes the library's, over a predicate.                                  *)
(*                                                                         *)
(* And about AgentConfig, the settings that an agent and so its calls run  *)
(* under, for any commands, values, hand edits and directories.            *)
(***************************************************************************)
EXTENDS ToolCall, AgentConfig, FiniteSetTheorems, SequenceTheorems, TLAPS

USE DEF Never

(* ---- the limits ---- *)

\* A limit is an integer; run_command's own is within the one runBuiltin sets
\* around it, and is what limits it; every limit is within the runtime's by
\* Margin.
LEMMA LimitOrder ==
  ASSUME NEW c \in Calls
  PROVE  /\ Limit(c) \in Int /\ runtimeTimeout(c) \in Int
         /\ c.kind = "run_command" => Limit(c) = commandTimeout(c)
         /\ c.kind # "run_command" => Limit(c) = ToolTimeout(c)
         /\ Limit(c) + Margin <= runtimeTimeout(c)
         /\ Margin < runtimeTimeout(c)
BY TimesAssumption, CallsAssumption
   DEF Limit, OuterLimit, ToolTimeout, commandTimeout, runtimeTimeout, Later, Sooner

LEMMA BoundType ==
  ASSUME call \in Calls
  PROVE  /\ Limit(call) \in Int /\ Bound \in Nat /\ Limit(call) <= Bound
         /\ Bound + Margin <= runtimeTimeout(call)
BY LimitOrder, TimesAssumption DEF Bound, Later

(* ---- the invariant ---- *)

LEMMA Initially == Init => IInv
<1> SUFFICES ASSUME Init PROVE IInv
  OBVIOUS
<1>1. TypeOK
  <2>1. now \in 0..MaxTime
    BY TimesAssumption DEF Init
  <2>2. delay \in {Never} \cup 0..(MaxTime + WaitDelay) /\ finished \in {Never} \cup 0..MaxTime
    BY Zenon DEF Init
  <2>3. QED
    BY <2>1, <2>2, Zenon DEF Init, TypeOK
<1>2. Processed
  BY DEF Init, Processed
<1>3. Timely
  BY DEF Init, Timely
<1>4. Finished /\ TimedOut /\ NothingLeftRunning
  BY DEF Init, Finished, TimedOut, NothingLeftRunning
<1>5. QED
  BY <1>1, <1>2, <1>3, <1>4 DEF IInv

LEMMA Stuttering == IInv /\ UNCHANGED vars => IInv'
BY DEF vars, IInv, TypeOK, Processed, Timely, Finished, TimedOut, NothingLeftRunning,
       Subprocess, HasDeadline, Bound

\* One step per action: each keeps every part of IInv.
LEMMA Preserved == IInv /\ Next => IInv'
<1> SUFFICES ASSUME IInv, Next PROVE IInv'
  OBVIOUS
<1>0. Limit(call) \in Int /\ Bound \in Nat /\ Limit(call) <= Bound
  BY BoundType DEF IInv, TypeOK
<1> USE <1>0, TimesAssumption
    DEF IInv, TypeOK, Processed, Timely, Finished, TimedOut, NothingLeftRunning,
        Subprocess, HasDeadline, Answered
<1>1. CASE Refuse
  BY <1>1 DEF Refuse, Bound
<1>2. CASE TooLate
  BY <1>2 DEF TooLate, Runs, Bound
<1>3. CASE Start
  <2>1. TypeOK'
    BY <1>3, Zenon DEF Start, Runs
  <2>4. Processed'
    BY <1>3 DEF Start, Runs
  <2>2. Timely' /\ Finished' /\ TimedOut' /\ NothingLeftRunning'
    BY <1>3 DEF Start, Runs, Bound
  <2>3. QED
    BY <2>1, <2>2, <2>4
<1>4. CASE Expire
  BY <1>4 DEF Expire, Waiting, Bound
<1>5. CASE Cancel
  BY <1>5 DEF Cancel, GroupKilled, Bound
<1>6. CASE Reap
  BY <1>6 DEF Reap, Dead, Bound
<1>7. CASE HandOver
  <2>1. TypeOK'
    BY <1>7 DEF HandOver, StartDelay
  <2>2. Processed' /\ Finished' /\ TimedOut' /\ NothingLeftRunning'
    BY <1>7 DEF HandOver, Bound
  <2>3. Timely'
    <3>1. CASE delay = Never
      BY <1>7, <3>1 DEF HandOver, StartDelay, Bound
    <3>2. CASE delay # Never
      BY <1>7, <3>2 DEF HandOver, StartDelay, Bound
    <3>3. QED
      BY <3>1, <3>2
  <2>4. QED
    BY <2>1, <2>2, <2>3
<1>8. CASE Drained
  BY <1>8 DEF Drained, Bound
<1>9. CASE ClosePipes
  BY <1>9 DEF ClosePipes, Bound
<1>10. CASE Answer
  BY <1>10 DEF Answer, KillProcessGroup, Bound
<1>11. CASE NotFound
  BY <1>11 DEF NotFound, Runs, Bound
<1>12. ASSUME NEW k \in {"group", "daemon"}, Fork(k) PROVE IInv'
  BY <1>12 DEF Fork, Bound
<1>13. ASSUME NEW s \in {"exit0", "exit1"}, Exit(s) PROVE IInv'
  BY <1>13 DEF Exit, Finishing, Bound
<1>14. CASE HelperEnds
  BY <1>14 DEF HelperEnds, Finishing, Bound
<1>15. ASSUME NEW a \in {"ok", "failed", "timedOut"}, HandlerReturns(a) PROVE IInv'
  BY <1>15 DEF HandlerReturns, Bound
<1>16. CASE Tick
  BY <1>16 DEF Tick, Busy, Waiting, Dead, Eof, Bound
<1>17. QED
  BY <1>1, <1>2, <1>3, <1>4, <1>5, <1>6, <1>7, <1>8, <1>9, <1>10, <1>11, <1>12, <1>13,
     <1>14, <1>15, <1>16 DEF Next, Server, Processes, Handler

\* IInv holds throughout: types, processes and clock of a call.
THEOREM Invariance == Spec => []IInv
<1>1. IInv /\ [Next]_vars => IInv'
  BY Preserved, Stuttering
<1>2. QED
  BY Initially, <1>1, PTL DEF Spec

(* ---- what follows ---- *)

\* NothingLeftRunning: an answered call has no process of its group left, and
\* "ok" means that its command exited with 0.
THEOREM NoneLeftRunning == Spec => []NothingLeftRunning
<1>1. IInv => NothingLeftRunning
  BY DEF IInv
<1>2. QED
  BY Invariance, <1>1, PTL

\* TimeoutMeansUnfinished: a call reported as timed out had not finished when the
\* limit asked for was over.
THEOREM TimeoutIsHonest == Spec => []TimeoutMeansUnfinished
<1>1. IInv => TimeoutMeansUnfinished
  BY LimitOrder DEF IInv, TypeOK, Finished, TimeoutMeansUnfinished, Subprocess
<1>2. QED
  BY Invariance, <1>1, PTL

\* RuntimeOutlastsServer: the runtime's timeout never ends the call of a command
\* before the server has answered it, whatever the timeouts of the tool, the sandbox and the request.
THEOREM RuntimeWaits == Spec => []RuntimeOutlastsServer
<1>1. ASSUME IInv PROVE RuntimeOutlastsServer
  <2>1. /\ Bound \in Nat /\ Bound + Margin <= runtimeTimeout(call)
        /\ runtimeTimeout(call) \in Int
    BY <1>1, BoundType, LimitOrder DEF IInv, TypeOK
  <2>2. Subprocess /\ answer = "none" => now <= Bound + WaitDelay
    BY <1>1, <2>1, TimesAssumption DEF IInv, TypeOK, Timely
  <2>3. QED
    BY <1>1, <2>1, <2>2, TimesAssumption DEF IInv, TypeOK, RuntimeOutlastsServer
<1>2. QED
  BY Invariance, <1>1, PTL

(* ---- the context budget ---- *)

\* The cap in force when a tool runs is the one checked when the agent was built,
\* whatever the two blocks give, omit or set to 0, wherever the check passes.
LEMMA CapsAgree ==
  ASSUME NEW base \in Block, NEW pt \in Block, checkInlineLargeCap(base, pt)
  PROVE  effectiveFor(buildBase(base), buildTool(pt)).bytes = checkedCap(base, pt)
<1> DEFINE b == buildBase(base)
           t == buildTool(pt)
<1>1. b.bytes = Or(base.bytes, DefaultBytes)
  BY DEF buildBase
<1>2. t.bytes = Or(pt.bytes, 0)
  BY DEF buildTool, Block
<1>3. effectiveFor(b, t).bytes = NotZero(t.bytes, b.bytes)
  BY DEF effectiveFor
<1>4. checkedCap(base, pt) \in Int /\ checkedCap(base, pt) > 0
  BY BudgetAssumption DEF checkInlineLargeCap
<1> HIDE DEF b, t
<1>5. ASSUME pt.bytes \notin {Omitted, 0}
      PROVE  NotZero(t.bytes, b.bytes) = checkedCap(base, pt)
  BY <1>2, <1>5 DEF Or, NotZero, checkedCap
<1>6. ASSUME pt.bytes \in {Omitted, 0}, base.bytes # Omitted
      PROVE  NotZero(t.bytes, b.bytes) = checkedCap(base, pt)
  BY <1>1, <1>2, <1>6 DEF Or, NotZero, checkedCap
<1>7. ASSUME pt.bytes \in {Omitted, 0}, base.bytes = Omitted
      PROVE  NotZero(t.bytes, b.bytes) = checkedCap(base, pt)
  <2>1. checkedCap(base, pt) = DefaultBytes
    BY <1>7, BudgetAssumption DEF checkedCap
  <2> QED  BY <1>1, <1>2, <1>7, <2>1 DEF Or, NotZero
<1>8. NotZero(t.bytes, b.bytes) = checkedCap(base, pt)
  BY <1>5, <1>6, <1>7
<1> QED  BY <1>3, <1>8 DEF b, t

\* Every accepted pair of blocks is honoured, whatever numbers it gives: the size
\* hint is the cap in force and one Claude Code accepts (ResultSizeHint).
THEOREM AcceptedIsHonoured ==
  ASSUME NEW base \in Block, NEW pt \in Block
  PROVE  Honoured(base, pt)
<1> DEFINE b == buildBase(base)
           t == buildTool(pt)
           limit == effectiveFor(b, t).bytes
<1> SUFFICES ASSUME validateContextBudget(base, pt), pt.inlineLarge
             PROVE  ResultSizeHint(b, t) = limit /\ ResultSizeHint(b, t) \in 1..Ceiling
  BY DEF Honoured
<1>1. checkInlineLargeCap(base, pt)
  BY DEF validateContextBudget
<1>2. limit \in 1..Ceiling
  BY <1>1, CapsAgree DEF checkInlineLargeCap
<1>3. t.inlineLarge
  BY DEF buildTool, Block
<1>4. ResultSizeHint(b, t) = limit
  BY <1>2, <1>3, BudgetAssumption DEF ResultSizeHint
<1> QED  BY <1>2, <1>4

\* InlineLargeHonoured: an accepted inline_large is honoured by the running agent:
\* the parse, the build and the run work out the same cap, and the hint is that cap
\* (definition/agent.go, builder.go, tools/shaper.go, executor.go).
THEOREM LargeOutputsHonoured == Spec => []InlineLargeHonoured
<1>1. Blocks \subseteq Block
  <2>1. DefaultBytes \in Int /\ Ceiling \in Int /\ Ceiling + 1 \in Int
    BY BudgetAssumption
  <2> DEFINE L == {Omitted, 0}
             B == {Omitted, 0, 3, DefaultBytes, Ceiling, Ceiling + 1}
             O == {"", "spill", "odd"}
             H == {0}
             T == {0, -1}
  <2>2. /\ L \subseteq Int \cup {Omitted} /\ B \subseteq Int \cup {Omitted}
        /\ O \subseteq Strategies \cup {"", "odd"} /\ H \subseteq Int /\ T \subseteq Int
    BY <2>1 DEF Strategies
  <2>3. Blocks = [lines : L, bytes : B, overflow : O, head : H, tail : T,
                  inlineLarge : BOOLEAN]
    BY DEF Blocks
  <2> HIDE DEF L, B, O, H, T
  <2> QED  BY <2>2, <2>3 DEF Block
<1>2. Dishonoured = {}
  BY <1>1, AcceptedIsHonoured DEF Dishonoured
<1>3. InlineLargeHonoured
  BY <1>2 DEF InlineLargeHonoured
<1> QED  BY <1>3, PTL

(* ---- induction ---- *)

\* A set of natural numbers has a least element.
LEMMA LeastNat ==
  ASSUME NEW T, T \subseteq Nat, T # {}
  PROVE  \E m \in T : \A n \in T : m <= n
<1> DEFINE R == {ss \in Nat \X Nat : ss[1] < ss[2]}
<1>1. R = OpToRel(<, Nat)
  BY DEF OpToRel
<1>2. IsWellFoundedOn(R, Nat)
  BY <1>1, NatLessThanWellFounded
<1>3. \E x \in T : \A y \in T : ~ (<<y, x>> \in R)
  <2> HIDE DEF R
  <2> QED  BY <1>2, WFMin, Zenon
<1>4. PICK x \in T : \A y \in T : ~ (<<y, x>> \in R)
  BY <1>3
<1>5. \A y \in T : y \in Nat /\ x \in Nat
  OBVIOUS
<1>6. \A y \in T : ~ (y < x)
  BY <1>4, <1>5
<1> QED  BY <1>5, <1>6

\* Induction, over a set in place of a predicate.
LEMMA Inducts ==
  ASSUME NEW G, 0 \in G, \A n \in Nat : n \in G => n + 1 \in G
  PROVE  Nat \subseteq G
<1> DEFINE T == Nat \ G
<1> SUFFICES ASSUME T # {} PROVE FALSE
  OBVIOUS
<1>1. PICK m \in T : \A n \in T : m <= n
  <2>1. T \subseteq Nat
    OBVIOUS
  <2> HIDE DEF T
  <2> QED  BY <2>1, LeastNat
<1>2. m \in Nat /\ m # 0
  OBVIOUS
<1>3. m - 1 \in Nat /\ m - 1 \notin T
  BY <1>1, <1>2
<1>4. (m - 1) + 1 \in G
  BY <1>3
<1> QED  BY <1>2, <1>4

(* ---- flattening ---- *)

\* F holds the concatenations of the first pieces.
Grows(F, ss) == F = [i \in 1..Len(ss) |-> IF i = 1 THEN ss[i] ELSE F[i-1] \o ss[i]]

\* FlattenSeq has the partial concatenations it is defined by.
LEMMA PartsExist ==
  ASSUME NEW S, NEW ss \in Seq(Seq(S)) PROVE  \E F : Grows(F, ss)
<1> DEFINE n == Len(ss)
           Part(F, m) == F = [i \in 1..m |-> IF i = 1 THEN ss[i] ELSE F[i-1] \o ss[i]]
           G == {m \in Nat : \E F : Part(F, m)}
<1>1. 0 \in G
  <2>1. Part(<<>>, 0)
    OBVIOUS
  <2> QED  BY <2>1
<1>2. ASSUME NEW m \in Nat, m \in G PROVE m + 1 \in G
  <2>1. PICK F : Part(F, m)
    BY <1>2
  <2> DEFINE H == [i \in 1..m + 1 |-> IF i = m + 1
                                       THEN IF m = 0 THEN ss[1] ELSE F[m] \o ss[m + 1]
                                       ELSE F[i]]
  <2>2. ASSUME NEW i \in 1..m + 1
        PROVE  H[i] = IF i = 1 THEN ss[i] ELSE H[i-1] \o ss[i]
    <3>1. CASE i = m + 1
      BY <3>1
    <3>2. CASE i # m + 1
      <4>1. i \in 1..m
        BY <3>2
      <4>2. F[i] = IF i = 1 THEN ss[i] ELSE F[i-1] \o ss[i]
        BY <2>1, <4>1
      <4>3. H[i] = F[i] /\ (i # 1 => H[i-1] = F[i-1])
        BY <3>2, <4>1
      <4> QED  BY <4>2, <4>3
    <3> QED  BY <3>1, <3>2
  <2>3. Part(H, m + 1)
    <3>1. H = [i \in 1..m + 1 |-> H[i]]
      OBVIOUS
    <3> HIDE DEF H
    <3> QED  BY <2>2, <3>1, Zenon
  <2>4. m + 1 \in Nat
    OBVIOUS
  <2> HIDE DEF H
  <2> QED  BY <2>3, <2>4
<1>3. Nat \subseteq G
  <2> HIDE DEF G
  <2> QED  BY <1>1, <1>2, Inducts
<1>4. n \in Nat
  OBVIOUS
<1> QED  BY <1>3, <1>4 DEF Grows

\* FlattenSeq is the last of them.
LEMMA FlattenParts ==
  ASSUME NEW S, NEW ss \in Seq(Seq(S)), Len(ss) > 0
  PROVE  \E F : Grows(F, ss) /\ FlattenSeq(ss) = F[Len(ss)]
<1> DEFINE flatten[i \in 1..Len(ss)] == IF i = 1 THEN ss[i] ELSE flatten[i-1] \o ss[i]
<1>1. FlattenSeq(ss) = flatten[Len(ss)]
  BY Len(ss) # 0 DEF FlattenSeq
<1>2. Grows(flatten, ss)
  <2>1. \E F : F = [i \in 1..Len(ss) |-> IF i = 1 THEN ss[i] ELSE F[i-1] \o ss[i]]
    BY PartsExist DEF Grows
  <2> QED  BY <2>1, Zenon DEF Grows
<1> HIDE DEF flatten
<1> QED  BY <1>1, <1>2

\* Where the characters of two joined texts are.
LEMMA ConcatParts ==
  ASSUME NEW S, NEW s \in Seq(S), NEW t \in Seq(S)
  PROVE  /\ s \o t \in Seq(S) /\ Len(s \o t) = Len(s) + Len(t)
         /\ \A k \in 1..Len(s) : (s \o t)[k] = s[k]
         /\ \A k \in 1..Len(t) : (s \o t)[Len(s) + k] = t[k]
<1>1. Len(s) \in Nat /\ Len(t) \in Nat
  OBVIOUS
<1>2. ASSUME NEW k \in 1..Len(t)
      PROVE  Len(s) + k \in 1..Len(s) + Len(t) /\ ~(Len(s) + k <= Len(s))
             /\ Len(s) + k - Len(s) = k
  BY <1>1
<1>3. ASSUME NEW k \in 1..Len(s) PROVE k \in 1..Len(s) + Len(t) /\ k <= Len(s)
  BY <1>1
<1> QED  BY <1>2, <1>3, ConcatProperties

\* Where the pieces lie in the text they are joined to.
Laid(off, ss, text) ==
  /\ off \in [0..Len(ss) -> Nat]
  /\ off[0] = 0 /\ off[Len(ss)] = Len(text)
  /\ \A j \in 1..Len(ss) :
       /\ off[j] = off[j-1] + Len(ss[j]) /\ off[j] <= Len(text)
       /\ \A k \in 1..Len(ss[j]) : text[off[j-1] + k] = ss[j][k]


\* The concatenations of the first pieces are sequences.
LEMMA GrowsTyped ==
  ASSUME NEW S, NEW ss \in Seq(Seq(S)), NEW F, Grows(F, ss)
  PROVE  \A j \in 1..Len(ss) : F[j] \in Seq(S)
<1> DEFINE G == {m \in Nat : m \in 1..Len(ss) => F[m] \in Seq(S)}
<1>1. \A j \in 1..Len(ss) : F[j] = IF j = 1 THEN ss[j] ELSE F[j-1] \o ss[j]
  BY DEF Grows
<1>2. 0 \in G
  OBVIOUS
<1>3. ASSUME NEW m \in Nat, m \in G PROVE m + 1 \in G
  <2> SUFFICES ASSUME m + 1 \in 1..Len(ss) PROVE F[m + 1] \in Seq(S)
    OBVIOUS
  <2>1. ss[m + 1] \in Seq(S)
    OBVIOUS
  <2>2. CASE m = 0
    BY <1>1, <2>1, <2>2
  <2>3. CASE m # 0
    <3>1. PICK i \in 1..Len(ss) : i = m + 1 /\ i # 1 /\ i - 1 = m /\ m \in 1..Len(ss)
      BY <2>3
    <3>2. F[m] \in Seq(S)
      BY <1>3, <3>1
    <3>3. F[i] = F[i-1] \o ss[i]
      BY <1>1, <3>1, Zenon
    <3>4. F[i-1] \in Seq(S) /\ ss[i] \in Seq(S)
      BY <2>1, <3>1, <3>2
    <3>5. F[i] \in Seq(S)
      BY <3>3, <3>4, ConcatParts, Zenon
    <3> QED  BY <3>1, <3>5
  <2> QED  BY <2>2, <2>3
<1>4. Nat \subseteq G
  <2> HIDE DEF G
  <2> QED  BY <1>2, <1>3, Inducts
<1> QED  BY <1>4

\* Each piece starts where those before it end.
LEMMA FlattenLaid ==
  ASSUME NEW S, NEW ss \in Seq(Seq(S))
  PROVE  FlattenSeq(ss) \in Seq(S) /\ \E off : Laid(off, ss, FlattenSeq(ss))
<1>1. CASE Len(ss) = 0
  <2>1. FlattenSeq(ss) = <<>>
    BY <1>1 DEF FlattenSeq
  <2>2. Laid([j \in 0..0 |-> 0], ss, <<>>)
    BY <1>1 DEF Laid
  <2>3. <<>> \in Seq(S)
    OBVIOUS
  <2> QED  BY <2>1, <2>2, <2>3
<1>2. CASE Len(ss) # 0
  <2>1. PICK n \in Nat : n = Len(ss) /\ n > 0
    BY <1>2
  <2>2. PICK F : Grows(F, ss) /\ FlattenSeq(ss) = F[n]
    BY <2>1, FlattenParts
  <2>3. \A j \in 1..n : F[j] \in Seq(S) /\ ss[j] \in Seq(S)
    BY <2>1, <2>2, GrowsTyped
  <2>4. PICK off : off = [j \in 0..n |-> IF j = 0 THEN 0 ELSE Len(F[j])]
    OBVIOUS
  <2>5. off[0] = 0 /\ off \in [0..n -> Nat] /\ \A j \in 1..n : off[j] = Len(F[j])
    <3>1. \A j \in 1..n : Len(F[j]) \in Nat
      BY <2>3
    <3> QED  BY <2>1, <2>4, <3>1
  <2>6. ASSUME NEW j \in 1..n
        PROVE  /\ off[j] = off[j-1] + Len(ss[j]) /\ off[j-1] \in Nat /\ Len(ss[j]) \in Nat
               /\ \A k \in 1..Len(ss[j]) : F[j][off[j-1] + k] = ss[j][k]
               /\ j > 1 => \A k \in 1..off[j-1] : F[j][k] = F[j-1][k]
    <3>1. F[j] = IF j = 1 THEN ss[j] ELSE F[j-1] \o ss[j]
      BY <2>1, <2>2 DEF Grows
    <3>2. ss[j] \in Seq(S) /\ off[j-1] \in Nat /\ Len(ss[j]) \in Nat /\ off[j] = Len(F[j])
      BY <2>3, <2>5
    <3>3. CASE j = 1
      BY <2>5, <3>1, <3>2, <3>3
    <3>4. CASE j # 1
      <4>1. j - 1 \in 1..n /\ j - 1 # 0
        BY <3>4
      <4>2. F[j-1] \in Seq(S) /\ off[j-1] = Len(F[j-1])
        BY <2>3, <2>5, <4>1
      <4>3. F[j] = F[j-1] \o ss[j]
        BY <3>1, <3>4
      <4>4. /\ Len(F[j]) = Len(F[j-1]) + Len(ss[j])
            /\ \A k \in 1..Len(F[j-1]) : F[j][k] = F[j-1][k]
            /\ \A k \in 1..Len(ss[j]) : F[j][Len(F[j-1]) + k] = ss[j][k]
        <5>1. PICK u \in Seq(S), v \in Seq(S) : u = F[j-1] /\ v = ss[j]
          BY <3>2, <4>2
        <5>2. F[j] = u \o v
          BY <4>3, <5>1, Zenon
        <5>3. /\ Len(u \o v) = Len(u) + Len(v)
              /\ \A k \in 1..Len(u) : (u \o v)[k] = u[k]
              /\ \A k \in 1..Len(v) : (u \o v)[Len(u) + k] = v[k]
          BY ConcatParts
        <5> QED  BY <5>1, <5>2, <5>3, Zenon
      <4> QED  BY <3>2, <4>2, <4>4, Zenon
    <3> QED  BY <3>3, <3>4
  <2> DEFINE G == {m \in Nat : m \in 1..n => \A j \in 1..m :
                     /\ off[j] <= off[m]
                     /\ \A k \in 1..Len(ss[j]) : F[m][off[j-1] + k] = ss[j][k]}
  <2>7. 0 \in G
    OBVIOUS
  <2>8. ASSUME NEW m \in Nat, m \in G PROVE m + 1 \in G
    <3>0. m + 1 \in Nat
      OBVIOUS
    <3> SUFFICES ASSUME m + 1 \in 1..n, NEW j \in 1..m + 1
                 PROVE  /\ off[j] <= off[m + 1]
                        /\ \A k \in 1..Len(ss[j]) : F[m + 1][off[j-1] + k] = ss[j][k]
      BY <3>0, Zenon
    <3>1. CASE j = m + 1
      <4> HIDE DEF G
      <4>1. j \in 1..n /\ off[j] \in Nat
        BY <2>5, <3>1
      <4>2. \A k \in 1..Len(ss[j]) : F[j][off[j-1] + k] = ss[j][k]
        BY <2>6, <4>1, Zenon
      <4>3. off[j] <= off[j]
        BY <4>1
      <4> QED  BY <3>1, <4>2, <4>3, Zenon
    <3>2. CASE j # m + 1
      <4>1. j \in 1..m /\ m \in 1..n /\ m + 1 > 1 /\ m + 1 - 1 = m /\ j \in 1..n
        BY <2>1, <3>2
      <4>2. off[j] <= off[m] /\ \A k \in 1..Len(ss[j]) : F[m][off[j-1] + k] = ss[j][k]
        BY <2>8, <4>1
      <4>3. /\ off[m + 1] = off[m] + Len(ss[m + 1]) /\ off[m] \in Nat
            /\ Len(ss[m + 1]) \in Nat /\ \A k \in 1..off[m] : F[m + 1][k] = F[m][k]
        <5> HIDE DEF G
        <5>1. PICK i \in 1..n : i = m + 1 /\ i - 1 = m /\ i > 1
          BY <4>1
        <5>2. /\ off[i] = off[i-1] + Len(ss[i]) /\ off[i-1] \in Nat
              /\ Len(ss[i]) \in Nat /\ \A k \in 1..off[i-1] : F[i][k] = F[i-1][k]
          BY <2>6, <5>1
        <5> QED  BY <5>1, <5>2, Zenon
      <4>4. off[j] = off[j-1] + Len(ss[j]) /\ off[j-1] \in Nat /\ Len(ss[j]) \in Nat
        BY <2>6, <4>1
      <4>5. ASSUME NEW k \in 1..Len(ss[j]) PROVE F[m + 1][off[j-1] + k] = ss[j][k]
        <5>1. off[j-1] + k \in 1..off[m]
          <6> HIDE DEF G
          <6>1. PICK a \in Nat, b \in Nat : a = off[j-1] /\ b = Len(ss[j])
            BY <4>4
          <6>2. k \in 1..b /\ a + b <= off[m] /\ off[m] \in Nat
            BY <4>2, <4>3, <4>4, <6>1
          <6>3. a + k \in 1..off[m]
            BY <6>2
          <6> QED  BY <6>1, <6>3
        <5> QED  BY <4>2, <4>3, <5>1
      <4>6. off[j] <= off[m + 1]
        <5>1. PICK a \in Nat, b \in Nat : a = off[m] /\ b = Len(ss[m + 1])
          BY <4>3
        <5>2. off[j] \in Nat /\ off[j] <= a /\ off[m + 1] = a + b
          BY <2>5, <4>1, <4>2, <4>3, <5>1
        <5> QED  BY <5>2
      <4> QED  BY <4>5, <4>6
    <3> QED  BY <3>1, <3>2
  <2>9. Nat \subseteq G
    <3> HIDE DEF G
    <3> QED  BY <2>7, <2>8, Inducts
  <2>10. \A j \in 1..n : /\ off[j] <= off[n]
                         /\ \A k \in 1..Len(ss[j]) : F[n][off[j-1] + k] = ss[j][k]
    BY <2>1, <2>9, SMTT(30)
  <2>11. n \in 1..n
    BY <2>1
  <2>12. Laid(off, ss, F[n])
    BY <2>1, <2>5, <2>6, <2>10, <2>11 DEF Laid
  <2> QED  BY <2>2, <2>3, <2>11, <2>12
<1> QED  BY <1>1, <1>2

(* ---- what is in a text ---- *)

\* A prefix.
LEMMA PrefixIs ==
  ASSUME NEW s \in Seq(Int), NEW m \in 0..Len(s)
  PROVE  /\ SubSeq(s, 1, m) \in Seq(Int) /\ Len(SubSeq(s, 1, m)) = m
         /\ \A k \in 1..m : SubSeq(s, 1, m)[k] = s[k]
<1>1. \A k \in 1..m : s[k] \in Int
  OBVIOUS
<1>2. m \in Int /\ 1 \in Int /\ m - 1 + 1 = m /\ (m < 1 => m = 0)
  OBVIOUS
<1>3. \A k \in 1..m : 1 + k - 1 = k
  OBVIOUS
<1> QED  BY <1>1, <1>2, <1>3, SubSeqProperties

\* Where a character is.
At(s, c) == {k \in 1..Len(s) : s[k] = c}

\* A count is a cardinality.
LEMMA CountType ==
  ASSUME NEW s \in Seq(Int), NEW c
  PROVE  IsFiniteSet(At(s, c)) /\ Count(s, c) = Cardinality(At(s, c)) /\ Count(s, c) \in Nat
<1>1. Len(s) \in Nat
  OBVIOUS
<1>2. IsFiniteSet(1..Len(s))
  BY <1>1, FS_Interval
<1>3. IsFiniteSet(At(s, c))
  BY <1>2, FS_Subset DEF At
<1> QED  BY <1>3, FS_CardinalityType DEF Count, At

\* What does not occur counts for nothing.
LEMMA CountNone ==
  ASSUME NEW s \in Seq(Int), NEW c, \A k \in 1..Len(s) : s[k] # c
  PROVE  Count(s, c) = 0
<1>1. At(s, c) = {}
  BY DEF At
<1> QED  BY <1>1, CountType, FS_EmptySet

\* Characters add up when texts are joined.
LEMMA CountConcat ==
  ASSUME NEW s \in Seq(Int), NEW t \in Seq(Int), NEW c
  PROVE  Count(s \o t, c) = Count(s, c) + Count(t, c)
<1> DEFINE n == Len(s)
           B == {n + k : k \in At(t, c)}
           f == [k \in At(t, c) |-> n + k]
<1>1. n \in Nat /\ Len(t) \in Nat /\ Len(s \o t) = n + Len(t)
  BY ConcatProperties
<1>2. \A k \in 1..n + Len(t) : (s \o t)[k] = IF k <= n THEN s[k] ELSE t[k - n]
  BY ConcatProperties
<1>3. At(s \o t, c) = At(s, c) \cup B
  <2>1. ASSUME NEW k \in At(s \o t, c) PROVE k \in At(s, c) \cup B
    <3>1. k \in 1..n + Len(t) /\ (s \o t)[k] = c
      BY <1>1 DEF At
    <3>2. CASE k <= n
      BY <1>1, <1>2, <3>1, <3>2 DEF At
    <3>3. CASE k > n
      <4>1. k - n \in 1..Len(t) /\ t[k - n] = c /\ k = n + (k - n)
        BY <1>1, <1>2, <3>1, <3>3
      <4> QED  BY <4>1 DEF At
    <3> QED  BY <1>1, <3>1, <3>2, <3>3
  <2>2. ASSUME NEW k \in At(s, c) PROVE k \in At(s \o t, c)
    BY <1>1, <1>2 DEF At
  <2>3. ASSUME NEW k \in At(t, c) PROVE n + k \in At(s \o t, c)
    <3>1. k \in 1..Len(t) /\ t[k] = c
      BY DEF At
    <3>2. n + k \in 1..n + Len(t) /\ ~(n + k <= n) /\ (n + k) - n = k
      BY <1>1, <3>1
    <3> QED  BY <1>1, <1>2, <3>1, <3>2 DEF At
  <2> QED  BY <2>1, <2>2, <2>3
<1>4. At(s, c) \cap B = {}
  <2>1. \A k \in At(t, c) : n + k > n
    BY <1>1 DEF At
  <2>2. \A k \in At(s, c) : k <= n /\ k \in Int
    BY <1>1 DEF At
  <2> QED  BY <1>1, <2>1, <2>2
<1>5. f \in Bijection(At(t, c), B)
  <2>1. At(t, c) \subseteq Int
    BY DEF At
  <2>2. f \in [At(t, c) -> B]
    OBVIOUS
  <2>3. \A j, k \in At(t, c) : f[j] = f[k] => j = k
    BY <1>1, <2>1
  <2>4. \A b \in B : \E k \in At(t, c) : f[k] = b
    OBVIOUS
  <2> HIDE DEF f, B
  <2> QED  BY <2>2, <2>3, <2>4, Zenon DEF Bijection, Injection, Surjection, IsInjective
<1> HIDE DEF f, B
<1>6. IsFiniteSet(B) /\ Cardinality(B) = Cardinality(At(t, c))
  <2>1. ExistsBijection(At(t, c), B)
    BY <1>5, Zenon DEF ExistsBijection
  <2> QED  BY <2>1, CountType, FS_Bijection
<1>7. Cardinality(At(s, c) \cup B) =
        Cardinality(At(s, c)) + Cardinality(B) - Cardinality(At(s, c) \cap B)
  BY <1>6, CountType, FS_Union
<1>8. Cardinality(At(s, c) \cap B) = 0
  BY <1>4, FS_EmptySet
<1>9. s \o t \in Seq(Int)
  BY ConcatProperties
<1>10. Count(s \o t, c) = Cardinality(At(s, c) \cup B)
  BY <1>3, <1>9, CountType, Zenon
<1>11. /\ Count(s, c) = Cardinality(At(s, c)) /\ Count(s, c) \in Nat
       /\ Count(t, c) = Cardinality(At(t, c)) /\ Count(t, c) \in Nat
  BY CountType
<1> QED  BY <1>6, <1>7, <1>8, <1>10, <1>11

\* The characters of lines in s are between lo and hi.
Spans(s, lo, hi) == \A k \in 1..Len(s) : s[k] > 0 => lo <= s[k] /\ s[k] <= hi

\* Texts in order, joined, are in order when the lines of the first come before those
\* of the second.
LEMMA InOrderConcat ==
  ASSUME NEW s \in Seq(Int), NEW t \in Seq(Int), NEW m \in Int,
         NEW l \in Int, NEW h \in Int,
         InOrder(s), Spans(s, l, m), InOrder(t), Spans(t, m, h), l <= m, m <= h
  PROVE  InOrder(s \o t) /\ Spans(s \o t, l, h)
<1> DEFINE n == Len(s)
           u == s \o t
<1>1. n \in Nat /\ Len(t) \in Nat /\ Len(u) = n + Len(t)
  BY ConcatProperties
<1>2. \A k \in 1..n : u[k] = s[k]
  BY <1>1, ConcatProperties
<1>3. ASSUME NEW k \in 1..Len(u), k > n
      PROVE  k - n \in 1..Len(t) /\ u[k] = t[k - n]
  BY <1>1, <1>3, ConcatProperties
<1>4. \A k \in 1..Len(s) : s[k] \in Int
  OBVIOUS
<1>5. \A k \in 1..Len(t) : t[k] \in Int
  OBVIOUS
<1> HIDE DEF u, n
<1>6. ASSUME NEW k \in 1..Len(u), u[k] > 0 PROVE l <= u[k] /\ u[k] <= h
  <2>1. CASE k <= n
    BY <1>1, <1>2, <1>4, <1>6, <2>1 DEF Spans, n
  <2>2. CASE k > n
    <3>1. k - n \in 1..Len(t) /\ u[k] = t[k - n]
      BY <1>3, <2>2
    <3>2. m <= u[k] /\ u[k] <= h /\ u[k] \in Int
      BY <1>5, <1>6, <3>1 DEF Spans
    <3> QED  BY <3>2
  <2> QED  BY <1>1, <2>1, <2>2
<1>7. ASSUME NEW j \in 1..Len(u), NEW k \in 1..Len(u), j < k, u[j] > 0, u[k] > 0
      PROVE  u[j] <= u[k]
  <2>1. CASE k <= n
    <3>1. j \in 1..n /\ k \in 1..n
      BY <1>1, <1>7, <2>1
    <3>2. u[j] = s[j] /\ u[k] = s[k]
      BY <1>2, <3>1
    <3> QED  BY <1>7, <3>1, <3>2 DEF InOrder, n
  <2>2. CASE j > n
    <3>1. k > n
      BY <1>1, <1>7, <2>2
    <3>2. j - n < k - n
      BY <1>1, <1>7
    <3> QED  BY <1>3, <1>7, <2>2, <3>1, <3>2 DEF InOrder
  <2>3. CASE j <= n /\ k > n
    <3>1. u[j] \in Int /\ u[j] <= m
      BY <1>1, <1>2, <1>4, <1>7, <2>3 DEF Spans, n
    <3>2. u[k] \in Int /\ m <= u[k]
      BY <1>1, <1>3, <1>5, <1>7, <2>3 DEF Spans
    <3> QED  BY <3>1, <3>2
  <2> QED  BY <1>1, <2>1, <2>2, <2>3
<1> QED  BY <1>6, <1>7 DEF InOrder, Spans, u

\* Cutting off the end of a text keeps its order and adds no character.
LEMMA PrefixKeeps ==
  ASSUME NEW s \in Seq(Int), NEW m \in 0..Len(s)
  PROVE  /\ InOrder(s) => InOrder(SubSeq(s, 1, m))
         /\ \A c : Count(SubSeq(s, 1, m), c) <= Count(s, c)
<1> DEFINE p == SubSeq(s, 1, m)
<1>1. p \in Seq(Int) /\ Len(p) = m /\ \A k \in 1..m : p[k] = s[k]
  BY PrefixIs
<1>2. m \in Nat /\ Len(s) \in Nat /\ m <= Len(s)
  OBVIOUS
<1> HIDE DEF p
<1>3. InOrder(s) => InOrder(p)
  <2>1. 1..m \subseteq 1..Len(s)
    BY <1>2
  <2> QED  BY <1>1, <2>1 DEF InOrder
<1>4. ASSUME NEW c PROVE Count(p, c) <= Count(s, c)
  <2>1. At(p, c) \subseteq At(s, c)
    BY <1>1, <1>2 DEF At
  <2>2. Cardinality(At(p, c)) <= Cardinality(At(s, c))
    BY <2>1, CountType, FS_Subset
  <2> QED  BY <1>1, <2>2, CountType
<1> QED  BY <1>3, <1>4 DEF p

\* Only line ends are trimmed.
LEMMA TrimIs ==
  ASSUME NEW s \in Seq(Int)
  PROVE  \E m \in 0..Len(s) : /\ TrimNewlines(s) = SubSeq(s, 1, m)
                              /\ \A k \in m + 1..Len(s) : s[k] = NewLine
<1> DEFINE kept == {n \in 0..Len(s) : \A i \in n+1..Len(s) : s[i] = NewLine}
           m == CHOOSE n \in kept : \A k \in kept : n <= k
<1>1. kept \subseteq Nat /\ Len(s) \in kept
  OBVIOUS
<1>2. \E n \in kept : \A k \in kept : n <= k
  <2> HIDE DEF kept
  <2> QED  BY <1>1, LeastNat
<1>3. m \in kept
  <2> HIDE DEF kept
  <2> QED  BY <1>2
<1>4. TrimNewlines(s) = SubSeq(s, 1, m)
  BY DEF TrimNewlines
<1>5. m \in 0..Len(s) /\ \A k \in m + 1..Len(s) : s[k] = NewLine
  <2> HIDE DEF m
  <2> QED  BY <1>3
<1> HIDE DEF m
<1> QED  BY <1>4, <1>5

\* So trimming keeps every character of a line.
LEMMA TrimKeeps ==
  ASSUME NEW s \in Seq(Int)
  PROVE  /\ TrimNewlines(s) \in Seq(Int)
         /\ InOrder(s) => InOrder(TrimNewlines(s))
         /\ \A c \in Nat \ {0} : Count(TrimNewlines(s), c) = Count(s, c)
<1>1. PICK m \in 0..Len(s) : /\ TrimNewlines(s) = SubSeq(s, 1, m)
                             /\ \A k \in m + 1..Len(s) : s[k] = NewLine
  BY TrimIs
<1> DEFINE p == SubSeq(s, 1, m)
<1>2. p \in Seq(Int) /\ Len(p) = m /\ \A k \in 1..m : p[k] = s[k]
  BY PrefixIs
<1>3. m \in Nat /\ Len(s) \in Nat /\ m <= Len(s)
  OBVIOUS
<1> HIDE DEF p
<1>4. ASSUME NEW c \in Nat \ {0} PROVE Count(p, c) = Count(s, c)
  <2>1. ASSUME NEW k \in 1..Len(s), s[k] = c PROVE k \in 1..m
    BY <1>1, <1>3, <2>1 DEF NewLine
  <2>2. At(p, c) = At(s, c)
    BY <1>2, <1>3, <2>1 DEF At
  <2> QED  BY <1>2, <2>2, CountType
<1>5. InOrder(s) => InOrder(p)
  BY PrefixKeeps DEF p
<1> QED  BY <1>1, <1>2, <1>4, <1>5 DEF p

\* A text with one kind of character besides line ends.
LEMMA PieceKeeps ==
  ASSUME NEW p \in Seq(Int), NEW c \in Nat \ {0}, \A k \in 1..Len(p) : p[k] \in {0, c}
  PROVE  /\ InOrder(p) /\ Spans(p, c, c)
         /\ \A d \in Nat \ {0} : d # c => Count(p, d) = 0
<1>1. InOrder(p) /\ Spans(p, c, c)
  BY SMTT(30) DEF InOrder, Spans
<1>2. \A d \in Nat \ {0} : d # c => \A k \in 1..Len(p) : p[k] # d
  OBVIOUS
<1> QED  BY <1>1, <1>2, CountNone

\* Flattening pieces: the pieces in their order, with the characters of each.
LEMMA FlattenPieces ==
  ASSUME NEW b \in Nat, NEW ss \in Seq(Seq(Int)),
         \A i \in 1..Len(ss) : \A k \in 1..Len(ss[i]) : ss[i][k] \in {0, b + i}
  PROVE  /\ FlattenSeq(ss) \in Seq(Int)
         /\ InOrder(FlattenSeq(ss)) /\ Spans(FlattenSeq(ss), b + 1, b + Len(ss))
         /\ \A c \in Nat \ {0} : Count(FlattenSeq(ss), c) =
              IF c \in b + 1..b + Len(ss) THEN Count(ss[c - b], c) ELSE 0
<1> DEFINE n == Len(ss)
           Good(f, m) ==
             /\ f \in Seq(Int)
             /\ InOrder(f) /\ Spans(f, b + 1, b + m)
             /\ \A c \in Nat \ {0} :
                  Count(f, c) = IF c \in b + 1..b + m THEN Count(ss[c - b], c) ELSE 0
<1>1. n \in Nat /\ \A i \in 1..n : ss[i] \in Seq(Int)
  OBVIOUS
<1>2. CASE n = 0
  <2>1. FlattenSeq(ss) = <<>>
    BY <1>2 DEF FlattenSeq
  <2>2. \A c : Count(<<>>, c) = 0
    <3>1. <<>> \in Seq(Int) /\ Len(<<>>) = 0
      OBVIOUS
    <3>2. \A k \in 1..Len(<<>>) : FALSE
      BY <3>1
    <3> QED  BY <3>1, <3>2, CountNone
  <2>3. <<>> \in Seq(Int) /\ InOrder(<<>>) /\ Spans(<<>>, b + 1, b + n)
    BY DEF InOrder, Spans
  <2>4. b + 1..b + n = {}
    BY <1>2
  <2> QED  BY <2>1, <2>2, <2>3, <2>4
<1>3. CASE n > 0
  <2>1. PICK F : Grows(F, ss) /\ FlattenSeq(ss) = F[n]
    BY <1>3, FlattenParts
  <2> DEFINE Set == {m \in Nat : m \in 1..n => Good(F[m], m)}
  <2>2. 0 \in Set
    OBVIOUS
  <2>3. ASSUME NEW m \in Nat, m \in Set, m + 1 \in 1..n PROVE Good(F[m + 1], m + 1)
    <3> DEFINE p == ss[m + 1]
               d == b + m + 1
    <3>1. /\ p \in Seq(Int) /\ d \in Nat \ {0} /\ d = b + (m + 1)
          /\ \A k \in 1..Len(p) : p[k] \in {0, d}
      <4>1. m + 1 \in 1..Len(ss) /\ p \in Seq(Int)
        BY <1>1, <2>3
      <4>2. \A k \in 1..Len(p) : p[k] \in {0, b + (m + 1)}
        BY <4>1
      <4>3. d \in Nat \ {0} /\ d = b + (m + 1)
        OBVIOUS
      <4> HIDE DEF p, d
      <4> QED  BY <4>1, <4>2, <4>3
    <3>2. /\ InOrder(p) /\ Spans(p, d, d)
          /\ \A c \in Nat \ {0} : c # d => Count(p, c) = 0
      <4> HIDE DEF p, d
      <4> QED  BY <3>1, PieceKeeps
    <3>3. d - b = m + 1
      OBVIOUS
    <3>4. CASE m = 0
      <4>1. F[m + 1] = p
        BY <2>1, <2>3, <3>4 DEF Grows
      <4>2. b + 1..b + (m + 1) = {d} /\ b + 1 = d /\ b + (m + 1) = d
        BY <3>4
      <4>3. \A c \in Nat \ {0} :
              Count(p, c) = IF c \in b + 1..b + (m + 1) THEN Count(ss[c - b], c) ELSE 0
        BY <3>2, <3>3, <4>2
      <4> HIDE DEF p, d
      <4> QED  BY <3>1, <3>2, <4>1, <4>2, <4>3
    <3>5. CASE m > 0
      <4>1. F[m + 1] = F[m] \o p
        <5>1. m + 1 \in 1..Len(ss) /\ m + 1 # 1 /\ (m + 1) - 1 = m
          BY <2>3, <3>5
        <5>2. F[m + 1] = F[(m + 1) - 1] \o ss[m + 1]
          BY <2>1, <5>1, Zenon DEF Grows
        <5> QED  BY <5>1, <5>2
      <4>2. Good(F[m], m)
        BY <2>3, <3>5
      <4> DEFINE f == F[m]
      <4>3. Spans(p, b + m, d)
        <5>1. d \in Int /\ b + m <= d
          OBVIOUS
        <5>2. \A k \in 1..Len(p) : p[k] \in Int
          BY <3>1
        <5> HIDE DEF p, d
        <5> QED  BY <3>2, <5>1, <5>2 DEF Spans
      <4>4. b + 1 \in Int /\ b + m \in Int /\ d \in Int /\ b + 1 <= b + m /\ b + m <= d
        BY <3>5
      <4>5. InOrder(f \o p) /\ Spans(f \o p, b + 1, d)
        <5>1. f \in Seq(Int) /\ InOrder(f) /\ Spans(f, b + 1, b + m)
          BY <4>2
        <5> HIDE DEF f, p, d
        <5> QED  BY <3>1, <3>2, <4>3, <4>4, <5>1, InOrderConcat
      <4>6. ASSUME NEW c \in Nat \ {0}
            PROVE  Count(f \o p, c) =
                     IF c \in b + 1..b + (m + 1) THEN Count(ss[c - b], c) ELSE 0
        <5>1. Count(f \o p, c) = Count(f, c) + Count(p, c)
          BY <3>1, <4>2, CountConcat
        <5>2. Count(f, c) = IF c \in b + 1..b + m THEN Count(ss[c - b], c) ELSE 0
          BY <4>2
        <5>3. Count(f, c) \in Nat /\ Count(p, c) \in Nat
          BY <3>1, <4>2, CountType
        <5>4. CASE c = d
          <6>1. c \notin b + 1..b + m /\ c \in b + 1..b + (m + 1) /\ ss[c - b] = p
            BY <3>3, <5>4
          <6> HIDE DEF f, p, d
          <6> QED  BY <5>1, <5>2, <5>3, <6>1
        <5>5. CASE c # d
          <6>1. c \in b + 1..b + m <=> c \in b + 1..b + (m + 1)
            BY <5>5
          <6>2. Count(p, c) = 0
            BY <3>2, <5>5
          <6> HIDE DEF f, p, d
          <6> QED  BY <5>1, <5>2, <5>3, <6>1, <6>2
        <5> QED  BY <5>4, <5>5
      <4>7. f \o p \in Seq(Int)
        BY <3>1, <4>2, ConcatProperties
      <4>8. d = b + (m + 1)
        OBVIOUS
      <4> HIDE DEF f, p, d
      <4> QED  BY <4>1, <4>5, <4>6, <4>7, <4>8 DEF f
    <3> QED  BY <3>4, <3>5
  <2>4. Nat \subseteq Set
    <3>1. \A m \in Nat : m \in Set => m + 1 \in Set
      <4> SUFFICES ASSUME NEW m \in Nat, m \in Set PROVE m + 1 \in Set
        OBVIOUS
      <4>1. m + 1 \in 1..n => Good(F[m + 1], m + 1)
        BY <2>3
      <4> HIDE DEF Good
      <4> QED  BY <4>1
    <3> HIDE DEF Set
    <3> QED  BY <2>2, <3>1, Inducts
  <2>5. Good(F[n], n)
    BY <1>1, <1>3, <2>4
  <2> QED  BY <2>1, <2>5
<1> QED  BY <1>1, <1>2, <1>3

(* ---- shaping ---- *)

\* Line i, of n characters.
LineOf(n, i) == [k \in 1..n |-> i]

\* It has just its n characters.
LEMMA LineIs ==
  ASSUME NEW n \in Nat, NEW i \in Nat \ {0}
  PROVE  /\ LineOf(n, i) \in Seq(Int) /\ Len(LineOf(n, i)) = n
         /\ \A k \in 1..n : LineOf(n, i)[k] \in {0, i}
         /\ Count(LineOf(n, i), i) = n
<1> DEFINE l == LineOf(n, i)
<1>1. l \in Seq(Int) /\ Len(l) = n /\ \A k \in 1..n : l[k] = i
  BY DEF LineOf
<1> HIDE DEF l
<1>2. At(l, i) = 1..n
  BY <1>1 DEF At
<1>3. Cardinality(1..n) = n
  <2>1. Cardinality(1..n) = IF 1 > n THEN 0 ELSE n - 1 + 1
    BY FS_Interval
  <2> QED  BY <2>1
<1> QED  BY <1>1, <1>2, <1>3, CountType DEF l

\* And with its line end no others.
LEMMA EndedIs ==
  ASSUME NEW n \in Nat, NEW i \in Nat \ {0}
  PROVE  LET e == Append(LineOf(n, i), NewLine)
         IN /\ e \in Seq(Int)
            /\ \A k \in 1..Len(e) : e[k] \in {0, i}
            /\ Count(e, i) = n
<1> DEFINE l == LineOf(n, i)
           e == Append(l, NewLine)
<1>1. /\ l \in Seq(Int) /\ Len(l) = n /\ \A k \in 1..n : l[k] \in {0, i}
      /\ Count(l, i) = n
  BY LineIs
<1> HIDE DEF l
<1>2. e \in Seq(Int) /\ Len(e) = n + 1 /\ (\A k \in 1..n : e[k] = l[k]) /\ e[n + 1] = 0
  BY <1>1, AppendProperties DEF NewLine
<1> HIDE DEF e
<1>3. \A k \in 1..Len(e) : e[k] \in {0, i}
  BY <1>1, <1>2
<1>4. At(e, i) = At(l, i)
  BY <1>1, <1>2 DEF At
<1>5. Count(e, i) = n
  BY <1>1, <1>2, <1>4, CountType
<1> QED  BY <1>2, <1>3, <1>5 DEF e, l

\* The text with its marker: h lines, t lines, each with all of its characters.
LEMMA AssembleKeeps ==
  ASSUME NEW o \in Seq(Nat), NEW h \in 0..Len(o), NEW t \in 0..Len(o) - h
  PROVE  /\ assemble(Lines(o), h, t) \in Seq(Int)
         /\ InOrder(assemble(Lines(o), h, t))
         /\ \A c \in 1..Len(o) : Count(assemble(Lines(o), h, t), c) =
              IF c <= h \/ c > Len(o) - t THEN o[c] ELSE 0
<1> DEFINE n == Len(o)
           lines == Lines(o)
           ended(i) == IF i < n \/ i <= h THEN Append(lines[i], NewLine) ELSE lines[i]
           hs == [i \in 1..h |-> ended(i)]
           ts == [i \in 1..t |-> ended(n - t + i)]
           A == FlattenSeq(hs)
           B == FlattenSeq(ts)
           M == Append(Marker, NewLine)
           S == A \o M \o B
<1>1. n \in Nat /\ h \in Nat /\ t \in Nat /\ h + t <= n /\ (\A i \in 1..n : o[i] \in Nat)
      /\ DOMAIN o = 1..n
  OBVIOUS
<1>2. Len(lines) = n /\ \A i \in 1..n : lines[i] = LineOf(o[i], i)
  BY <1>1 DEF Lines, LineOf
<1>3. assemble(lines, h, t) = TrimNewlines(S)
  BY <1>2 DEF assemble
<1>4. \A i \in 1..n : /\ ended(i) \in Seq(Int)
                      /\ \A k \in 1..Len(ended(i)) : ended(i)[k] \in {0, i}
                      /\ Count(ended(i), i) = o[i]
  <2> SUFFICES ASSUME NEW i \in 1..n
               PROVE  /\ ended(i) \in Seq(Int)
                      /\ \A k \in 1..Len(ended(i)) : ended(i)[k] \in {0, i}
                      /\ Count(ended(i), i) = o[i]
    OBVIOUS
  <2>1. o[i] \in Nat /\ i \in Nat \ {0} /\ lines[i] = LineOf(o[i], i)
    BY <1>1, <1>2
  <2>2. CASE i < n \/ i <= h
    BY <2>1, <2>2, EndedIs
  <2>3. CASE ~(i < n \/ i <= h)
    BY <2>1, <2>3, LineIs
  <2> QED  BY <2>2, <2>3
<1> HIDE DEF ended, lines
<1>5. /\ A \in Seq(Int) /\ InOrder(A) /\ Spans(A, 1, h)
      /\ \A c \in 1..n : Count(A, c) = IF c <= h THEN o[c] ELSE 0
  <2>1. hs \in Seq(Seq(Int)) /\ Len(hs) = h /\ \A i \in 1..h : hs[i] = ended(i)
    BY <1>1, <1>4
  <2> HIDE DEF hs
  <2>2. \A i \in 1..Len(hs) : \A k \in 1..Len(hs[i]) : hs[i][k] \in {0, 0 + i}
    <3> SUFFICES ASSUME NEW i \in 1..h, NEW k \in 1..Len(hs[i])
                 PROVE  hs[i][k] \in {0, 0 + i}
      BY <2>1
    <3>1. i \in 1..n /\ 0 + i = i /\ hs[i] = ended(i)
      BY <1>1, <2>1
    <3> QED  BY <1>4, <3>1
  <2>3. /\ A \in Seq(Int) /\ InOrder(A) /\ Spans(A, 0 + 1, 0 + h)
        /\ \A c \in Nat \ {0} : Count(A, c) =
             IF c \in 0 + 1..0 + h THEN Count(hs[c - 0], c) ELSE 0
    BY <2>1, <2>2, FlattenPieces
  <2>4. ASSUME NEW c \in 1..n PROVE Count(A, c) = IF c <= h THEN o[c] ELSE 0
    <3>1. c \in Nat \ {0} /\ (c \in 0 + 1..0 + h <=> c <= h) /\ c - 0 = c
      BY <1>1
    <3>2. c <= h => Count(hs[c], c) = o[c]
      BY <1>1, <1>4, <2>1
    <3> HIDE DEF A
    <3> QED  BY <2>3, <3>1, <3>2
  <2> HIDE DEF A
  <2> QED  BY <2>3, <2>4
<1>6. /\ B \in Seq(Int) /\ InOrder(B) /\ Spans(B, n - t + 1, n)
      /\ \A c \in 1..n : Count(B, c) = IF c > n - t THEN o[c] ELSE 0
  <2> DEFINE b == n - t
  <2>1. /\ ts \in Seq(Seq(Int)) /\ Len(ts) = t
        /\ \A i \in 1..t : ts[i] = ended(b + i) /\ b + i \in 1..n
    <3>1. \A i \in 1..t : n - t + i \in 1..n
      BY <1>1
    <3> QED  BY <1>1, <1>4, <3>1
  <2>2. b \in Nat /\ b + t = n
    BY <1>1
  <2> HIDE DEF ts, b
  <2>3. \A i \in 1..Len(ts) : \A k \in 1..Len(ts[i]) : ts[i][k] \in {0, b + i}
    BY <1>4, <2>1
  <2>4. /\ B \in Seq(Int) /\ InOrder(B) /\ Spans(B, b + 1, b + t)
        /\ \A c \in Nat \ {0} : Count(B, c) =
             IF c \in b + 1..b + t THEN Count(ts[c - b], c) ELSE 0
    BY <2>1, <2>2, <2>3, FlattenPieces
  <2>5. ASSUME NEW c \in 1..n PROVE Count(B, c) = IF c > b THEN o[c] ELSE 0
    <3>1. c \in Nat \ {0} /\ (c \in b + 1..b + t <=> c > b)
      BY <1>1, <2>2
    <3>2. c > b => c - b \in 1..t /\ b + (c - b) = c
      BY <1>1, <2>2
    <3>3. c > b => Count(ts[c - b], c) = o[c]
      BY <1>4, <2>1, <3>2
    <3> HIDE DEF B
    <3> QED  BY <2>4, <3>1, <3>3
  <2> HIDE DEF B
  <2> QED  BY <2>2, <2>4, <2>5 DEF b
<1>7. /\ M \in Seq(Int) /\ InOrder(M) /\ Spans(M, h, h)
      /\ \A c \in 1..n : Count(M, c) = 0
  <2>1. Marker \in Seq(Int) /\ Len(Marker) \in Nat /\ \A k \in 1..Len(Marker) : Marker[k] = -1
    BY BudgetAssumption, SMTT(30) DEF Marker
  <2>2. M \in Seq(Int) /\ \A k \in 1..Len(M) : M[k] <= 0
    <3>1. /\ M \in Seq(Int) /\ Len(M) = Len(Marker) + 1 /\ M[Len(Marker) + 1] = 0
          /\ \A k \in 1..Len(Marker) : M[k] = Marker[k]
      BY <2>1, AppendProperties DEF NewLine
    <3> HIDE DEF M
    <3>2. ASSUME NEW k \in 1..Len(M) PROVE M[k] <= 0
      <4>1. k \in 1..Len(Marker) \/ k = Len(Marker) + 1
        BY <2>1, <3>1
      <4>2. CASE k \in 1..Len(Marker)
        <5>1. M[k] = -1
          BY <2>1, <3>1, <4>2
        <5> QED  BY <5>1
      <4>3. CASE k = Len(Marker) + 1
        <5>1. M[k] = 0
          BY <3>1, <4>3
        <5> QED  BY <5>1
      <4> QED  BY <4>1, <4>2, <4>3
    <3> QED  BY <3>1, <3>2
  <2> HIDE DEF M
  <2>3. ASSUME NEW k \in 1..Len(M) PROVE M[k] \in Int /\ ~(M[k] > 0)
    BY <2>2
  <2>4. \A c \in 1..n : \A k \in 1..Len(M) : M[k] # c
    BY <1>1, <2>3
  <2> QED  BY <2>2, <2>3, <2>4, CountNone DEF InOrder, Spans
<1> HIDE DEF A, B, M
<1>8. /\ A \o M \in Seq(Int) /\ InOrder(A \o M) /\ Spans(A \o M, 0, h)
      /\ \A c \in 1..n : Count(A \o M, c) = Count(A, c)
  <2>1. Spans(A, 0, h)
    BY <1>5 DEF Spans
  <2>2. InOrder(A \o M) /\ Spans(A \o M, 0, h)
    BY <1>1, <1>5, <1>7, <2>1, InOrderConcat
  <2>3. \A c \in 1..n : Count(A \o M, c) = Count(A, c)
    BY <1>5, <1>7, CountConcat, CountType
  <2> QED  BY <1>5, <1>7, <2>2, <2>3, ConcatProperties
<1>9. /\ S \in Seq(Int) /\ InOrder(S)
      /\ \A c \in 1..n : Count(S, c) = IF c <= h \/ c > n - t THEN o[c] ELSE 0
  <2>1. Spans(B, h, n)
    <3>1. \A k \in 1..Len(B) : B[k] \in Int
      BY <1>6
    <3> QED  BY <1>1, <1>6, <3>1 DEF Spans
  <2>2. InOrder(S)
    <3> DEFINE AM == A \o M
    <3>1. AM \in Seq(Int) /\ InOrder(AM) /\ Spans(AM, 0, h)
      BY <1>8
    <3>2. 0 \in Int /\ h \in Int /\ n \in Int /\ 0 <= h /\ h <= n
      BY <1>1
    <3> HIDE DEF AM, n
    <3>3. InOrder(AM \o B)
      BY <1>6, <2>1, <3>1, <3>2, InOrderConcat
    <3> QED  BY <3>3 DEF AM
  <2>3. \A c \in 1..n : Count(S, c) = Count(A, c) + Count(B, c)
    BY <1>6, <1>8, CountConcat
  <2>4. ASSUME NEW c \in 1..n
        PROVE  Count(S, c) = IF c <= h \/ c > n - t THEN o[c] ELSE 0
    BY <1>1, <1>5, <1>6, <2>3
  <2>5. S \in Seq(Int)
    BY <1>6, <1>8, ConcatProperties
  <2> QED  BY <2>2, <2>4, <2>5
<1> HIDE DEF S
<1>10. /\ TrimNewlines(S) \in Seq(Int) /\ InOrder(TrimNewlines(S))
       /\ \A c \in 1..n : Count(TrimNewlines(S), c) = Count(S, c)
  BY <1>9, TrimKeeps
<1> QED  BY <1>3, <1>9, <1>10 DEF lines

\* truncateBytes respects the cap, keeps the order and adds nothing.
LEMMA CutKeeps ==
  ASSUME NEW s \in Seq(Int), NEW max \in Int
  PROVE  /\ truncateBytes(s, max) \in Seq(Int)
         /\ max > 0 => Len(truncateBytes(s, max)) <= max
         /\ max <= 0 => truncateBytes(s, max) = s
         /\ InOrder(s) => InOrder(truncateBytes(s, max))
         /\ \A c : Count(truncateBytes(s, max), c) <= Count(s, c)
<1>1. Len(s) \in Nat
  OBVIOUS
<1>2. CASE max <= 0 \/ Len(s) <= max
  <2>1. truncateBytes(s, max) = s
    BY <1>2 DEF truncateBytes
  <2>2. \A c : Count(s, c) <= Count(s, c)
    BY CountType
  <2> QED  BY <1>1, <1>2, <2>1, <2>2
<1>3. CASE ~(max <= 0 \/ Len(s) <= max)
  <2>1. truncateBytes(s, max) = SubSeq(s, 1, max) /\ max \in 0..Len(s)
    BY <1>1, <1>3 DEF truncateBytes
  <2> QED  BY <1>3, <2>1, PrefixIs, PrefixKeeps
<1> QED  BY <1>2, <1>3

\* The pointer to the full output holds no character of a line.
LEMMA SuffixIs ==
  /\ Suffix \in Seq(Int) /\ Len(Suffix) = SuffixLength /\ SuffixLength \in Nat
  /\ \A k \in 1..Len(Suffix) : ~(Suffix[k] > 0)
  /\ \A c \in Nat : Count(Suffix, c) = 0
<1>1. SuffixLength \in Nat
  BY BudgetAssumption
<1>2. /\ Suffix \in Seq(Int) /\ Len(Suffix) = SuffixLength
      /\ \A k \in 1..Len(Suffix) : Suffix[k] = -2
  BY <1>1 DEF Suffix
<1>3. ASSUME NEW k \in 1..Len(Suffix) PROVE ~(Suffix[k] > 0) /\ \A c \in Nat : Suffix[k] # c
  BY <1>2
<1> QED  BY <1>1, <1>2, <1>3, CountNone

\* Appending it leaves the characters of lines as they are.
LEMMA SuffixAdds ==
  ASSUME NEW p \in Seq(Int)
  PROVE  /\ p \o Suffix \in Seq(Int) /\ Len(p \o Suffix) = Len(p) + SuffixLength
         /\ InOrder(p) => InOrder(p \o Suffix)
         /\ \A c \in Nat : Count(p \o Suffix, c) = Count(p, c)
<1> DEFINE u == p \o Suffix
<1>1. /\ u \in Seq(Int) /\ Len(u) = Len(p) + SuffixLength
      /\ \A k \in 1..Len(u) : u[k] = IF k <= Len(p) THEN p[k] ELSE Suffix[k - Len(p)]
  BY SuffixIs, ConcatProperties
<1>2. Len(p) \in Nat
  OBVIOUS
<1>3. ASSUME NEW k \in 1..Len(u), u[k] > 0 PROVE k \in 1..Len(p) /\ u[k] = p[k]
  <2>1. CASE k <= Len(p)
    BY <1>1, <1>2, <2>1
  <2>2. CASE k > Len(p)
    <3>1. k - Len(p) \in 1..Len(Suffix) /\ u[k] = Suffix[k - Len(p)]
      BY <1>1, <1>2, <2>2, SuffixIs
    <3> QED  BY <1>3, <3>1, SuffixIs
  <2> QED  BY <1>1, <1>2, <2>1, <2>2, SuffixIs
<1>4. ASSUME NEW c \in Nat PROVE Count(u, c) = Count(p, c)
  <2>1. Count(u, c) = Count(p, c) + Count(Suffix, c)
    BY SuffixIs, CountConcat
  <2> QED  BY <2>1, SuffixIs, CountType
<1> HIDE DEF u
<1>5. InOrder(p) => InOrder(u)
  BY <1>3 DEF InOrder
<1> QED  BY <1>1, <1>4, <1>5 DEF u

\* appendCappedSuffix respects the cap unless the pointer alone is longer.
LEMMA SuffixKeeps ==
  ASSUME NEW s \in Seq(Int), NEW max \in Int, InOrder(s)
  PROVE  /\ appendCappedSuffix(s, max) \in Seq(Int)
         /\ max > 0 => \/ Len(appendCappedSuffix(s, max)) <= max
                       \/ appendCappedSuffix(s, max) = Suffix
         /\ InOrder(appendCappedSuffix(s, max))
         /\ \A c \in Nat : Count(appendCappedSuffix(s, max), c) <= Count(s, c)
         /\ max <= 0 =>
              \A c \in Nat : Count(appendCappedSuffix(s, max), c) = Count(s, c)
<1> DEFINE out == appendCappedSuffix(s, max)
<1>1. \A c \in Nat : Count(s, c) \in Nat
  BY CountType
<1>2. SuffixLength \in Nat
  BY SuffixIs
<1>3. CASE max <= 0
  <2>1. out = s \o Suffix
    BY <1>3 DEF appendCappedSuffix
  <2> HIDE DEF out
  <2>2. out \in Seq(Int) /\ InOrder(out) /\ \A c \in Nat : Count(out, c) = Count(s, c)
    BY <2>1, SuffixAdds
  <2> QED  BY <1>1, <1>3, <2>2 DEF out
<1>4. CASE max > 0 /\ max <= SuffixLength
  <2>1. out = Suffix
    BY <1>4 DEF appendCappedSuffix
  <2> HIDE DEF out
  <2>2. out \in Seq(Int) /\ InOrder(out)
    BY <2>1, SuffixIs DEF InOrder
  <2>3. \A c \in Nat : Count(out, c) <= Count(s, c)
    BY <1>1, <2>1, SuffixIs
  <2> QED  BY <1>4, <2>1, <2>2, <2>3 DEF out
<1>5. CASE max > SuffixLength
  <2> DEFINE cut == max - SuffixLength
             p == truncateBytes(s, cut)
  <2>1. out = p \o Suffix
    BY <1>2, <1>5 DEF appendCappedSuffix
  <2>2. cut \in Int /\ cut > 0 /\ cut + SuffixLength = max
    BY <1>2, <1>5
  <2> HIDE DEF cut
  <2>3. p \in Seq(Int) /\ Len(p) <= cut /\ InOrder(p) /\ \A c : Count(p, c) <= Count(s, c)
    BY <2>2, CutKeeps
  <2> HIDE DEF p, out
  <2>4. /\ out \in Seq(Int) /\ Len(out) = Len(p) + SuffixLength /\ InOrder(out)
        /\ \A c \in Nat : Count(out, c) = Count(p, c)
    BY <2>1, <2>3, SuffixAdds
  <2>5. Len(p) \in Nat
    BY <2>3
  <2>6. Len(out) <= max
    BY <1>2, <2>2, <2>3, <2>4, <2>5
  <2> QED  BY <1>2, <1>5, <2>3, <2>4, <2>6 DEF out
<1> QED  BY <1>2, <1>3, <1>4, <1>5

\* The settings of an agent and outputs, of any size.
Settings == [lines : Nat, bytes : Nat, overflow : Strategies, head : Nat, tail : Nat]

\* Whatever the settings and the output, a preview is within the cap and is the
\* output's own text, in order, nothing twice, the head and the tail asked for
\* (Shape, assemble and appendCappedSuffix in pkg/tools/shaper.go).
THEOREM PreviewsSound ==
  ASSUME NEW eff \in Settings, NEW o \in Seq(Nat)
  PROVE  ShapedSoundly(eff, o)
<1> DEFINE lines == Lines(o)
           n == Len(o)
           out == Shape(eff, lines)
           ht == HeadTail(eff, n)
           S == assemble(lines, ht[1], ht[2])
           preview == truncateBytes(S, eff.bytes)
           shown(i) == \/ i <= eff.head \/ i > n - eff.tail
                       \/ eff.head + eff.tail = 0 /\ i = 1
<1>1. /\ n \in Nat /\ eff.head \in Nat /\ eff.tail \in Nat /\ eff.bytes \in Nat
      /\ eff.overflow \in Strategies
  BY DEF Settings
<1>2. Len(lines) = n /\ DOMAIN lines = 1..n /\ \A i \in 1..n : o[i] \in Nat
  <2>1. DOMAIN o = 1..n
    OBVIOUS
  <2> QED  BY <1>1, <2>1 DEF Lines
<1>3. /\ ht[1] \in 0..n /\ ht[2] \in 0..n - ht[1]
      /\ \A i \in 1..n : (i <= ht[1] \/ i > n - ht[2]) <=> shown(i)
  <2> DEFINE head == IF eff.head + eff.tail = 0 THEN 1 ELSE eff.head
  <2>1. head \in Nat
    BY <1>1
  <2>2. CASE head + eff.tail >= n
    <3>1. ht = <<n, 0>>
      BY <2>2 DEF HeadTail
    <3>2. \A i \in 1..n : shown(i)
      BY <1>1, <2>2
    <3> QED  BY <1>1, <3>1, <3>2
  <2>3. CASE ~(head + eff.tail >= n)
    <3>1. ht = <<head, eff.tail>>
      BY <2>3 DEF HeadTail
    <3>2. head \in 0..n /\ eff.tail \in 0..n - head
      BY <1>1, <2>1, <2>3
    <3>3. \A i \in 1..n : (i <= head \/ i > n - eff.tail) <=> shown(i)
      BY <1>1
    <3> HIDE DEF head
    <3> QED  BY <3>1, <3>2, <3>3
  <2> QED  BY <2>2, <2>3
<1> DEFINE h == ht[1]
           t == ht[2]
<1> HIDE DEF ht
<1>4. /\ S \in Seq(Int) /\ InOrder(S)
      /\ \A i \in 1..n : Count(S, i) = IF shown(i) THEN o[i] ELSE 0
  <2>1. h \in 0..n /\ t \in 0..n - h
    BY <1>3
  <2> HIDE DEF h, t
  <2>2. /\ assemble(Lines(o), h, t) \in Seq(Int) /\ InOrder(assemble(Lines(o), h, t))
        /\ \A c \in 1..n : Count(assemble(Lines(o), h, t), c) =
             IF c <= h \/ c > n - t THEN o[c] ELSE 0
    BY <2>1, AssembleKeeps
  <2> QED  BY <1>3, <2>2 DEF h, t
<1> HIDE DEF S, shown
<1>5. /\ preview \in Seq(Int) /\ InOrder(preview)
      /\ eff.bytes > 0 => Len(preview) <= eff.bytes
      /\ eff.bytes = 0 => preview = S
      /\ \A i \in 1..n : Count(preview, i) <= Count(S, i)
  BY <1>1, <1>4, CutKeeps
<1>6. \A i \in 1..n : Count(S, i) \in Nat /\ Count(S, i) <= o[i] /\ Count(preview, i) \in Nat
  <2> SUFFICES ASSUME NEW i \in 1..n
               PROVE  Count(S, i) \in Nat /\ Count(S, i) <= o[i] /\ Count(preview, i) \in Nat
    OBVIOUS
  <2>1. Count(S, i) \in Nat /\ Count(preview, i) \in Nat
    BY <1>4, <1>5, CountType
  <2>2. o[i] \in Nat /\ Count(S, i) = IF shown(i) THEN o[i] ELSE 0
    BY <1>2, <1>4
  <2> HIDE DEF preview
  <2> QED  BY <2>1, <2>2
<1> HIDE DEF preview
<1>7. ASSUME Over(eff, lines), eff.overflow # "passthrough"
      PROVE  /\ eff.bytes > 0 => Len(out) <= eff.bytes \/ out = Suffix
             /\ InOrder(out)
             /\ \A i \in 1..n : Count(out, i) <= o[i]
             /\ eff.bytes = 0 => \A i \in 1..n : Count(out, i) = IF shown(i) THEN o[i] ELSE 0
  <2>1. CASE eff.overflow = "spill"
    <3>1. out = appendCappedSuffix(preview, eff.bytes)
      BY <1>2, <1>7, <2>1 DEF Shape, preview, S, ht
    <3> HIDE DEF out
    <3>2. /\ out \in Seq(Int)
          /\ eff.bytes > 0 => Len(out) <= eff.bytes \/ out = Suffix
          /\ InOrder(out)
          /\ \A c \in Nat : Count(out, c) <= Count(preview, c)
          /\ eff.bytes <= 0 => \A c \in Nat : Count(out, c) = Count(preview, c)
      BY <1>1, <1>5, <3>1, SuffixKeeps
    <3>3. \A i \in 1..n : Count(out, i) <= o[i]
      <4> SUFFICES ASSUME NEW i \in 1..n PROVE Count(out, i) <= o[i]
        OBVIOUS
      <4>1. Count(out, i) <= Count(preview, i) /\ Count(preview, i) <= Count(S, i)
        BY <1>5, <3>2
      <4>2. Count(out, i) \in Nat
        BY <3>2, CountType
      <4>3. Count(S, i) \in Nat /\ Count(S, i) <= o[i] /\ Count(preview, i) \in Nat
        BY <1>6
      <4> HIDE DEF n
      <4> QED  BY <1>2, <4>1, <4>2, <4>3
    <3> QED  BY <1>1, <1>4, <1>5, <3>2, <3>3
  <2>2. CASE eff.overflow = "head-tail"
    <3>1. out = preview
      BY <1>2, <1>7, <2>2 DEF Shape, preview, S, ht
    <3> HIDE DEF out
    <3> QED  BY <1>1, <1>2, <1>4, <1>5, <1>6, <3>1
  <2> QED  BY <1>1, <1>7, <2>1, <2>2 DEF Strategies
<1> QED  BY <1>1, <1>2, <1>7 DEF ShapedSoundly, shown

\* ShapeSound, of every output and every budget that can be in force: output over its
\* budget comes back within the byte cap, or as the bare marker; what is shown is its
\* own text, no character twice and all in their order; and without a byte cap the
\* lines shown are exactly the head and the tail asked for.  Under a byte cap the line
\* limit is a trigger only, and bounds nothing (Shaper.Shape in pkg/tools/shaper.go).
THEOREM OutputsShaped == Spec => []ShapeSound
<1>1. Effective \subseteq Settings
  BY DEF Effective, Settings, Caps
<1>2. Outputs \subseteq Seq(Nat)
  <2> SUFFICES ASSUME NEW n \in 1..4, NEW o \in [1..n -> 0..2] PROVE o \in Seq(Nat)
    BY DEF Outputs
  <2> QED  OBVIOUS
<1>3. Misshaped = {}
  BY <1>1, <1>2, PreviewsSound DEF Misshaped
<1>4. ShapeSound
  BY <1>3 DEF ShapeSound
<1> QED  BY <1>4, PTL

(* ---- reading a command line ---- *)

\* f holds what has been read of s after each character.
IsRun(s, f) == f = [i \in 0..Len(s) |-> IF i = 0 THEN NoWord ELSE Read(s, f[i-1], i)]

\* SplitArgv has the states it is defined by.
LEMMA RunExists ==
  ASSUME NEW s \in Seq(Chars) PROVE  \E f : IsRun(s, f)
<1> DEFINE Part(f, m) == f = [i \in 0..m |-> IF i = 0 THEN NoWord ELSE Read(s, f[i-1], i)]
           G == {m \in Nat : \E f : Part(f, m)}
<1>1. 0 \in G
  <2>1. Part([i \in 0..0 |-> NoWord], 0)
    OBVIOUS
  <2> QED  BY <2>1
<1>2. ASSUME NEW m \in Nat, m \in G PROVE m + 1 \in G
  <2>1. PICK f : Part(f, m)
    BY <1>2
  <2> DEFINE H == [i \in 0..m + 1 |-> IF i = m + 1 THEN Read(s, f[m], m + 1) ELSE f[i]]
  <2>2. ASSUME NEW i \in 0..m + 1
        PROVE  H[i] = IF i = 0 THEN NoWord ELSE Read(s, H[i-1], i)
    <3>1. CASE i = m + 1
      <4>1. H[m] = f[m] /\ i - 1 = m /\ i # 0
        BY <3>1
      <4>2. H[i] = Read(s, f[m], m + 1)
        BY <3>1
      <4> HIDE DEF H
      <4> QED  BY <3>1, <4>1, <4>2
    <3>2. CASE i # m + 1
      <4>1. i \in 0..m
        BY <3>2
      <4>2. f[i] = IF i = 0 THEN NoWord ELSE Read(s, f[i-1], i)
        BY <2>1, <4>1
      <4>3. H[i] = f[i] /\ (i # 0 => H[i-1] = f[i-1])
        BY <3>2, <4>1
      <4> HIDE DEF H
      <4> QED  BY <4>2, <4>3
    <3> QED  BY <3>1, <3>2
  <2>3. Part(H, m + 1)
    <3>1. H = [i \in 0..m + 1 |-> H[i]]
      OBVIOUS
    <3> HIDE DEF H
    <3> QED  BY <2>2, <3>1, Zenon
  <2>4. m + 1 \in Nat
    OBVIOUS
  <2> HIDE DEF H
  <2> QED  BY <2>3, <2>4
<1>3. Nat \subseteq G
  <2> HIDE DEF G
  <2> QED  BY <1>1, <1>2, Inducts
<1>4. Len(s) \in Nat
  OBVIOUS
<1> QED  BY <1>3, <1>4 DEF IsRun

\* Its words are those of the last one.
LEMMA SplitIs ==
  ASSUME NEW s \in Seq(Chars)
  PROVE  \E f : IsRun(s, f) /\ SplitArgv(s) = Words(f[Len(s)])
<1> DEFINE upTo[i \in 0..Len(s)] == IF i = 0 THEN NoWord ELSE Read(s, upTo[i - 1], i)
<1>1. SplitArgv(s) = Words(upTo[Len(s)])
  BY DEF SplitArgv
<1>2. IsRun(s, upTo)
  <2>1. \E f : f = [i \in 0..Len(s) |-> IF i = 0 THEN NoWord ELSE Read(s, f[i-1], i)]
    BY RunExists DEF IsRun
  <2> QED  BY <2>1, Zenon DEF IsRun
<1> HIDE DEF upTo
<1> QED  BY <1>1, <1>2

\* The states SplitArgv can be in.
Reading == [argv : Seq(Seq(Chars)), cur : Seq(Chars), inWord : BOOLEAN,
            quote : {"none", "single", "double"}, skip : BOOLEAN, ok : BOOLEAN]

LEMMA PutTyped ==
  ASSUME NEW st \in Reading, NEW c \in Chars PROVE Put(st, c) \in Reading
<1>1. Append(st.cur, c) \in Seq(Chars)
  BY DEF Reading
<1> QED  BY <1>1 DEF Put, Reading

LEMMA ReadTyped ==
  ASSUME NEW s \in Seq(Chars), NEW i \in 1..Len(s), NEW st \in Reading
  PROVE  Read(s, st, i) \in Reading
<1> DEFINE next == IF i < Len(s) THEN s[i + 1] ELSE "end"
<1>1. s[i] \in Chars /\ (next = "end" \/ next \in Chars)
  OBVIOUS
<1>2. \A c \in Chars : Put(st, c) \in Reading /\ [Put(st, c) EXCEPT !.skip = TRUE] \in Reading
  <2>1. \A c \in Chars : Put(st, c) \in Reading
    BY PutTyped
  <2> QED  BY <2>1 DEF Reading
<1>3. Bad(st) \in Reading
  BY DEF Bad, Reading
<1>4. [st EXCEPT !.skip = FALSE] \in Reading
  BY DEF Reading
<1> HIDE DEF next
<1>5. Within(st, s[i], next) \in Reading
  <2>1. \A q \in {"none"} : [st EXCEPT !.quote = q] \in Reading
    BY DEF Reading
  <2>2. next \in {"$", "\"", "\\"} => next \in Chars
    BY DEF Chars
  <2> QED  BY <1>1, <1>2, <2>1, <2>2 DEF Within
<1>6. Unquoted(st, s[i], next) \in Reading
  <2>1. [st EXCEPT !.argv = Append(@, st.cur), !.cur = <<>>, !.inWord = FALSE] \in Reading
    <3>1. Append(st.argv, st.cur) \in Seq(Seq(Chars)) /\ <<>> \in Seq(Chars)
      BY DEF Reading
    <3> QED  BY <3>1 DEF Reading
  <2>2. \A q \in {"single", "double"} : [st EXCEPT !.quote = q, !.inWord = TRUE] \in Reading
    BY DEF Reading
  <2> QED  BY <1>1, <1>2, <1>3, <2>1, <2>2 DEF Unquoted
<1> QED  BY <1>4, <1>5, <1>6 DEF Read, next

LEMMA RunTyped ==
  ASSUME NEW s \in Seq(Chars), NEW f, IsRun(s, f)
  PROVE  \A i \in 0..Len(s) : f[i] \in Reading
<1> DEFINE G == {m \in Nat : m <= Len(s) => f[m] \in Reading}
<1>1. 0 \in G
  <2>1. f[0] = NoWord
    BY DEF IsRun
  <2>2. NoWord \in Reading
    BY DEF NoWord, Reading
  <2> QED  BY <2>1, <2>2
<1>2. ASSUME NEW m \in Nat, m \in G PROVE m + 1 \in G
  <2> SUFFICES ASSUME m + 1 <= Len(s) PROVE f[m + 1] \in Reading
    OBVIOUS
  <2>1. PICK i \in 1..Len(s) : i = m + 1 /\ i # 0 /\ i - 1 = m /\ m <= Len(s) /\ i \in 0..Len(s)
    OBVIOUS
  <2>2. f[i] = Read(s, f[i-1], i)
    BY <2>1, Zenon DEF IsRun
  <2>3. f[i-1] \in Reading
    BY <1>2, <2>1
  <2> QED  BY <2>1, <2>2, <2>3, ReadTyped
<1>3. Nat \subseteq G
  <2> HIDE DEF G
  <2> QED  BY <1>1, <1>2, Inducts
<1> QED  BY <1>3

\* SplitArgv gives a sequence of words.
LEMMA SplitTyped ==
  ASSUME NEW s \in Seq(Chars) PROVE SplitArgv(s) \in Seq(Seq(Chars))
<1>1. PICK f : IsRun(s, f) /\ SplitArgv(s) = Words(f[Len(s)])
  BY SplitIs
<1>2. f[Len(s)] \in Reading
  <2>1. Len(s) \in 0..Len(s)
    OBVIOUS
  <2> QED  BY <1>1, <2>1, RunTyped
<1>3. \A st \in Reading : Words(st) \in Seq(Seq(Chars))
  BY DEF Words, Reading
<1> QED  BY <1>1, <1>2, <1>3

(* ---- a quoted word ---- *)

\* SplitArgv has read the words of A, and c of the next one: between words, within
\* the quotes of a word, after them.
Between(st, A) ==
  st \in Reading /\ st.ok /\ ~st.skip /\ st.argv = A
  /\ st.cur = <<>> /\ ~st.inWord /\ st.quote = "none"

Inside(st, A, c) ==
  st \in Reading /\ st.ok /\ ~st.skip /\ st.argv = A
  /\ st.cur = c /\ st.inWord /\ st.quote = "single"

Outside(st, A, c) ==
  st \in Reading /\ st.ok /\ ~st.skip /\ st.argv = A
  /\ st.cur = c /\ st.inWord /\ st.quote = "none"

LEMMA Advance ==
  ASSUME NEW s \in Seq(Chars), NEW f, IsRun(s, f), NEW p \in Nat, p < Len(s)
  PROVE  f[p + 1] = Read(s, f[p], p + 1)
<1>1. PICK i \in 0..Len(s) : i = p + 1 /\ i # 0 /\ i - 1 = p
  OBVIOUS
<1>2. f[i] = Read(s, f[i-1], i)
  BY <1>1, Zenon DEF IsRun
<1> QED  BY <1>1, <1>2

\* What the characters of a quoted word do.
LEMMA QuoteOpens ==
  ASSUME NEW s \in Seq(Chars), NEW i \in 1..Len(s), NEW st, NEW A, NEW c, s[i] = "'",
         (Between(st, A) /\ c = <<>>) \/ Outside(st, A, c)
  PROVE  Inside(Read(s, st, i), A, c)
<1>1. st \in Reading /\ Read(s, st, i) \in Reading
  BY ReadTyped DEF Between, Outside
<1>2. Read(s, st, i) = [st EXCEPT !.quote = "single", !.inWord = TRUE]
  BY DEF Read, Unquoted, Between, Outside
<1> QED  BY <1>1, <1>2 DEF Reading, Between, Outside, Inside

LEMMA QuoteCloses ==
  ASSUME NEW s \in Seq(Chars), NEW i \in 1..Len(s), NEW st, NEW A, NEW c, s[i] = "'",
         Inside(st, A, c)
  PROVE  Outside(Read(s, st, i), A, c)
<1>1. st \in Reading /\ Read(s, st, i) \in Reading
  BY ReadTyped DEF Inside
<1>2. Read(s, st, i) = [st EXCEPT !.quote = "none"]
  BY DEF Read, Within, Inside
<1> QED  BY <1>1, <1>2 DEF Reading, Inside, Outside

LEMMA QuotedStays ==
  ASSUME NEW s \in Seq(Chars), NEW i \in 1..Len(s), NEW st, NEW A, NEW c, s[i] # "'",
         Inside(st, A, c)
  PROVE  Inside(Read(s, st, i), A, Append(c, s[i]))
<1>1. st \in Reading /\ Read(s, st, i) \in Reading
  BY ReadTyped DEF Inside
<1>2. Read(s, st, i) = Put(st, s[i])
  BY DEF Read, Within, Inside
<1> QED  BY <1>1, <1>2 DEF Reading, Put, Inside

LEMMA SpaceEnds ==
  ASSUME NEW s \in Seq(Chars), NEW i \in 1..Len(s), NEW st, NEW A, NEW c, s[i] = " ",
         Outside(st, A, c)
  PROVE  Between(Read(s, st, i), Append(A, c))
<1>1. st \in Reading /\ Read(s, st, i) \in Reading
  BY ReadTyped DEF Outside
<1>2. Read(s, st, i) = [st EXCEPT !.argv = Append(@, st.cur), !.cur = <<>>, !.inWord = FALSE]
  BY DEF Read, Unquoted, Outside
<1> QED  BY <1>1, <1>2 DEF Reading, Outside, Between

\* A quote escaped outside of quotes.
LEMMA EscapedQuote ==
  ASSUME NEW s \in Seq(Chars), NEW i \in 1..Len(s), i < Len(s), NEW st, NEW A, NEW c,
         s[i] = "\\", s[i + 1] = "'", Outside(st, A, c)
  PROVE  Outside(Read(s, Read(s, st, i), i + 1), A, Append(c, "'"))
<1>1. st \in Reading /\ Read(s, st, i) \in Reading
  BY ReadTyped DEF Outside
<1>2. PICK next : next = Read(s, st, i)
  OBVIOUS
<1>3. next = [Put(st, "'") EXCEPT !.skip = TRUE]
  <2>1. Read(s, st, i) = Unquoted(st, "\\", "'")
    BY DEF Read, Outside
  <2>2. Unquoted(st, "\\", "'") = [Put(st, "'") EXCEPT !.skip = TRUE]
    BY DEF Unquoted
  <2> QED  BY <1>2, <2>1, <2>2
<1>4. Put(st, "'") \in Reading
  <2>1. "'" \in Chars
    BY DEF Chars
  <2> QED  BY <1>1, <2>1, PutTyped
<1>5. /\ next \in Reading /\ next.ok /\ next.skip /\ next.argv = A
      /\ next.cur = Append(c, "'") /\ next.inWord /\ next.quote = "none"
  BY <1>1, <1>2, <1>3, <1>4 DEF Reading, Put, Outside
<1>6. Read(s, next, i + 1) = [next EXCEPT !.skip = FALSE]
  BY <1>5 DEF Read
<1>7. Read(s, next, i + 1) \in Reading
  BY <1>5, <1>6 DEF Reading
<1> QED  BY <1>2, <1>5, <1>6, <1>7 DEF Reading, Outside

\* The characters InQuotes writes for each of w.
QuotedChars(w) == [i \in DOMAIN w |-> IF w[i] = "'" THEN <<"'", "\\", "'", "'">> ELSE <<w[i]>>]

LEMMA QuotedCharsTyped ==
  ASSUME NEW w \in Seq(Chars)
  PROVE  QuotedChars(w) \in Seq(Seq(Chars)) /\ Len(QuotedChars(w)) = Len(w)
<1>1. \A i \in DOMAIN w : QuotedChars(w)[i] \in Seq(Chars)
  <2> SUFFICES ASSUME NEW i \in DOMAIN w PROVE QuotedChars(w)[i] \in Seq(Chars)
    OBVIOUS
  <2>1. <<w[i]>> \in Seq(Chars)
    <3>1. w[i] \in Chars
      OBVIOUS
    <3> QED  BY <3>1
  <2>2. <<"'", "\\", "'", "'">> \in Seq(Chars)
    <3>1. "'" \in Chars /\ "\\" \in Chars
      BY DEF Chars
    <3> QED  BY <3>1
  <2> QED  BY <2>1, <2>2 DEF QuotedChars
<1>2. DOMAIN w = 1..Len(w) /\ Len(w) \in Nat
  OBVIOUS
<1>3. QuotedChars(w) \in [1..Len(w) -> Seq(Chars)]
  BY <1>1, <1>2 DEF QuotedChars
<1> HIDE DEF QuotedChars
<1> QED  BY <1>2, <1>3

\* text stands in s after the first p characters.
Stands(text, s, p) ==
  p + Len(text) <= Len(s) /\ \A k \in 1..Len(text) : s[p + k] = text[k]

\* Within quotes, the characters written for one of w give that one.
LEMMA ThroughChar ==
  ASSUME NEW s \in Seq(Chars), NEW f, IsRun(s, f), NEW p \in Nat, NEW A, NEW c,
         Inside(f[p], A, c), NEW x \in Chars, NEW text,
         text = IF x = "'" THEN <<"'", "\\", "'", "'">> ELSE <<x>>, Stands(text, s, p)
  PROVE  Inside(f[p + Len(text)], A, Append(c, x))
<1>1. CASE x # "'"
  <2>1. Len(text) = 1 /\ s[p + 1] = x /\ p < Len(s) /\ p + 1 \in 1..Len(s)
    BY <1>1 DEF Stands
  <2>2. f[p + 1] = Read(s, f[p], p + 1)
    BY <2>1, Advance
  <2>3. Inside(Read(s, f[p], p + 1), A, Append(c, s[p + 1]))
    BY <1>1, <2>1, QuotedStays
  <2> QED  BY <2>1, <2>2, <2>3
<1>2. CASE x = "'"
  <2>1. Len(text) = 4 /\ p + 4 <= Len(s)
        /\ s[p + 1] = "'" /\ s[p + 2] = "\\" /\ s[p + 3] = "'" /\ s[p + 4] = "'"
    BY <1>2 DEF Stands
  <2>2. Outside(f[p + 1], A, c)
    <3>1. p < Len(s) /\ p + 1 \in 1..Len(s)
      BY <2>1
    <3>2. f[p + 1] = Read(s, f[p], p + 1)
      BY <3>1, Advance
    <3> QED  BY <2>1, <3>1, <3>2, QuoteCloses
  <2>3. Outside(f[p + 3], A, Append(c, x))
    <3>1. p + 1 \in Nat /\ p + 1 < Len(s) /\ p + 2 \in 1..Len(s) /\ p + 2 < Len(s)
          /\ p + 1 + 1 = p + 2 /\ p + 2 \in Nat /\ p + 2 + 1 = p + 3
      BY <2>1
    <3>2. f[p + 1 + 1] = Read(s, f[p + 1], p + 1 + 1)
      BY <3>1, Advance
    <3>3. f[p + 2 + 1] = Read(s, f[p + 2], p + 2 + 1)
      BY <3>1, Advance
    <3>4. Outside(Read(s, Read(s, f[p + 1], p + 2), p + 2 + 1), A, Append(c, "'"))
      BY <2>1, <2>2, <3>1, EscapedQuote
    <3> QED  BY <1>2, <3>1, <3>2, <3>3, <3>4
  <2>4. Inside(f[p + 4], A, Append(c, x))
    <3>1. p + 3 \in Nat /\ p + 3 < Len(s) /\ p + 4 \in 1..Len(s) /\ p + 3 + 1 = p + 4
      BY <2>1
    <3>2. f[p + 3 + 1] = Read(s, f[p + 3], p + 3 + 1)
      BY <3>1, Advance
    <3>3. Inside(Read(s, f[p + 3], p + 4), A, Append(c, x))
      BY <2>1, <2>3, <3>1, QuoteOpens
    <3> QED  BY <3>1, <3>2, <3>3
  <2> QED  BY <2>1, <2>4
<1> QED  BY <1>1, <1>2

\* The quotes around a word, and what is between them.
LEMMA InQuotesParts ==
  ASSUME NEW w \in Seq(Chars)
  PROVE  LET text == FlattenSeq(QuotedChars(w))
         IN /\ text \in Seq(Chars) /\ InQuotes(w) \in Seq(Chars)
            /\ Len(InQuotes(w)) = Len(text) + 2
            /\ InQuotes(w)[1] = "'" /\ InQuotes(w)[Len(text) + 2] = "'"
            /\ \A k \in 1..Len(text) : InQuotes(w)[1 + k] = text[k]
<1>1. PICK text \in Seq(Chars) : text = FlattenSeq(QuotedChars(w))
  BY QuotedCharsTyped, FlattenLaid
<1>2. InQuotes(w) = <<"'">> \o text \o <<"'">>
  BY <1>1 DEF InQuotes, QuotedChars
<1>3. PICK q \in Seq(Chars) : q = <<"'">>
  <2>1. "'" \in Chars
    BY DEF Chars
  <2>2. <<"'">> \in Seq(Chars)
    BY <2>1
  <2> QED  BY <2>2
<1>4. Len(q) = 1 /\ q[1] = "'" /\ Len(text) \in Nat
  BY <1>3
<1>5. PICK u \in Seq(Chars) : u = q \o text
  BY ConcatParts
<1>6. /\ Len(u) = Len(q) + Len(text)
      /\ \A k \in 1..Len(q) : u[k] = q[k]
      /\ \A k \in 1..Len(text) : u[Len(q) + k] = text[k]
  BY <1>5, ConcatParts
<1>7. PICK v \in Seq(Chars) : v = u \o q
  BY ConcatParts
<1>8. /\ Len(v) = Len(u) + Len(q)
      /\ \A k \in 1..Len(u) : v[k] = u[k]
      /\ \A k \in 1..Len(q) : v[Len(u) + k] = q[k]
  BY <1>7, ConcatParts
<1>9. v = InQuotes(w)
  BY <1>2, <1>3, <1>5, <1>7
<1>10. Len(v) = Len(text) + 2 /\ v[1] = "'" /\ v[Len(text) + 2] = "'"
  <2>1. 1 \in 1..Len(q) /\ 1 \in 1..Len(u) /\ Len(u) + 1 = Len(text) + 2
    BY <1>4, <1>6
  <2>2. v[1] = u[1] /\ u[1] = q[1] /\ v[Len(u) + 1] = q[1]
    BY <1>6, <1>8, <2>1
  <2> QED  BY <1>4, <1>6, <1>8, <2>1, <2>2
<1>11. ASSUME NEW k \in 1..Len(text) PROVE v[1 + k] = text[k]
  <2>1. 1 + k \in 1..Len(u)
    BY <1>4, <1>6
  <2>2. u[Len(q) + k] = text[k]
    BY <1>6
  <2> QED  BY <1>4, <1>8, <2>1, <2>2
<1> QED  BY <1>1, <1>9, <1>10, <1>11

\* c holds the first m elements of w.
Begins(c, w, m) == Len(c) = m /\ \A k \in 1..m : c[k] = w[k]

LEMMA BeginsNext ==
  ASSUME NEW S, NEW w \in Seq(S), NEW c \in Seq(S), NEW m \in Nat, m < Len(w), Begins(c, w, m)
  PROVE  Append(c, w[m + 1]) \in Seq(S) /\ Begins(Append(c, w[m + 1]), w, m + 1)
<1>1. w[m + 1] \in S /\ Len(c) = m
  BY DEF Begins
<1>2. /\ Append(c, w[m + 1]) \in Seq(S) /\ Len(Append(c, w[m + 1])) = m + 1
      /\ Append(c, w[m + 1])[m + 1] = w[m + 1]
      /\ \A k \in 1..m : Append(c, w[m + 1])[k] = c[k]
  BY <1>1, AppendProperties
<1>3. \A k \in 1..m + 1 : k = m + 1 \/ k \in 1..m
  OBVIOUS
<1> QED  BY <1>2, <1>3 DEF Begins

LEMMA BeginsAll ==
  ASSUME NEW S, NEW w \in Seq(S), NEW c \in Seq(S), Begins(c, w, Len(w))
  PROVE  c = w
BY SeqEqual DEF Begins

\* A quoted word is read as it was.
LEMMA ThroughWord ==
  ASSUME NEW s \in Seq(Chars), NEW f, IsRun(s, f), NEW p \in Nat, NEW A,
         Between(f[p], A), NEW w \in Seq(Chars), Stands(InQuotes(w), s, p)
  PROVE  Outside(f[p + Len(InQuotes(w))], A, w)
<1>1. PICK pieces \in Seq(Seq(Chars)) : pieces = QuotedChars(w) /\ Len(pieces) = Len(w)
  BY QuotedCharsTyped
<1>2. PICK text, off : text \in Seq(Chars) /\ text = FlattenSeq(pieces) /\ Laid(off, pieces, text)
  BY FlattenLaid
<1>3. PICK n \in Nat : n = Len(w)
  OBVIOUS
<1>4. PICK l \in Nat : l = Len(text)
  BY <1>2
<1>5. /\ p + (l + 2) <= Len(s) /\ Len(InQuotes(w)) = l + 2
      /\ s[p + 1] = "'" /\ s[p + (l + 2)] = "'"
      /\ \A k \in 1..l : s[p + (1 + k)] = text[k]
  <2>1. /\ Len(InQuotes(w)) = l + 2 /\ InQuotes(w)[1] = "'" /\ InQuotes(w)[l + 2] = "'"
        /\ \A k \in 1..l : InQuotes(w)[1 + k] = text[k]
    BY <1>1, <1>2, <1>4, InQuotesParts
  <2>2. p + (l + 2) <= Len(s) /\ \A k \in 1..l + 2 : s[p + k] = InQuotes(w)[k]
    BY <2>1 DEF Stands
  <2>3. 1 \in 1..l + 2 /\ l + 2 \in 1..l + 2 /\ \A k \in 1..l : 1 + k \in 1..l + 2
    OBVIOUS
  <2> QED  BY <2>1, <2>2, <2>3
<1>6. /\ off \in [0..n -> Nat] /\ off[0] = 0 /\ off[n] = l
      /\ \A j \in 1..n : /\ off[j] = off[j-1] + Len(pieces[j]) /\ off[j] <= l
                         /\ \A k \in 1..Len(pieces[j]) : text[off[j-1] + k] = pieces[j][k]
  BY <1>1, <1>2, <1>3, <1>4 DEF Laid
<1> DEFINE Here(m) == f[p + 1 + off[m]]
           G == {m \in Nat : m <= n =>
                   \E c \in Seq(Chars) : Inside(Here(m), A, c) /\ Begins(c, w, m)}
<1>7. 0 \in G
  <2>1. p < Len(s) /\ p + 1 \in 1..Len(s) /\ p + 1 + 0 = p + 1
    BY <1>5
  <2>2. f[p + 1] = Read(s, f[p], p + 1)
    BY <2>1, Advance
  <2>3. Inside(f[p + 1], A, <<>>)
    BY <1>5, <2>1, <2>2, QuoteOpens
  <2>4. Begins(<<>>, w, 0) /\ <<>> \in Seq(Chars)
    BY DEF Begins
  <2>5. Inside(Here(0), A, <<>>)
    BY <1>6, <2>1, <2>3
  <2> HIDE DEF Here
  <2> QED  BY <2>4, <2>5
<1>8. ASSUME NEW m \in Nat, m \in G PROVE m + 1 \in G
  <2> SUFFICES ASSUME m + 1 <= n
               PROVE  \E c \in Seq(Chars) : Inside(Here(m + 1), A, c) /\ Begins(c, w, m + 1)
    OBVIOUS
  <2>1. PICK c \in Seq(Chars) : Inside(Here(m), A, c) /\ Begins(c, w, m)
    BY <1>8
  <2>2. PICK i \in 1..n : i = m + 1 /\ i - 1 = m
    OBVIOUS
  <2>3. PICK piece \in Seq(Chars) : piece = pieces[i]
    BY <1>1, <1>3
  <2>4. PICK a \in Nat, b \in Nat :
           /\ a = off[m] /\ b = Len(piece) /\ off[m + 1] = a + b
           /\ a + b <= l /\ p + 1 + a \in Nat /\ p + 1 + a + b <= Len(s)
           /\ \A k \in 1..b : a + k \in 1..l /\ p + (1 + (a + k)) = p + 1 + a + k
    <3>1. off[i] = off[i-1] + Len(pieces[i]) /\ off[i] <= l
      BY <1>6
    <3>2. off[i-1] \in Nat
      BY <1>6, <2>2
    <3>3. PICK a \in Nat, b \in Nat : a = off[m] /\ b = Len(piece)
      BY <2>2, <3>2
    <3> HIDE DEF Here, G
    <3>4. off[m + 1] = a + b /\ a + b <= l
      BY <2>2, <2>3, <3>1, <3>3
    <3>5. /\ p + 1 + a \in Nat /\ p + 1 + a + b <= Len(s)
          /\ \A k \in 1..b : a + k \in 1..l /\ p + (1 + (a + k)) = p + 1 + a + k
      <4>1. a + b <= l /\ p + (l + 2) <= Len(s) /\ Len(s) \in Nat
        BY <1>5, <3>4
      <4> QED  BY <4>1
    <3> QED  BY <3>3, <3>4, <3>5
  <2>5. \A k \in 1..b : text[a + k] = piece[k]
    BY <1>6, <2>2, <2>3, <2>4, ZenonT(30)
  <2>6. Stands(piece, s, p + 1 + a)
    <3>1. ASSUME NEW k \in 1..b PROVE s[p + 1 + a + k] = piece[k]
      <4>1. a + k \in 1..l /\ p + (1 + (a + k)) = p + 1 + a + k
        BY <2>4
      <4>2. s[p + (1 + (a + k))] = text[a + k]
        BY <1>5, <4>1
      <4> QED  BY <2>5, <4>1, <4>2
    <3> QED  BY <2>4, <3>1 DEF Stands
  <2>7. w[i] \in Chars /\ piece = IF w[i] = "'" THEN <<"'", "\\", "'", "'">> ELSE <<w[i]>>
    BY <1>1, <1>3, <2>3 DEF QuotedChars
  <2>8. Inside(f[p + 1 + a + Len(piece)], A, Append(c, w[i]))
    <3>1. p + 1 + a \in Nat /\ Inside(f[p + 1 + a], A, c)
      BY <2>1, <2>4
    <3> HIDE DEF Here, G
    <3> QED  BY <2>6, <2>7, <3>1, ThroughChar
  <2>9. Append(c, w[m + 1]) \in Seq(Chars) /\ Begins(Append(c, w[m + 1]), w, m + 1)
    <3>1. m < Len(w)
      BY <1>3
    <3> QED  BY <2>1, <3>1, BeginsNext
  <2>10. p + 1 + a + Len(piece) = p + 1 + off[m + 1]
    BY <2>4
  <2> QED  BY <2>2, <2>8, <2>9, <2>10
<1>9. Nat \subseteq G
  <2> HIDE DEF G
  <2> QED  BY <1>7, <1>8, Inducts
<1>10. Inside(f[p + 1 + l], A, w)
  <2>1. PICK c \in Seq(Chars) : Inside(Here(n), A, c) /\ Begins(c, w, n)
    BY <1>9
  <2>2. c = w
    BY <1>3, <2>1, BeginsAll
  <2> QED  BY <1>6, <2>1, <2>2
<1>11. p + 1 + l \in Nat /\ p + 1 + l < Len(s) /\ p + 1 + l + 1 = p + (l + 2) /\ p + (l + 2) \in 1..Len(s)
  BY <1>5
<1>12. f[p + 1 + l + 1] = Read(s, f[p + 1 + l], p + 1 + l + 1)
  BY <1>11, Advance
<1>13. Outside(Read(s, f[p + 1 + l], p + (l + 2)), A, w)
  BY <1>5, <1>10, <1>11, QuoteCloses
<1> QED  BY <1>5, <1>11, <1>12, <1>13

(* ---- a line of quoted words ---- *)

LEMMA Single ==
  ASSUME NEW S, NEW x \in S
  PROVE  <<x>> \in Seq(S) /\ Len(<<x>>) = 1 /\ <<x>>[1] = x
OBVIOUS

\* What QuotedLine writes for each word.
QuotedArgs(argv) == [i \in DOMAIN argv |-> InQuotes(argv[i]) \o <<" ">>]

\* piece is q and a space.
Spaced(piece, q) ==
  /\ Len(piece) = Len(q) + 1 /\ piece[Len(q) + 1] = " "
  /\ \A k \in 1..Len(q) : piece[k] = q[k]

LEMMA QuotedArgsParts ==
  ASSUME NEW argv \in Seq(Seq(Chars))
  PROVE  /\ QuotedArgs(argv) \in Seq(Seq(Chars)) /\ Len(QuotedArgs(argv)) = Len(argv)
         /\ \A i \in 1..Len(argv) :
              /\ argv[i] \in Seq(Chars) /\ InQuotes(argv[i]) \in Seq(Chars)
              /\ QuotedArgs(argv)[i] \in Seq(Chars)
              /\ Spaced(QuotedArgs(argv)[i], InQuotes(argv[i]))
<1>1. PICK n \in Nat : n = Len(argv) /\ DOMAIN argv = 1..n
  OBVIOUS
<1>2. ASSUME NEW i \in 1..n
      PROVE  /\ argv[i] \in Seq(Chars) /\ InQuotes(argv[i]) \in Seq(Chars)
             /\ InQuotes(argv[i]) \o <<" ">> \in Seq(Chars)
             /\ Spaced(InQuotes(argv[i]) \o <<" ">>, InQuotes(argv[i]))
  <2>1. argv[i] \in Seq(Chars)
    BY <1>1
  <2>2. PICK q \in Seq(Chars) : q = InQuotes(argv[i])
    BY <2>1, InQuotesParts
  <2>3. " " \in Chars
    BY DEF Chars
  <2>4. PICK e \in Seq(Chars) : e = <<" ">> /\ Len(e) = 1 /\ e[1] = " "
    BY <2>3, Single
  <2>5. /\ q \o e \in Seq(Chars) /\ Len(q \o e) = Len(q) + Len(e)
        /\ \A k \in 1..Len(q) : (q \o e)[k] = q[k]
        /\ \A k \in 1..Len(e) : (q \o e)[Len(q) + k] = e[k]
    BY ConcatParts
  <2>6. 1 \in 1..Len(e)
    <3>1. Len(e) = 1
      BY <2>4, Zenon
    <3> QED  BY <3>1
  <2>7. (q \o e)[Len(q) + 1] = " "
    BY <2>4, <2>5, <2>6
  <2>8. Spaced(q \o e, q)
    BY <2>4, <2>5, <2>7 DEF Spaced
  <2> QED  BY <2>1, <2>2, <2>4, <2>5, <2>8
<1>3. QuotedArgs(argv) \in [1..n -> Seq(Chars)]
  BY <1>1, <1>2 DEF QuotedArgs
<1>4. \A i \in 1..n : QuotedArgs(argv)[i] = InQuotes(argv[i]) \o <<" ">>
  BY <1>1 DEF QuotedArgs
<1>5. QuotedArgs(argv) \in Seq(Seq(Chars)) /\ Len(QuotedArgs(argv)) = n
  BY <1>3
<1> QED  BY <1>1, <1>2, <1>4, <1>5

LEMMA QuotedLineTyped ==
  ASSUME NEW argv \in Seq(Seq(Chars)) PROVE QuotedLine(argv) \in Seq(Chars)
BY QuotedArgsParts, FlattenLaid DEF QuotedLine, QuotedArgs

\* A line of quoted words is read as these words.
LEMMA ThroughLine ==
  ASSUME NEW s \in Seq(Chars), NEW f, IsRun(s, f), NEW argv \in Seq(Seq(Chars)),
         Stands(QuotedLine(argv), s, 0)
  PROVE  Between(f[Len(QuotedLine(argv))], argv)
<1>1. PICK n \in Nat : n = Len(argv)
  OBVIOUS
<1>2. PICK pieces \in Seq(Seq(Chars)) : pieces = QuotedArgs(argv) /\ Len(pieces) = n
  BY <1>1, QuotedArgsParts
<1>3. ASSUME NEW i \in 1..n
      PROVE  /\ argv[i] \in Seq(Chars) /\ InQuotes(argv[i]) \in Seq(Chars)
             /\ pieces[i] \in Seq(Chars) /\ Spaced(pieces[i], InQuotes(argv[i]))
  BY <1>1, <1>2, QuotedArgsParts
<1>4. PICK text, off : text \in Seq(Chars) /\ text = FlattenSeq(pieces) /\ Laid(off, pieces, text)
  BY FlattenLaid
<1>5. text = QuotedLine(argv)
  BY <1>2, <1>4 DEF QuotedLine, QuotedArgs
<1>7. PICK l \in Nat : l = Len(text)
  BY <1>4
<1>8. l <= Len(s) /\ \A k \in 1..l : s[k] = text[k]
  <2>1. 0 + l <= Len(s) /\ \A k \in 1..l : s[0 + k] = text[k]
    BY <1>5, <1>7 DEF Stands
  <2> QED  BY <2>1
<1>9. /\ off \in [0..n -> Nat] /\ off[0] = 0 /\ off[n] = l
      /\ \A j \in 1..n : /\ off[j] = off[j-1] + Len(pieces[j]) /\ off[j] <= l
                         /\ \A k \in 1..Len(pieces[j]) : text[off[j-1] + k] = pieces[j][k]
  BY <1>2, <1>4, <1>7 DEF Laid
<1> DEFINE G == {m \in Nat : m <= n =>
                   \E A \in Seq(Seq(Chars)) : Between(f[off[m]], A) /\ Begins(A, argv, m)}
<1>10. 0 \in G
  <2>1. 0 \in 0..Len(s)
    OBVIOUS
  <2>2. f[0] = NoWord /\ f[0] \in Reading
    BY <2>1, RunTyped DEF IsRun
  <2>3. Between(f[0], <<>>)
    BY <2>2 DEF Between, NoWord
  <2>4. Begins(<<>>, argv, 0) /\ <<>> \in Seq(Seq(Chars))
    BY DEF Begins
  <2> QED  BY <1>9, <2>3, <2>4
<1>11. ASSUME NEW m \in Nat, m \in G PROVE m + 1 \in G
  <2> SUFFICES ASSUME m + 1 <= n
               PROVE  \E A \in Seq(Seq(Chars)) :
                        Between(f[off[m + 1]], A) /\ Begins(A, argv, m + 1)
    OBVIOUS
  <2>1. PICK A \in Seq(Seq(Chars)) : Between(f[off[m]], A) /\ Begins(A, argv, m)
    BY <1>11
  <2> HIDE DEF G
  <2>2. PICK i \in 1..n : i = m + 1 /\ i - 1 = m
    OBVIOUS
  <2>3. PICK w \in Seq(Chars) : w = argv[i]
    BY <1>3
  <2>4. PICK q \in Seq(Chars) : q = InQuotes(w)
    BY <1>3, <2>3
  <2>5. PICK piece \in Seq(Chars) :
           /\ piece = pieces[i] /\ Len(piece) = Len(q) + 1 /\ piece[Len(q) + 1] = " "
           /\ \A k \in 1..Len(q) : piece[k] = q[k]
    <3>1. PICK piece \in Seq(Chars) : piece = pieces[i] /\ Spaced(piece, q)
      BY <1>3, <2>3, <2>4
    <3> QED  BY <3>1 DEF Spaced
  <2>6. PICK a \in Nat, b \in Nat :
           /\ a = off[m] /\ b = Len(q) /\ off[m + 1] = a + (b + 1)
           /\ a + (b + 1) <= Len(s)
           /\ \A k \in 1..b + 1 : s[a + k] = piece[k]
    <3>1. /\ off[i] = off[i-1] + Len(pieces[i]) /\ off[i] <= l
          /\ \A k \in 1..Len(pieces[i]) : text[off[i-1] + k] = pieces[i][k]
      BY <1>9
    <3>2. off[i-1] \in Nat
      BY <1>9, <2>2
    <3>3. PICK a \in Nat, b \in Nat : a = off[m] /\ b = Len(q)
      BY <2>2, <3>2
    <3>4. off[m + 1] = a + (b + 1) /\ a + (b + 1) <= l
      BY <2>2, <2>3, <2>4, <2>5, <3>1, <3>3
    <3>5. a + (b + 1) <= Len(s)
      BY <1>8, <3>4
    <3>6. ASSUME NEW k \in 1..b + 1 PROVE s[a + k] = piece[k]
      <4>1. a + k \in 1..l
        BY <3>4
      <4>2. s[a + k] = text[a + k]
        BY <1>8, <4>1
      <4>3. text[a + k] = piece[k]
        BY <2>2, <2>3, <2>4, <2>5, <3>1, <3>3
      <4> QED  BY <4>2, <4>3
    <3> QED  BY <3>3, <3>4, <3>5, <3>6
  <2>7. Stands(q, s, a)
    <3>1. \A k \in 1..b : k \in 1..b + 1 /\ a + b <= a + (b + 1)
      OBVIOUS
    <3>2. \A k \in 1..b : s[a + k] = q[k]
      BY <2>3, <2>4, <2>5, <2>6, <3>1
    <3>3. a + b <= Len(s)
      BY <2>6
    <3> QED  BY <2>6, <3>2, <3>3 DEF Stands
  <2>8. Outside(f[a + b], A, w)
    BY <2>1, <2>3, <2>4, <2>5, <2>6, <2>7, ThroughWord
  <2>9. s[a + b + 1] = " " /\ a + b \in Nat /\ a + b < Len(s) /\ a + b + 1 \in 1..Len(s)
        /\ a + b + 1 = a + (b + 1)
    <3>1. b + 1 \in 1..b + 1 /\ a + b + 1 = a + (b + 1)
      OBVIOUS
    <3>2. s[a + (b + 1)] = " "
      BY <2>3, <2>4, <2>5, <2>6, <3>1
    <3>3. a + b \in Nat /\ a + b < Len(s) /\ a + b + 1 \in 1..Len(s)
      <4>1. a + (b + 1) <= Len(s) /\ Len(s) \in Nat
        BY <2>6
      <4> QED  BY <4>1
    <3> QED  BY <3>1, <3>2, <3>3
  <2>10. Between(f[a + b + 1], Append(A, w))
    <3>1. f[a + b + 1] = Read(s, f[a + b], a + b + 1)
      BY <2>9, Advance
    <3> QED  BY <2>8, <2>9, <3>1, SpaceEnds
  <2>11. Append(A, argv[m + 1]) \in Seq(Seq(Chars)) /\ Begins(Append(A, argv[m + 1]), argv, m + 1)
    <3>1. m < Len(argv)
      BY <1>1
    <3> QED  BY <2>1, <3>1, BeginsNext
  <2> QED  BY <2>2, <2>3, <2>4, <2>5, <2>6, <2>9, <2>10, <2>11
<1>12. Nat \subseteq G
  <2> HIDE DEF G
  <2> QED  BY <1>10, <1>11, Inducts
<1>13. PICK A \in Seq(Seq(Chars)) : Between(f[off[n]], A) /\ Begins(A, argv, n)
  <2>1. n \in G
    <3> HIDE DEF G
    <3> QED  BY <1>12
  <2> QED  BY <2>1
<1>14. A = argv
  BY <1>1, <1>13, BeginsAll
<1> QED  BY <1>5, <1>7, <1>9, <1>13, <1>14

\* Quoted words come back as they were, and so does one more.
LEMMA QuotedWords ==
  ASSUME NEW argv \in Seq(Seq(Chars)), NEW w \in Seq(Chars)
  PROVE  /\ SplitArgv(QuotedLine(argv)) = argv
         /\ SplitArgv(QuotedLine(argv) \o InQuotes(w)) = Append(argv, w)
<1>1. PICK line \in Seq(Chars), q \in Seq(Chars) : line = QuotedLine(argv) /\ q = InQuotes(w)
  BY QuotedLineTyped, InQuotesParts
<1>2. SplitArgv(line) = argv
  <2>1. PICK f : IsRun(line, f) /\ SplitArgv(line) = Words(f[Len(line)])
    BY SplitIs
  <2>2. Stands(line, line, 0)
    BY DEF Stands
  <2>3. Between(f[Len(line)], argv)
    BY <1>1, <2>1, <2>2, ThroughLine
  <2> QED  BY <2>1, <2>3 DEF Between, Words
<1>3. SplitArgv(line \o q) = Append(argv, w)
  <2>1. PICK s \in Seq(Chars) : s = line \o q
    BY ConcatParts
  <2>2. /\ Len(s) = Len(line) + Len(q)
        /\ \A k \in 1..Len(line) : s[k] = line[k]
        /\ \A k \in 1..Len(q) : s[Len(line) + k] = q[k]
    BY <2>1, ConcatParts
  <2>3. Len(line) \in Nat /\ Len(q) \in Nat
    OBVIOUS
  <2>4. PICK f : IsRun(s, f) /\ SplitArgv(s) = Words(f[Len(s)])
    BY SplitIs
  <2>5. Stands(line, s, 0) /\ Stands(q, s, Len(line))
    BY <2>2, <2>3 DEF Stands
  <2>6. Between(f[Len(line)], argv)
    BY <1>1, <2>4, <2>5, ThroughLine
  <2>7. Outside(f[Len(s)], argv, w)
    BY <1>1, <2>2, <2>3, <2>4, <2>5, <2>6, ThroughWord
  <2> QED  BY <2>1, <2>4, <2>7 DEF Outside, Words
<1> QED  BY <1>1, <1>2, <1>3

(* ---- entries of allow_commands ---- *)

\* All but the last word.
LEMMA FrontParts ==
  ASSUME NEW S, NEW v \in Seq(S), Len(v) > 0
  PROVE  Front(v) \in Seq(S) /\ Len(Front(v)) = Len(v) - 1
<1>1. PICK n \in Nat : n = Len(v) - 1 /\ n <= Len(v)
  <2>1. Len(v) \in Nat
    OBVIOUS
  <2>2. Len(v) - 1 \in Nat /\ Len(v) - 1 <= Len(v)
    BY <2>1
  <2> QED  BY <2>2
<1>2. \A k \in 1..n : v[k] \in S
  BY <1>1
<1>3. n \in Int /\ 1 \in Int /\ (n < 1 => n = 0) /\ n - 1 + 1 = n
  OBVIOUS
<1>4. SubSeq(v, 1, n) \in Seq(S) /\ Len(SubSeq(v, 1, n)) = n
  <2>1. \A i \in 1..n : v[i] \in S
    BY <1>2
  <2> QED  BY <1>3, <2>1, SubSeqProperties
<1> QED  BY <1>1, <1>4 DEF Front

\* IsPrefix compares the words themselves.
LEMMA PrefixOfLonger ==
  ASSUME NEW S, NEW v \in Seq(S), NEW x \in S
  PROVE  IsPrefix(v, v) /\ IsPrefix(v, Append(v, x)) /\ Len(Append(v, x)) = Len(v) + 1
<1>1. PICK n \in Nat : n = Len(v)
  OBVIOUS
<1>2. PICK t \in Seq(S) : t = Append(v, x) /\ Len(t) = n + 1 /\ \A k \in 1..n : t[k] = v[k]
  <2>1. /\ Append(v, x) \in Seq(S) /\ Len(Append(v, x)) = Len(v) + 1
        /\ \A k \in 1..Len(v) : Append(v, x)[k] = v[k]
    BY AppendProperties
  <2> QED  BY <1>1, <2>1
<1>3. SubSeq(v, 1, n) = SubSeq(t, 1, n)
  <2>1. \A k \in 1..n : v[k] \in S
    BY <1>1
  <2>2. \A k \in 1..n : t[k] \in S
    BY <1>2
  <2>3. n \in Int /\ 1 \in Int /\ (n < 1 => n = 0) /\ n - 1 + 1 = n
    OBVIOUS
  <2>4. \A k \in 1..n : 1 + k - 1 = k
    OBVIOUS
  <2>5. /\ SubSeq(v, 1, n) \in Seq(S) /\ Len(SubSeq(v, 1, n)) = n
        /\ \A k \in 1..n : SubSeq(v, 1, n)[k] = v[k]
    BY <2>1, <2>3, <2>4, SubSeqProperties
  <2>6. /\ SubSeq(t, 1, n) \in Seq(S) /\ Len(SubSeq(t, 1, n)) = n
        /\ \A k \in 1..n : SubSeq(t, 1, n)[k] = t[k]
    BY <2>2, <2>3, <2>4, SubSeqProperties
  <2> QED  BY <1>2, <2>5, <2>6, SeqEqual
<1>4. n <= n /\ n <= n + 1
  OBVIOUS
<1> QED  BY <1>1, <1>2, <1>3, <1>4 DEF IsPrefix

\* A rule is made of words.
LEMMA RuleTyped ==
  ASSUME NEW entry \in Seq(Chars)
  PROVE  ParseAllowEntry(entry).prefix \in Seq(Seq(Chars))
<1>1. PICK argv \in Seq(Seq(Chars)) : argv = SplitArgv(entry)
  BY SplitTyped
<1> DEFINE any == argv # <<>> /\ Last(argv) = Star
           prefix == IF any THEN Front(argv) ELSE argv
<1>2. ParseAllowEntry(entry).prefix
        = IF \E i \in DOMAIN prefix : prefix[i] = Star THEN <<>> ELSE prefix
  BY <1>1 DEF ParseAllowEntry
<1>3. prefix \in Seq(Seq(Chars))
  <2>1. argv # <<>> => Len(argv) > 0
    OBVIOUS
  <2> QED  BY <2>1, FrontParts
<1>4. <<>> \in Seq(Seq(Chars))
  OBVIOUS
<1> HIDE DEF prefix
<1> QED  BY <1>2, <1>3, <1>4

LEMMA UpToTyped ==
  ASSUME NEW S, NEW k \in Nat PROVE UpTo(S, k) \subseteq Seq(S)
BY DEF UpTo

\* Any entry of allow_commands means its own words, whatever their number and length:
\* accepted, it lets itself through quoted word by word; with any further argument just
\* when it ends in *; and not without its last word (ParseAllowEntry, Rule.Matches).
THEOREM EntriesMeanTheirWords ==
  ASSUME NEW entry \in Seq(Chars)
  PROVE  LET rule == ParseAllowEntry(entry)
         IN /\ EntryMeansItsWords(entry)
            /\ Legal(rule) => \A w \in Seq(Chars) :
                 CheckCommand({rule}, QuotedLine(rule.prefix) \o InQuotes(w)) <=> rule.anyArgs
<1>1. PICK rule : rule = ParseAllowEntry(entry)
  OBVIOUS
<1>2. PICK prefix \in Seq(Seq(Chars)) : prefix = rule.prefix
  BY <1>1, RuleTyped
<1> SUFFICES ASSUME prefix # <<>>
             PROVE  /\ CheckCommand({rule}, QuotedLine(prefix))
                    /\ \A w \in Seq(Chars) :
                         CheckCommand({rule}, QuotedLine(prefix) \o InQuotes(w)) <=> rule.anyArgs
                    /\ Len(prefix) > 1 => ~CheckCommand({rule}, QuotedLine(Front(prefix)))
  <2>1. UpTo(Chars, 1) \subseteq Seq(Chars)
    BY UpToTyped
  <2> QED  BY <1>1, <1>2, <2>1 DEF EntryMeansItsWords, Legal
<1>3. PICK n \in Nat : n = Len(prefix) /\ n > 0
  OBVIOUS
<1>4. CheckCommand({rule}, QuotedLine(prefix))
  <2>1. SplitArgv(QuotedLine(prefix)) = prefix
    <3>1. <<>> \in Seq(Chars)
      OBVIOUS
    <3> QED  BY <3>1, QuotedWords
  <2>2. IsPrefix(prefix, prefix)
    <3>1. <<>> \in Seq(Chars)
      OBVIOUS
    <3> QED  BY <3>1, PrefixOfLonger
  <2> QED  BY <1>2, <2>1, <2>2 DEF CheckCommand, Matches
<1>5. ASSUME NEW w \in Seq(Chars)
      PROVE  CheckCommand({rule}, QuotedLine(prefix) \o InQuotes(w)) <=> rule.anyArgs
  <2>1. PICK t \in Seq(Seq(Chars)) : t = Append(prefix, w) /\ t # <<>>
    BY AppendProperties
  <2>2. SplitArgv(QuotedLine(prefix) \o InQuotes(w)) = t
    BY <2>1, QuotedWords
  <2>3. IsPrefix(prefix, t) /\ Len(t) = n + 1
    BY <1>3, <2>1, PrefixOfLonger
  <2>4. Len(t) # Len(prefix)
    BY <1>3, <2>3
  <2> QED  BY <1>2, <2>1, <2>2, <2>3, <2>4 DEF CheckCommand, Matches
<1>6. ASSUME n > 1 PROVE ~CheckCommand({rule}, QuotedLine(Front(prefix)))
  <2>1. Front(prefix) \in Seq(Seq(Chars)) /\ Len(Front(prefix)) = n - 1
    BY <1>3, FrontParts
  <2>2. SplitArgv(QuotedLine(Front(prefix))) = Front(prefix)
    <3>1. <<>> \in Seq(Chars)
      OBVIOUS
    <3> QED  BY <2>1, <3>1, QuotedWords
  <2>3. ~IsPrefix(prefix, Front(prefix))
    BY <1>3, <2>1 DEF IsPrefix
  <2> QED  BY <1>2, <2>2, <2>3 DEF CheckCommand, Matches
<1> QED  BY <1>3, <1>4, <1>5, <1>6

\* Any words quoted as the description of run_command says come back as they were,
\* whatever operators, newlines and quotes are in them (SplitArgv).
THEOREM QuotedWordsSurvive ==
  ASSUME NEW argv \in Seq(Seq(Chars)) PROVE QuotedSurvive(argv)
<1>1. <<>> \in Seq(Chars)
  OBVIOUS
<1> QED  BY <1>1, QuotedWords DEF QuotedSurvive

LEMMA NothingMisread == Misread = {}
<1>1. \A entry \in UpTo(Chars, 4) : EntryMeansItsWords(entry)
  BY UpToTyped, EntriesMeanTheirWords
<1>2. UpTo(UpTo(Chars, 2), 1) \cup UpTo(UpTo(Chars, 1), 2) \subseteq Seq(Seq(Chars))
  <2>1. \A S : S \subseteq Seq(Chars) => Seq(S) \subseteq Seq(Seq(Chars))
    OBVIOUS
  <2> QED  BY <2>1, UpToTyped
<1> QED  BY <1>1, <1>2, QuotedWordsSurvive DEF Misread

\* WordsStayWords: what abby and the model write as words stays those words (SplitArgv,
\* ParseAllowEntry, Rule.Matches); in every state, since it holds of all of them.
THEOREM WordsSurvive == Spec => []WordsStayWords
<1>1. WordsStayWords
  BY NothingMisread DEF WordsStayWords
<1> QED  BY <1>1, PTL

(* ---- the settings: documents ---- *)

LEMMA FieldsKept == SandboxFields \subseteq Fields /\ BudgetFields \subseteq Fields
BY DEF SandboxFields, BudgetFields, Fields

LEMMA NothingIsDoc == Nothing \in Doc
BY DEF Nothing, Doc

LEMMA LoadedIsDoc ==
  ASSUME SettingsTyped, file # Broken
  PROVE  Loaded \in Doc
BY NothingIsDoc DEF Loaded, SettingsTyped

\* A `set' changes the setting it names to the value, and a `reset' clears the
\* block.
LEMMA SetIsDoc ==
  ASSUME NEW d \in Doc, NEW c \in Settable
  PROVE  /\ c[1] \in Fields /\ [d EXCEPT ![c[1]] = c[2]] \in Doc
         /\ \A f \in Fields \ {c[1]} : [d EXCEPT ![c[1]] = c[2]][f] = d[f]
         /\ [d EXCEPT ![c[1]] = c[2]][c[1]] = c[2]
<1>1. c[1] \in Fields /\ c[2] \in Values
  BY ValuesAssumption DEF Values
<1> QED  BY <1>1 DEF Doc

LEMMA ResetIsDoc ==
  ASSUME NEW d \in Doc, NEW block \in Resettable
  PROVE  /\ block \subseteq Fields /\ Reset(d, block) \in Doc
         /\ \A f \in Fields \ block : Reset(d, block)[f] = d[f]
         /\ \A f \in block : Reset(d, block)[f] = Unset
<1>1. block \subseteq Fields
  BY FieldsKept DEF Resettable, Fields
<1> QED  BY <1>1 DEF Reset, Doc

\* What is written says what the command has in hand, also when it is no file.
LEMMA WrittenSays ==
  ASSUME NEW j \in Commands
  PROVE  /\ Written(j) \in Doc \cup {NoFile} /\ Written(j) # Broken
         /\ \A f \in Fields : (IF Written(j) = NoFile THEN Nothing ELSE Written(j))[f] = j.doc[f]
<1>1. j.doc \in Doc /\ j.doc # Broken /\ j.doc # NoFile
  BY ValuesAssumption DEF Commands
<1> QED  BY <1>1, ValuesAssumption DEF Written, IsZero

(* ---- the settings: the invariant ---- *)

LEMMA NotIdle == ASSUME NEW j \in Commands PROVE j # Idle
BY DEF Commands, Idle

LEMMA SettingsInitially == InitSettings => SettingsIInv
<1> SUFFICES ASSUME InitSettings PROVE SettingsIInv
  OBVIOUS
<1>1. SettingsTyped
  BY ValuesAssumption DEF InitSettings, SettingsTyped
<1>2. InHand
  BY DEF InitSettings, InHand
<1>3. OnlyChecked
  BY FieldsKept, ValuesAssumption DEF InitSettings, OnlyChecked, Overrides, Loaded, Nothing
<1> QED  BY <1>1, <1>2, <1>3 DEF SettingsIInv

LEMMA SettingsStuttering == SettingsIInv /\ UNCHANGED settingVars => SettingsIInv'
BY DEF SettingsIInv, settingVars, SettingsTyped, InHand, OnlyChecked, Overrides, Loaded

\* A command that has just loaded the file and made its change.
LEMMA TakenInHand ==
  ASSUME SettingsIInv, NEW p \in Procs, NEW j \in Commands, file # Broken,
         \A f \in Fields \ j.own : j.doc[f] = Loaded[f],
         edits = 0 => \A f \in SandboxFields : j.doc[f] \notin Illegal,
         job' = [job EXCEPT ![p] = j], raced' = [raced EXCEPT ![p] = FALSE],
         UNCHANGED <<file, lost, edits>>
  PROVE  SettingsIInv'
<1>1. SettingsTyped'
  BY DEF SettingsIInv, SettingsTyped
<1>2. InHand'
  <2> SUFFICES ASSUME NEW q \in Procs, job'[q] # Idle, ~raced'[q]
               PROVE  /\ file' # Broken
                      /\ \A f \in Fields \ job'[q].own : job'[q].doc[f] = Loaded'[f]
    BY DEF InHand
  <2>1. Loaded' = Loaded
    BY DEF Loaded
  <2>2. CASE q = p
    BY <2>1, <2>2 DEF SettingsIInv, SettingsTyped
  <2>3. CASE q # p
    BY <2>1, <2>3 DEF SettingsIInv, SettingsTyped, InHand
  <2> QED  BY <2>2, <2>3
<1>3. OnlyChecked'
  <2>1. Overrides' = Overrides
    BY DEF Overrides, Loaded
  <2>2. \A q \in Procs : job'[q] = IF q = p THEN j ELSE job[q]
    BY DEF SettingsIInv, SettingsTyped
  <2> QED  BY <2>1, <2>2 DEF SettingsIInv, OnlyChecked
<1> QED  BY <1>1, <1>2, <1>3 DEF SettingsIInv

LEMMA SettingsPreserved == SettingsIInv /\ NextSettings => SettingsIInv'
<1> SUFFICES ASSUME SettingsIInv, NextSettings PROVE SettingsIInv'
  OBVIOUS
<1>0. SettingsTyped /\ InHand /\ OnlyChecked
  BY DEF SettingsIInv
<1>1. ASSUME NEW p \in Procs, NEW c \in Settable, StartSet(p, c[1], c[2]) PROVE SettingsIInv'
  <2> DEFINE d == [Loaded EXCEPT ![c[1]] = c[2]]
             j == [kind |-> "set", own |-> {c[1]}, doc |-> d]
  <2>1. file # Broken /\ Loaded \in Doc
    BY <1>0, <1>1, LoadedIsDoc DEF StartSet
  <2>2. /\ c[1] \in Fields /\ d \in Doc /\ d[c[1]] = c[2]
        /\ \A f \in Fields \ {c[1]} : d[f] = Loaded[f]
    BY <2>1, SetIsDoc
  <2>3. j \in Commands
    BY <2>2 DEF Commands
  <2>4. edits = 0 => \A f \in SandboxFields : d[f] \notin Illegal
    <3> SUFFICES ASSUME edits = 0, NEW f \in SandboxFields PROVE d[f] \notin Illegal
      OBVIOUS
    <3>1. CASE f = c[1]
      BY <1>1, <2>2, <3>1 DEF StartSet, Accepts
    <3>2. CASE f # c[1]
      BY <1>0, <2>1, <2>2, <3>2, FieldsKept DEF OnlyChecked, Overrides
    <3> QED  BY <3>1, <3>2
  <2>5. /\ job' = [job EXCEPT ![p] = j] /\ raced' = [raced EXCEPT ![p] = FALSE]
        /\ UNCHANGED <<file, lost, edits>>
    BY <1>1 DEF StartSet
  <2>6. j.doc = d /\ j.own = {c[1]}
    OBVIOUS
  <2> HIDE DEF d, j
  <2> QED  BY <2>1, <2>2, <2>3, <2>4, <2>5, <2>6, TakenInHand
<1>2. ASSUME NEW p \in Procs, NEW block \in Resettable, StartReset(p, block) PROVE SettingsIInv'
  <2> DEFINE d == Reset(Loaded, block)
             j == [kind |-> "reset", own |-> block, doc |-> d]
  <2>1. file # Broken /\ Loaded \in Doc
    BY <1>0, <1>2, LoadedIsDoc DEF StartReset
  <2>2. /\ block \subseteq Fields /\ d \in Doc /\ \A f \in block : d[f] = Unset
        /\ \A f \in Fields \ block : d[f] = Loaded[f]
    BY <2>1, ResetIsDoc
  <2>3. j \in Commands
    BY <2>2 DEF Commands
  <2>4. edits = 0 => \A f \in SandboxFields : d[f] \notin Illegal
    BY <1>0, <2>1, <2>2, FieldsKept, ValuesAssumption DEF OnlyChecked, Overrides
  <2>5. /\ job' = [job EXCEPT ![p] = j] /\ raced' = [raced EXCEPT ![p] = FALSE]
        /\ UNCHANGED <<file, lost, edits>>
    BY <1>2 DEF StartReset
  <2>6. j.doc = d /\ j.own = block
    OBVIOUS
  <2> HIDE DEF d, j
  <2> QED  BY <2>1, <2>2, <2>3, <2>4, <2>5, <2>6, TakenInHand
<1>3. ASSUME NEW p \in Procs, Write(p) PROVE SettingsIInv'
  <2>1. job[p] \in Commands /\ file' = Written(job[p])
    BY <1>0, <1>3 DEF Write, SettingsTyped
  <2>2. SettingsTyped'
    BY <1>0, <1>3, <2>1, WrittenSays DEF Write, SettingsTyped
  <2>3. InHand'
    BY <1>0, <1>3 DEF Write, SettingsTyped, InHand
  <2>4. OnlyChecked'
    <3> SUFFICES ASSUME edits = 0
                 PROVE  /\ file' # Broken
                        /\ \A f \in SandboxFields :
                             Overrides'[f] \notin Illegal
                               /\ \A q \in Procs : job'[q] # Idle
                                                    => job'[q].doc[f] \notin Illegal
      BY <1>3 DEF Write, OnlyChecked
    <3>1. \A f \in Fields : Overrides'[f] = job[p].doc[f]
      BY <2>1, WrittenSays DEF Overrides, Loaded
    <3>2. \A q \in Procs : job'[q] # Idle => job'[q] = job[q]
      BY <1>0, <1>3 DEF Write, SettingsTyped
    <3> QED  BY <1>0, <1>3, <2>1, <3>1, <3>2, FieldsKept, WrittenSays DEF Write, OnlyChecked
  <2> QED  BY <2>2, <2>3, <2>4 DEF SettingsIInv
<1>4. ASSUME NEW p \in Procs, Dies(p) PROVE SettingsIInv'
  <2>1. \A q \in Procs : job'[q] # Idle => job'[q] = job[q]
    BY <1>0, <1>4 DEF Dies, SettingsTyped
  <2>2. SettingsTyped'
    BY <1>0, <1>4 DEF Dies, SettingsTyped
  <2>3. InHand' /\ OnlyChecked'
    BY <1>0, <1>4, <2>1 DEF Dies, InHand, OnlyChecked, Overrides, Loaded
  <2> QED  BY <2>2, <2>3 DEF SettingsIInv
<1>5. ASSUME NEW c \in HandEdits, HandEdit(c) PROVE SettingsIInv'
  <2>1. SettingsTyped'
    BY <1>0, <1>5, ValuesAssumption DEF HandEdit, SettingsTyped
  <2>2. InHand'
    BY <1>0, <1>5 DEF HandEdit, SettingsTyped, InHand
  <2>3. OnlyChecked'
    BY <1>0, <1>5, ValuesAssumption DEF HandEdit, SettingsTyped, OnlyChecked
  <2> QED  BY <2>1, <2>2, <2>3 DEF SettingsIInv
<1>6. ASSUME NEW d \in Dangling, LoseTarget(d) PROVE SettingsIInv'
  BY <1>0, <1>6 DEF LoseTarget, SettingsIInv, SettingsTyped, InHand, OnlyChecked, Overrides, Loaded
<1> QED  BY <1>1, <1>2, <1>3, <1>4, <1>5, <1>6 DEF NextSettings

\* The inductive invariant of the agent's settings.
THEOREM SettingsInvariance == SettingsSpec => []SettingsIInv
BY SettingsInitially, SettingsStuttering, SettingsPreserved, PTL DEF SettingsSpec

(* ---- the settings: what follows ---- *)

\* A config command that nobody overtook keeps every setting but those it names,
\* whatever the file holds and whoever else writes (WriteFieldTo, ResetFieldTo).
THEOREM OtherSettingsKept == SettingsSpec => KeepsOtherSettings
<1> DEFINE Kept(p) ==
      Finishes(p) /\ ~raced[p] =>
        /\ file # Broken
        /\ \A f \in Fields \ job[p].own :
             (IF file' = NoFile THEN Nothing ELSE file')[f] = Loaded[f]
<1>1. ASSUME SettingsIInv, NextSettings, NEW p \in Procs, Finishes(p), ~raced[p]
      PROVE  Write(p)
  <2>1. ~(\E d \in Dangling : LoseTarget(d)) /\ ~(\E q \in Procs : Dies(q))
    BY <1>1 DEF LoseTarget, Dies, Finishes
  <2>2. ~(\E c \in HandEdits : HandEdit(c))
    BY <1>1 DEF HandEdit, Finishes
  <2>3. \A q \in Procs, c \in Settable : ~StartSet(q, c[1], c[2])
    BY <1>1 DEF StartSet, Finishes
  <2>4. \A q \in Procs, block \in Resettable : ~StartReset(q, block)
    BY <1>1 DEF StartReset, Finishes
  <2>5. \A q \in Procs : Write(q) => q = p
    BY <1>1 DEF Write, Finishes, SettingsIInv, SettingsTyped
  <2> QED  BY <1>1, <2>1, <2>2, <2>3, <2>4, <2>5 DEF NextSettings
<1>2. ASSUME SettingsIInv, NextSettings, NEW p \in Procs PROVE Kept(p)
  <2> SUFFICES ASSUME Finishes(p), ~raced[p]
               PROVE  /\ file # Broken
                      /\ \A f \in Fields \ job[p].own :
                           (IF file' = NoFile THEN Nothing ELSE file')[f] = Loaded[f]
    OBVIOUS
  <2>1. Write(p) /\ job[p] \in Commands /\ file' = Written(job[p])
    BY <1>1, <1>2 DEF Write, SettingsIInv, SettingsTyped
  <2> QED  BY <1>2, <2>1, WrittenSays DEF SettingsIInv, InHand, Write
<1>3. SettingsIInv /\ [NextSettings]_settingVars => [\A p \in Procs : Kept(p)]_settingVars
  BY <1>2
<1> QED  BY <1>3, SettingsInvariance, PTL DEF SettingsSpec, KeepsOtherSettings

\* While only the commands have written the file and every directory resolves,
\* an agent starts with the sandbox that `config get' shows (effectiveSandbox,
\* sandboxFields).
THEOREM ShownAndEnforced == SettingsSpec => []ShownIsEnforced
<1>1. SettingsIInv => ShownIsEnforced
  <2> SUFFICES ASSUME SettingsIInv, edits = 0, lost = {}
               PROVE  effectiveSandbox(Overrides) = sandboxFields(Overrides)
    BY DEF ShownIsEnforced
  <2> DEFINE o == Overrides
  <2>1. \A f \in SandboxFields : o[f] \notin Illegal
    BY DEF SettingsIInv, OnlyChecked
  <2>2. SandboxOf(Merged(o)) = sandboxFields(o)
    BY <2>1, FieldsKept DEF SandboxOf, Merged, PassedOver, sandboxFields
  <2>3. \A f \in SandboxFields : sandboxFields(o)[f] \notin Illegal
    BY <2>1, CompiledAssumption DEF sandboxFields
  <2>4. Builds(sandboxFields(o))
    BY <2>3 DEF Builds
  <2> HIDE DEF o
  <2>5. effectiveSandbox(o) = sandboxFields(o)
    BY <2>2, <2>4 DEF effectiveSandbox
  <2> QED  BY <2>5 DEF o
<1> QED  BY <1>1, SettingsInvariance, PTL

\* Whatever the file holds and whatever cannot be built, no sandbox value is one
\* that neither the file nor the binary gives (effectiveSandbox).
THEOREM NeverWider == SettingsSpec => []NeverWiderThanGiven
<1>1. NeverWiderThanGiven
  <2> SUFFICES ASSUME NEW f \in SandboxFields
               PROVE  effectiveSandbox(Overrides)[f] \in
                        {Denied, Compiled[f]} \cup ({Overrides[f]} \ (Illegal \cup {Unset}))
    BY DEF NeverWiderThanGiven
  <2> DEFINE o == Overrides
             wanted == SandboxOf(Merged(o))
  <2>1. wanted[f] \in {Compiled[f]} \cup ({o[f]} \ {Unset})
    BY FieldsKept DEF SandboxOf, Merged, PassedOver
  <2>2. CASE Builds(wanted)
    <3>1. effectiveSandbox(o) = wanted /\ wanted[f] \notin Illegal
      BY <2>2 DEF effectiveSandbox, Builds
    <3> QED  BY <2>1, <3>1
  <2>3. CASE ~Builds(wanted)
    <3>1. effectiveSandbox(o) \in {SandboxOf(Compiled), [g \in SandboxFields |-> Denied]}
      BY <2>3 DEF effectiveSandbox
    <3> QED  BY <3>1 DEF SandboxOf
  <2> QED  BY <2>2, <2>3
<1> QED  BY <1>1, PTL
==============================================================================
