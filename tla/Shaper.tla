-------------------------------- MODULE Shaper --------------------------------
(***************************************************************************)
(* The context budget, from the context_budget block of an agent's         *)
(* definition (pkg/definition/agent.go) through the generated source       *)
(* (pkg/builder/builder.go) to the shaping of a tool's output and the size *)
(* hint given to Claude Code (pkg/tools/shaper.go, executor.go).           *)
(*                                                                         *)
(* Output is a sequence of characters: a character of line i is i, and     *)
(* NewLine ends a line.  The marker and the suffix are MarkerLength and    *)
(* SuffixLength characters; a character is a byte.                         *)
(***************************************************************************)
EXTENDS Integers, Sequences, FiniteSets, SequencesExt

CONSTANTS
  DefaultLines, DefaultBytes, DefaultHead, DefaultTail,
  Ceiling,          \* maxResultSizeCharsCeiling
  MarkerLength, SuffixLength,
  Omitted           \* a limit the definition does not give

ASSUME BudgetAssumption ==
  /\ {DefaultLines, DefaultBytes, DefaultHead, DefaultTail} \subseteq Nat \ {0}
  /\ Ceiling \in Nat /\ DefaultBytes <= Ceiling
  /\ {MarkerLength, SuffixLength} \subseteq Nat \ {0}
  /\ Omitted \notin Int

Strategies == {"head-tail", "spill", "passthrough"}

(* ---- from the definition to the binary ---- *)

\* A context_budget block of a definition, of the agent or of one of its tools;
\* "odd" is any other text.
Block == [lines : Int \cup {Omitted}, bytes : Int \cup {Omitted},
          overflow : Strategies \cup {"", "odd"},
          head : Int, tail : Int, inlineLarge : BOOLEAN]

wellFormed(c) ==
  /\ c.overflow \in Strategies \cup {""}
  /\ c.lines = Omitted \/ c.lines >= 0
  /\ c.bytes = Omitted \/ c.bytes >= 0
  /\ c.head >= 0 /\ c.tail >= 0

\* Mutant: an explicit 0 of the agent's block counts as omitted.
capOrDefault(base, pt) ==
  CASE pt.bytes \notin {Omitted, 0} -> pt.bytes
    [] pt.bytes \in {Omitted, 0} /\ base.bytes \notin {Omitted, 0} -> base.bytes
    [] OTHER -> DefaultBytes

\* The cap inline_large is checked against when the agent is built.
checkedCap(base, pt) ==
  CASE pt.bytes \notin {Omitted, 0} -> pt.bytes
    [] pt.bytes \in {Omitted, 0} /\ base.bytes # Omitted -> base.bytes
    [] OTHER -> DefaultBytes

checkInlineLargeCap(base, pt) == checkedCap(base, pt) \in 1..Ceiling

\* The block of an agent and that of one of its tools.
validateContextBudget(base, pt) ==
  /\ wellFormed(base) /\ ~base.inlineLarge
  /\ wellFormed(pt)
  /\ pt.inlineLarge => checkInlineLargeCap(base, pt)

Or(v, d) == IF v = Omitted THEN d ELSE v
NotZero(v, d) == IF v = 0 THEN d ELSE v

\* An explicit 0 is unlimited, and stays 0.
buildBase(c) ==
  [lines |-> Or(c.lines, DefaultLines), bytes |-> Or(c.bytes, DefaultBytes),
   overflow |-> IF c.overflow = "" THEN "head-tail" ELSE c.overflow,
   head |-> NotZero(c.head, DefaultHead), tail |-> NotZero(c.tail, DefaultTail),
   inlineLarge |-> FALSE]

\* For a tool, what is omitted is 0, which inherits.
buildTool(c) == [c EXCEPT !.lines = Or(@, 0), !.bytes = Or(@, 0)]

(* ---- pkg/tools ---- *)

effectiveFor(b, pt) ==
  [lines |-> NotZero(pt.lines, b.lines), bytes |-> NotZero(pt.bytes, b.bytes),
   overflow |-> IF pt.overflow = "" THEN b.overflow ELSE pt.overflow,
   head |-> NotZero(pt.head, b.head), tail |-> NotZero(pt.tail, b.tail)]

\* 0: no hint.
ResultSizeHint(b, pt) ==
  LET limit == effectiveFor(b, pt).bytes
  IN IF ~pt.inlineLarge \/ limit <= 0 THEN 0 ELSE IF limit < Ceiling THEN limit ELSE Ceiling

NewLine == 0
Marker == [i \in 1..MarkerLength |-> -1]
Suffix == [i \in 1..SuffixLength |-> -2]

\* Lines as sequences of characters, joined.
Text(lines) ==
  FlattenSeq([i \in DOMAIN lines |-> IF i < Len(lines) THEN Append(lines[i], NewLine)
                                                       ELSE lines[i]])

TrimNewlines(s) ==
  LET kept == {n \in 0..Len(s) : \A i \in n+1..Len(s) : s[i] = NewLine}
  IN SubSeq(s, 1, CHOOSE n \in kept : \A k \in kept : n <= k)

truncateBytes(s, max) == IF max <= 0 \/ Len(s) <= max THEN s ELSE SubSeq(s, 1, max)

appendCappedSuffix(s, max) ==
  CASE max <= 0 -> s \o Suffix
    [] max > 0 /\ max <= SuffixLength -> Suffix
    [] OTHER -> truncateBytes(s, max - SuffixLength) \o Suffix

\* Mutant: head and tail may overlap.
HeadTailAsGiven(eff, n) == <<IF eff.head < n THEN eff.head ELSE n,
                             IF eff.tail < n THEN eff.tail ELSE n>>

\* head and tail as Shape settles them for n lines.
HeadTail(eff, n) ==
  LET head == IF eff.head + eff.tail = 0 THEN 1 ELSE eff.head
  IN IF head + eff.tail >= n THEN <<n, 0>> ELSE <<head, eff.tail>>

assemble(lines, head, tail) ==
  LET n == Len(lines)
      ended(i) == IF i < n \/ i <= head THEN Append(lines[i], NewLine) ELSE lines[i]
  IN TrimNewlines(FlattenSeq([i \in 1..head |-> ended(i)]) \o Append(Marker, NewLine)
                  \o FlattenSeq([i \in 1..tail |-> ended(n - tail + i)]))

Over(eff, lines) ==
  \/ eff.lines > 0 /\ Len(lines) > eff.lines
  \/ eff.bytes > 0 /\ Len(Text(lines)) > eff.bytes

Shape(eff, lines) ==
  LET ht == HeadTail(eff, Len(lines))
      preview == truncateBytes(assemble(lines, ht[1], ht[2]), eff.bytes)
  IN CASE ~Over(eff, lines) \/ eff.overflow = "passthrough" -> Text(lines)
       [] Over(eff, lines) /\ eff.overflow = "spill" -> appendCappedSuffix(preview, eff.bytes)
       [] OTHER -> preview

(* ---- properties, over bounded inputs ---- *)

Outputs == UNION {[1..n -> 0..2] : n \in 1..4}
Lines(lengths) == [i \in DOMAIN lengths |-> [k \in 1..lengths[i] |-> i]]
Caps == {0, 2, 3, 5, 8}
Effective == [lines : {0, 2}, bytes : Caps, overflow : Strategies, head : 0..2, tail : 0..2]

Count(s, c) == Cardinality({k \in 1..Len(s) : s[k] = c})

\* The characters of lines come in the order of the lines.
InOrder(s) ==
  \A j, k \in 1..Len(s) : j < k /\ s[j] > 0 /\ s[k] > 0 => s[j] <= s[k]

\* Output over its budget comes back within the byte cap, unless the pointer to
\* the full output alone is longer; what is shown is the output's own text, each
\* character once and in order, around the marker; and without a byte cap the
\* lines shown are exactly the head and the tail asked for.
ShapedSoundly(eff, o) ==
  LET lines == Lines(o)
      out == Shape(eff, lines)
      first(i) == eff.head + eff.tail = 0 /\ i = 1
      shown(i) == i <= eff.head \/ i > Len(lines) - eff.tail \/ first(i)
  IN Over(eff, lines) /\ eff.overflow # "passthrough" =>
       /\ eff.bytes > 0 => Len(out) <= eff.bytes \/ out = Suffix
       /\ InOrder(out)
       /\ \A i \in DOMAIN lines : Count(out, i) <= o[i]
       /\ eff.bytes = 0 =>
            \A i \in DOMAIN lines : Count(out, i) = IF shown(i) THEN o[i] ELSE 0

Misshaped == {c \in Effective \X Outputs : ~ShapedSoundly(c[1], c[2])}

Blocks == [lines : {Omitted, 0}, bytes : {Omitted, 0, 3, DefaultBytes, Ceiling, Ceiling + 1},
           overflow : {"", "spill", "odd"}, head : {0}, tail : {0, -1}, inlineLarge : BOOLEAN]

\* A definition that asks for inline_large and is accepted is honoured by the
\* running agent: a hint is given, it is the cap in force, and it is a value that
\* Claude Code accepts; the three places that work out the cap agree.
Honoured(base, pt) ==
  LET b == buildBase(base)
      t == buildTool(pt)
  IN validateContextBudget(base, pt) /\ pt.inlineLarge =>
       /\ ResultSizeHint(b, t) = effectiveFor(b, t).bytes
       /\ ResultSizeHint(b, t) \in 1..Ceiling

Dishonoured == {c \in Blocks \X Blocks : ~Honoured(c[1], c[2])}
==============================================================================
