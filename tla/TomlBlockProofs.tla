--------------------------- MODULE TomlBlockProofs ---------------------------
(***************************************************************************)
(* Proofs about TomlBlock, for files of any length: what the editor makes  *)
(* of a file, line by line (Weave), against what the decoder reads of it   *)
(* (Scanned, Reading).  UpsertExact and RemoveExact say what an edit       *)
(* leaves, EasyAccepted when one is not refused, ExactEdits that it keeps  *)
(* to its own block; NoneMisedited says that of the files of the checks.   *)
(*                                                                         *)
(* Edits after edits are in CliWriterProofs.                               *)
(***************************************************************************)
EXTENDS TomlBlock, FiniteSetTheorems, SequenceTheorems, TLAPS

(* ---- induction ---- *)

\* A set of natural numbers has a least element.
LEMMA LeastNat ==
  ASSUME NEW T, T \subseteq Nat, T # {}
  PROVE  \E m \in T : \A n \in T : m <= n
<1> DEFINE R == {ss \in Nat \X Nat : ss[1] < ss[2]}
<1>1. R = OpToRel(<, Nat)
  BY DEF OpToRel
<1>2. IsWellFoundedOn(R, Nat)
  BY <1>1, NatLessThanWellFounded
<1>3. \E x \in T : \A y \in T : ~ (<<y, x>> \in R)
  <2> HIDE DEF R
  <2> QED  BY <1>2, WFMin, Zenon
<1>4. PICK x \in T : \A y \in T : ~ (<<y, x>> \in R)
  BY <1>3
<1>5. \A y \in T : y \in Nat /\ x \in Nat
  OBVIOUS
<1>6. \A y \in T : ~ (y < x)
  BY <1>4, <1>5
<1> QED  BY <1>5, <1>6

\* Induction, over a set in place of a predicate.
LEMMA Inducts ==
  ASSUME NEW G, 0 \in G, \A n \in Nat : n \in G => n + 1 \in G
  PROVE  Nat \subseteq G
<1> DEFINE T == Nat \ G
<1> SUFFICES ASSUME T # {} PROVE FALSE
  OBVIOUS
<1>1. PICK m \in T : \A n \in T : m <= n
  <2>1. T \subseteq Nat
    OBVIOUS
  <2> HIDE DEF T
  <2> QED  BY <2>1, LeastNat
<1>2. m \in Nat /\ m # 0
  OBVIOUS
<1>3. m - 1 \in Nat /\ m - 1 \notin T
  BY <1>1, <1>2
<1>4. (m - 1) + 1 \in G
  BY <1>3
<1> QED  BY <1>2, <1>4

(* ---- flattening ---- *)

\* F holds the concatenations of the first pieces.
Grows(F, ss) == F = [i \in 1..Len(ss) |-> IF i = 1 THEN ss[i] ELSE F[i-1] \o ss[i]]

\* FlattenSeq has the partial concatenations it is defined by.
LEMMA PartsExist ==
  ASSUME NEW S, NEW ss \in Seq(Seq(S)) PROVE  \E F : Grows(F, ss)
<1> DEFINE n == Len(ss)
           Part(F, m) == F = [i \in 1..m |-> IF i = 1 THEN ss[i] ELSE F[i-1] \o ss[i]]
           G == {m \in Nat : \E F : Part(F, m)}
<1>1. 0 \in G
  <2>1. Part(<<>>, 0)
    OBVIOUS
  <2> QED  BY <2>1
<1>2. ASSUME NEW m \in Nat, m \in G PROVE m + 1 \in G
  <2>1. PICK F : Part(F, m)
    BY <1>2
  <2> DEFINE H == [i \in 1..m + 1 |-> IF i = m + 1
                                       THEN IF m = 0 THEN ss[1] ELSE F[m] \o ss[m + 1]
                                       ELSE F[i]]
  <2>2. ASSUME NEW i \in 1..m + 1
        PROVE  H[i] = IF i = 1 THEN ss[i] ELSE H[i-1] \o ss[i]
    <3>1. CASE i = m + 1
      BY <3>1
    <3>2. CASE i # m + 1
      <4>1. i \in 1..m
        BY <3>2
      <4>2. F[i] = IF i = 1 THEN ss[i] ELSE F[i-1] \o ss[i]
        BY <2>1, <4>1
      <4>3. H[i] = F[i] /\ (i # 1 => H[i-1] = F[i-1])
        BY <3>2, <4>1
      <4> QED  BY <4>2, <4>3
    <3> QED  BY <3>1, <3>2
  <2>3. Part(H, m + 1)
    <3>1. H = [i \in 1..m + 1 |-> H[i]]
      OBVIOUS
    <3> HIDE DEF H
    <3> QED  BY <2>2, <3>1, Zenon
  <2>4. m + 1 \in Nat
    OBVIOUS
  <2> HIDE DEF H
  <2> QED  BY <2>3, <2>4
<1>3. Nat \subseteq G
  <2> HIDE DEF G
  <2> QED  BY <1>1, <1>2, Inducts
<1>4. n \in Nat
  OBVIOUS
<1> QED  BY <1>3, <1>4 DEF Grows

\* FlattenSeq is the last of them.
LEMMA FlattenParts ==
  ASSUME NEW S, NEW ss \in Seq(Seq(S)), Len(ss) > 0
  PROVE  \E F : Grows(F, ss) /\ FlattenSeq(ss) = F[Len(ss)]
<1> DEFINE flatten[i \in 1..Len(ss)] == IF i = 1 THEN ss[i] ELSE flatten[i-1] \o ss[i]
<1>1. FlattenSeq(ss) = flatten[Len(ss)]
  BY Len(ss) # 0 DEF FlattenSeq
<1>2. Grows(flatten, ss)
  <2>1. \E F : F = [i \in 1..Len(ss) |-> IF i = 1 THEN ss[i] ELSE F[i-1] \o ss[i]]
    BY PartsExist DEF Grows
  <2> QED  BY <2>1, Zenon DEF Grows
<1> HIDE DEF flatten
<1> QED  BY <1>1, <1>2

\* Where the characters of two joined texts are.
LEMMA ConcatParts ==
  ASSUME NEW S, NEW s \in Seq(S), NEW t \in Seq(S)
  PROVE  /\ s \o t \in Seq(S) /\ Len(s \o t) = Len(s) + Len(t)
         /\ \A k \in 1..Len(s) : (s \o t)[k] = s[k]
         /\ \A k \in 1..Len(t) : (s \o t)[Len(s) + k] = t[k]
<1>1. Len(s) \in Nat /\ Len(t) \in Nat
  OBVIOUS
<1>2. ASSUME NEW k \in 1..Len(t)
      PROVE  Len(s) + k \in 1..Len(s) + Len(t) /\ ~(Len(s) + k <= Len(s))
             /\ Len(s) + k - Len(s) = k
  BY <1>1
<1>3. ASSUME NEW k \in 1..Len(s) PROVE k \in 1..Len(s) + Len(t) /\ k <= Len(s)
  BY <1>1
<1> QED  BY <1>2, <1>3, ConcatProperties

\* The concatenations of the first pieces are sequences.
LEMMA GrowsTyped ==
  ASSUME NEW S, NEW ss \in Seq(Seq(S)), NEW F, Grows(F, ss)
  PROVE  \A j \in 1..Len(ss) : F[j] \in Seq(S)
<1> DEFINE G == {m \in Nat : m \in 1..Len(ss) => F[m] \in Seq(S)}
<1>1. \A j \in 1..Len(ss) : F[j] = IF j = 1 THEN ss[j] ELSE F[j-1] \o ss[j]
  BY DEF Grows
<1>2. 0 \in G
  OBVIOUS
<1>3. ASSUME NEW m \in Nat, m \in G PROVE m + 1 \in G
  <2> SUFFICES ASSUME m + 1 \in 1..Len(ss) PROVE F[m + 1] \in Seq(S)
    OBVIOUS
  <2>1. ss[m + 1] \in Seq(S)
    OBVIOUS
  <2>2. CASE m = 0
    BY <1>1, <2>1, <2>2
  <2>3. CASE m # 0
    <3>1. PICK i \in 1..Len(ss) : i = m + 1 /\ i # 1 /\ i - 1 = m /\ m \in 1..Len(ss)
      BY <2>3
    <3>2. F[m] \in Seq(S)
      BY <1>3, <3>1
    <3>3. F[i] = F[i-1] \o ss[i]
      BY <1>1, <3>1, Zenon
    <3>4. F[i-1] \in Seq(S) /\ ss[i] \in Seq(S)
      BY <2>1, <3>1, <3>2
    <3>5. F[i] \in Seq(S)
      BY <3>3, <3>4, ConcatParts, Zenon
    <3> QED  BY <3>1, <3>5
  <2> QED  BY <2>2, <2>3
<1>4. Nat \subseteq G
  <2> HIDE DEF G
  <2> QED  BY <1>2, <1>3, Inducts
<1> QED  BY <1>4

\* Induction on the length of a sequence, over a set in place of a predicate.
LEMMA SeqInducts ==
  ASSUME NEW S, NEW G, <<>> \in G,
         \A s \in Seq(S), e \in S : s \in G => Append(s, e) \in G
  PROVE  Seq(S) \subseteq G
<1> DEFINE H == {n \in Nat : \A s \in Seq(S) : Len(s) = n => s \in G}
<1>1. 0 \in H
  <2>1. \A s \in Seq(S) : Len(s) = 0 => s = <<>>
    OBVIOUS
  <2> QED  BY <2>1
<1>2. ASSUME NEW n \in Nat, n \in H PROVE n + 1 \in H
  <2> SUFFICES ASSUME NEW s \in Seq(S), Len(s) = n + 1 PROVE s \in G
    OBVIOUS
  <2>1. s # <<>>
    OBVIOUS
  <2>2. PICK t \in Seq(S), e \in S : s = Append(t, e)
    BY <2>1, SequenceEmptyOrAppend
  <2>3. Len(t) = n
    <3>1. Len(s) = Len(t) + 1 /\ Len(t) \in Nat
      BY <2>2, AppendProperties
    <3> QED  BY <3>1
  <2>4. t \in G
    BY <1>2, <2>3
  <2> QED  BY <2>2, <2>4
<1>3. Nat \subseteq H
  <2> HIDE DEF H
  <2> QED  BY <1>1, <1>2, Inducts
<1> QED  BY <1>3

\* Two functions that start alike and go on alike agree.
LEMMA Agree ==
  ASSUME NEW n \in Nat, NEW F, NEW H, F[0] = H[0],
         \A i \in 1..n : F[i - 1] = H[i - 1] => F[i] = H[i]
  PROVE  \A i \in 0..n : F[i] = H[i]
<1> DEFINE G == {m \in Nat : m <= n => F[m] = H[m]}
<1>1. 0 \in G
  OBVIOUS
<1>2. ASSUME NEW m \in Nat, m \in G PROVE m + 1 \in G
  <2> SUFFICES ASSUME m + 1 <= n PROVE F[m + 1] = H[m + 1]
    OBVIOUS
  <2>1. PICK i \in 1..n : i = m + 1 /\ i - 1 = m
    OBVIOUS
  <2>2. F[m] = H[m]
    BY <1>2
  <2> QED  BY <2>1, <2>2
<1>3. Nat \subseteq G
  <2> HIDE DEF G
  <2> QED  BY <1>1, <1>2, Inducts
<1> QED  BY <1>3

\* Steps of one type, one after the other.
Steps(F, T, base, n, g) ==
  F \in [0..n -> T] /\ F[0] = base /\ \A i \in 1..n : F[i] = g[i][F[i - 1]]

LEMMA StepsExist ==
  ASSUME NEW T, NEW base \in T, NEW n \in Nat, NEW g \in [1..n -> [T -> T]]
  PROVE  \E F : Steps(F, T, base, n, g)
<1> DEFINE Part(F, m) == F \in [0..m -> T] /\ F[0] = base
                         /\ \A i \in 1..m : F[i] = g[i][F[i - 1]]
           G == {m \in Nat : m <= n => \E F : Part(F, m)}
<1>1. 0 \in G
  <2>1. Part([i \in 0..0 |-> base], 0)
    OBVIOUS
  <2> QED  BY <2>1
<1>2. ASSUME NEW m \in Nat, m \in G PROVE m + 1 \in G
  <2> SUFFICES ASSUME m + 1 <= n PROVE \E F : Part(F, m + 1)
    OBVIOUS
  <2>1. PICK F : Part(F, m)
    BY <1>2
  <2>2. F \in [0..m -> T] /\ F[0] = base
    BY <2>1
  <2>3. g[m + 1][F[m]] \in T
    <3>1. m + 1 \in 1..n /\ m \in 0..m
      OBVIOUS
    <3>2. g[m + 1] \in [T -> T] /\ F[m] \in T
      BY <2>2, <3>1
    <3> QED  BY <3>2
  <2> DEFINE H == [i \in 0..m + 1 |-> IF i = m + 1 THEN g[m + 1][F[m]] ELSE F[i]]
  <2>4. H \in [0..m + 1 -> T] /\ H[0] = base
    <3>1. \A i \in 0..m + 1 : i # m + 1 => i \in 0..m
      OBVIOUS
    <3>2. 0 \in 0..m + 1 /\ 0 # m + 1
      OBVIOUS
    <3> QED  BY <2>2, <2>3, <3>1, <3>2
  <2>5. ASSUME NEW i \in 1..m + 1 PROVE H[i] = g[i][H[i - 1]]
    <3>1. CASE i = m + 1
      BY <3>1
    <3>2. CASE i # m + 1
      <4>1. i \in 1..m /\ i - 1 \in 0..m + 1 /\ i - 1 # m + 1 /\ i \in 0..m + 1
        BY <3>2
      <4>2. F[i] = g[i][F[i - 1]]
        BY <2>1, <4>1
      <4> QED  BY <3>2, <4>1, <4>2
    <3> QED  BY <3>1, <3>2
  <2>6. Part(H, m + 1)
    <3> HIDE DEF H
    <3> QED  BY <2>4, <2>5
  <2> HIDE DEF H
  <2> QED  BY <2>6
<1>3. Nat \subseteq G
  <2> HIDE DEF G
  <2> QED  BY <1>1, <1>2, Inducts
<1>4. n \in G
  BY <1>3
<1> QED  BY <1>4 DEF Steps

(* ---- sequences ---- *)

\* FlattenSeq of nothing.
LEMMA FlattenNone == FlattenSeq(<<>>) = <<>>
BY DEF FlattenSeq

\* FlattenSeq of sequences is a sequence.
LEMMA FlattenType ==
  ASSUME NEW S, NEW ss \in Seq(Seq(S)) PROVE FlattenSeq(ss) \in Seq(S)
<1>1. CASE Len(ss) = 0
  <2>1. FlattenSeq(ss) = <<>>
    BY <1>1 DEF FlattenSeq
  <2> QED  BY <2>1
<1>2. CASE Len(ss) # 0
  <2>1. Len(ss) > 0 /\ Len(ss) \in 1..Len(ss)
    BY <1>2
  <2>2. PICK F : Grows(F, ss) /\ FlattenSeq(ss) = F[Len(ss)]
    BY <2>1, FlattenParts
  <2> QED  BY <2>1, <2>2, GrowsTyped
<1> QED  BY <1>1, <1>2

\* One piece more.
LEMMA FlattenAppend ==
  ASSUME NEW S, NEW ss \in Seq(Seq(S)), NEW x \in Seq(S)
  PROVE  FlattenSeq(Append(ss, x)) = FlattenSeq(ss) \o x
<1> DEFINE tt == Append(ss, x)
           n == Len(ss)
<1>1. tt \in Seq(Seq(S)) /\ Len(tt) = n + 1 /\ n \in Nat
      /\ tt[n + 1] = x /\ \A i \in 1..n : tt[i] = ss[i]
  BY AppendProperties
<1> HIDE DEF tt
<1>2. PICK H : Grows(H, tt) /\ FlattenSeq(tt) = H[n + 1]
  <2>1. Len(tt) > 0
    BY <1>1
  <2>2. \E H : Grows(H, tt) /\ FlattenSeq(tt) = H[Len(tt)]
    BY <1>1, <2>1, FlattenParts
  <2> QED  BY <1>1, <2>2
<1>3. \A i \in 1..n + 1 : H[i] = IF i = 1 THEN tt[i] ELSE H[i-1] \o tt[i]
  BY <1>1, <1>2 DEF Grows
<1>4. CASE n = 0
  <2>1. ss = <<>>
    BY <1>4
  <2>2. FlattenSeq(tt) = x
    BY <1>1, <1>2, <1>3, <1>4
  <2> QED  BY <2>1, <2>2, FlattenNone, ConcatEmptySeq DEF tt
<1>5. CASE n # 0
  <2>1. PICK F : Grows(F, ss) /\ FlattenSeq(ss) = F[n]
    BY <1>1, <1>5, FlattenParts, SMTT(30)
  <2>2. \A i \in 1..n : F[i] = IF i = 1 THEN ss[i] ELSE F[i-1] \o ss[i]
    BY <2>1 DEF Grows
  <2> DEFINE G == {m \in Nat : m \in 1..n => F[m] = H[m]}
  <2>3. 0 \in G
    OBVIOUS
  <2>4. ASSUME NEW m \in Nat, m \in G PROVE m + 1 \in G
    <3> SUFFICES ASSUME m + 1 \in 1..n PROVE F[m + 1] = H[m + 1]
      OBVIOUS
    <3>1. PICK i \in 1..n : i = m + 1 /\ i - 1 = m /\ i \in 1..n + 1
      BY <1>1
    <3>2. tt[i] = ss[i]
      BY <1>1
    <3>3. i # 1 => F[i-1] = H[i-1]
      <4>1. i # 1 => m \in 1..n
        BY <3>1
      <4> QED  BY <2>4, <3>1, <4>1
    <3>4. F[i] = IF i = 1 THEN ss[i] ELSE F[i-1] \o ss[i]
      BY <2>2
    <3>5. H[i] = IF i = 1 THEN tt[i] ELSE H[i-1] \o tt[i]
      BY <1>3, <3>1
    <3>6. F[i] = H[i]
      BY <3>2, <3>3, <3>4, <3>5
    <3> QED  BY <3>1, <3>6
  <2>5. Nat \subseteq G
    <3> HIDE DEF G
    <3> QED  BY <2>3, <2>4, Inducts
  <2>6. F[n] = H[n]
    BY <1>1, <1>5, <2>5
  <2>7. H[n + 1] = H[n] \o x
    <3>1. PICK i \in 1..n + 1 : i = n + 1 /\ i - 1 = n /\ i # 1
      BY <1>1, <1>5
    <3>2. H[i] = H[i-1] \o tt[i]
      BY <1>3, <3>1
    <3>3. tt[i] = x
      BY <1>1, <3>1
    <3> QED  BY <3>1, <3>2, <3>3
  <2> QED  BY <1>2, <2>1, <2>6, <2>7 DEF tt
<1> QED  BY <1>4, <1>5

(* ---- lines and states of the decoder ---- *)

\* Names of tables and keys: any, those the model writes out among them.
Name == STRING \cup {"top", "me", "me.sub", "mcp", "text", "command", "inline", "other", "far", "x"}

\* The lines a text may have, with values in V.
Eols == {"lf", "crlf"}
Line(V) == [kind : {"header"}, table : Name, eol : Eols]
             \cup [kind : {"key"}, key : Name, value : V, eol : Eols]
             \cup [kind : {"open"}, key : {"text"}, eol : Eols]
             \cup [kind : {"close", "comment", "blank"}, eol : Eols]

Value(V) == V \cup Seq(Line(V))
Facts(V) == {<<t>> : t \in Name} \cup (Name \X Name \X Value(V))
State(V) == [table : Name, in : BOOLEAN, text : Seq(Line(V)), doc : SUBSET Facts(V),
             ok : BOOLEAN]

\* The kinds of lines.
LEMMA LineKinds ==
  ASSUME NEW V, NEW l \in Line(V)
  PROVE  /\ l.kind \in {"header", "key", "open", "close", "comment", "blank"}
         /\ l.kind = "header" => l.table \in Name
         /\ l.kind = "key" => l.key \in Name /\ l.value \in V
         /\ l.kind = "open" => l.key = "text"
         /\ l.eol \in Eols
BY DEF Line

\* A document's facts.
LEMMA FactShapes ==
  ASSUME NEW V, NEW f \in Facts(V)
  PROVE  \/ \E t \in Name : f = <<t>> /\ Len(f) = 1 /\ f[1] = t
         \/ \E t \in Name, k \in Name, v \in Value(V) :
              f = <<t, k, v>> /\ Len(f) = 3 /\ f[1] = t /\ f[2] = k /\ f[3] = v
<1>1. CASE f \in {<<t>> : t \in Name}
  <2>1. PICK t \in Name : f = <<t>>
    BY <1>1
  <2>2. Len(<<t>>) = 1 /\ <<t>>[1] = t
    OBVIOUS
  <2> QED  BY <2>1, <2>2
<1>2. CASE f \in Name \X Name \X Value(V)
  <2>1. PICK t \in Name, k \in Name, v \in Value(V) : f = <<t, k, v>>
    <3>1. f = <<f[1], f[2], f[3]>> /\ f[1] \in Name /\ f[2] \in Name /\ f[3] \in Value(V)
      BY <1>2
    <3> QED  BY <3>1, Zenon
  <2> QED  BY <2>1
<1>3. f \in {<<t>> : t \in Name} \/ f \in Name \X Name \X Value(V)
  BY DEF Facts
<1> QED  BY <1>1, <1>2, <1>3

\* What it is that a key has a value.
LEMMA DefinedIs ==
  ASSUME NEW V, NEW st \in State(V), NEW t, NEW k
  PROVE  Defined(st, t, k) <=> \E v \in Value(V) : <<t, k, v>> \in st.doc
<1>1. st.doc \subseteq Facts(V)
  BY DEF State
<1>2. ASSUME NEW f \in st.doc, Len(f) = 3, f[1] = t, f[2] = k
      PROVE  \E v \in Value(V) : <<t, k, v>> \in st.doc
  BY <1>1, <1>2, FactShapes
<1>3. ASSUME NEW v \in Value(V), <<t, k, v>> \in st.doc PROVE Defined(st, t, k)
  <2>1. Len(<<t, k, v>>) = 3 /\ <<t, k, v>>[1] = t /\ <<t, k, v>>[2] = k
    OBVIOUS
  <2> QED  BY <1>3, <2>1 DEF Defined
<1> QED  BY <1>2, <1>3 DEF Defined

LEMMA StateFields ==
  ASSUME NEW V, NEW st \in State(V)
  PROVE  /\ st.table \in Name /\ st.in \in BOOLEAN /\ st.text \in Seq(Line(V))
         /\ st.doc \subseteq Facts(V) /\ st.ok \in BOOLEAN
BY DEF State

\* A state and its fields.
Is(n, V, t, x, d) == n \in State(V) /\ n.table = t /\ n.text = x /\ n.doc = d

\* A state changed in some of its fields.
LEMMA TextChanged ==
  ASSUME NEW V, NEW st \in State(V), NEW x \in Seq(Line(V)), NEW n, n = [st EXCEPT !.text = x]
  PROVE  Is(n, V, st.table, x, st.doc) /\ (n.in <=> st.in) /\ (n.ok <=> st.ok)
BY DEF State, Is

LEMMA InChanged ==
  ASSUME NEW V, NEW st \in State(V), NEW n, n = [st EXCEPT !.in = TRUE]
  PROVE  Is(n, V, st.table, st.text, st.doc) /\ n.in /\ (n.ok <=> st.ok)
BY DEF State, Is

LEMMA OkChanged ==
  ASSUME NEW V, NEW st \in State(V), NEW n, n = [st EXCEPT !.ok = FALSE]
  PROVE  Is(n, V, st.table, st.text, st.doc) /\ (n.in <=> st.in) /\ ~n.ok
BY DEF State, Is

LEMMA SetChanged ==
  ASSUME NEW V, NEW st \in State(V), NEW d \in SUBSET Facts(V), NEW o \in BOOLEAN, NEW n,
         n = [st EXCEPT !.doc = d, !.ok = o, !.in = FALSE, !.text = <<>>]
  PROVE  Is(n, V, st.table, <<>>, d) /\ ~n.in /\ (n.ok <=> o)
<1>1. <<>> \in Seq(Line(V))
  OBVIOUS
<1> QED  BY <1>1 DEF State, Is

(* ---- one step of the decoder ---- *)

\* A line of a string.
LEMMA ScanText ==
  ASSUME NEW V, NEW st \in State(V), NEW l \in Line(V), st.in, l.kind # "close"
  PROVE  /\ Is(Scan(st, l), V, st.table, Append(st.text, l), st.doc)
         /\ Scan(st, l).in
         /\ Scan(st, l).ok <=> st.ok
<1>1. Scan(st, l) = [st EXCEPT !.text = Append(st.text, l)]
  BY LineKinds DEF Scan
<1>2. Append(st.text, l) \in Seq(Line(V))
  BY StateFields, AppendProperties
<1> QED  BY <1>1, <1>2, TextChanged, ZenonT(30)

\* Any other line, where no table begins and no value is set.
LEMMA ScanRest ==
  ASSUME NEW V, NEW st \in State(V), NEW l \in Line(V), ~st.in,
         l.kind \in {"comment", "blank"}
  PROVE  Scan(st, l) = st
BY DEF Scan

LEMMA ScanOpen ==
  ASSUME NEW V, NEW st \in State(V), NEW l \in Line(V), ~st.in, l.kind = "open"
  PROVE  /\ Is(Scan(st, l), V, st.table, st.text, st.doc)
         /\ Scan(st, l).in
         /\ Scan(st, l).ok <=> st.ok
<1>1. Scan(st, l) = [st EXCEPT !.in = TRUE]
  BY DEF Scan
<1> QED  BY <1>1, InChanged

LEMMA ScanStray ==
  ASSUME NEW V, NEW st \in State(V), NEW l \in Line(V), ~st.in, l.kind = "close"
  PROVE  /\ Is(Scan(st, l), V, st.table, st.text, st.doc)
         /\ ~Scan(st, l).in
         /\ ~Scan(st, l).ok
<1>1. Scan(st, l) = [st EXCEPT !.ok = FALSE]
  BY DEF Scan
<1> QED  BY <1>1, OkChanged

\* A value, but for a server as a key of [mcp_servers].
LEMMA SetIs ==
  ASSUME NEW V, NEW st \in State(V), NEW k \in Name, NEW v \in Value(V),
         ~(st.table = "mcp" /\ k = "me")
  PROVE  /\ Is(Set(st, k, v), V, st.table, <<>>, st.doc \cup {<<st.table, k, v>>})
         /\ ~Set(st, k, v).in
         /\ Set(st, k, v).ok <=> (st.ok /\ ~Defined(st, st.table, k))
<1> DEFINE d == st.doc \cup {<<st.table, k, v>>}
           o == st.ok /\ ~Defined(st, st.table, k)
<1>1. Set(st, k, v) = [st EXCEPT !.doc = d, !.ok = o, !.in = FALSE, !.text = <<>>]
  BY DEF Set
<1>2. d \in SUBSET Facts(V)
  <2>1. <<st.table, k, v>> \in Facts(V)
    <3>1. st.table \in Name
      BY StateFields
    <3> QED  BY <3>1 DEF Facts
  <2> QED  BY <2>1, StateFields
<1>3. o \in BOOLEAN
  OBVIOUS
<1> HIDE DEF d, o
<1>4. Is(Set(st, k, v), V, st.table, <<>>, d) /\ ~Set(st, k, v).in /\ (Set(st, k, v).ok <=> o)
  BY <1>1, <1>2, <1>3, SetChanged, Zenon
<1> QED  BY <1>4, Zenon DEF d, o

\* A server as a key.
LEMMA SetInline ==
  ASSUME NEW V, NEW st \in State(V), NEW v \in Value(V), st.table = "mcp"
  PROVE  /\ Is(Set(st, "me", v), V, st.table, <<>>, st.doc \cup {<<"me", "inline", v>>})
         /\ ~Set(st, "me", v).in
         /\ Set(st, "me", v).ok => st.ok
<1> DEFINE d == st.doc \cup {<<"me", "inline", v>>}
           o == st.ok /\ ~(Defined(st, "me", "inline") \/ \E m \in Mine : <<m>> \in st.doc)
<1>1. Set(st, "me", v) = [st EXCEPT !.doc = d, !.ok = o, !.in = FALSE, !.text = <<>>]
  BY DEF Set
<1>2. d \in SUBSET Facts(V)
  <2>1. <<"me", "inline", v>> \in Facts(V)
    <3>1. "me" \in Name /\ "inline" \in Name
      BY DEF Name
    <3> QED  BY <3>1 DEF Facts
  <2> QED  BY <2>1, StateFields
<1>3. o \in BOOLEAN /\ (o => st.ok)
  OBVIOUS
<1> HIDE DEF d, o
<1>4. Is(Set(st, "me", v), V, st.table, <<>>, d) /\ ~Set(st, "me", v).in
      /\ (Set(st, "me", v).ok <=> o)
  BY <1>1, <1>2, <1>3, SetChanged, Zenon
<1> QED  BY <1>3, <1>4, Zenon DEF d

\* A key, and the end of a string.
LEMMA ScanKey ==
  ASSUME NEW V, NEW st \in State(V), NEW l \in Line(V), ~st.in, l.kind = "key"
  PROVE  Scan(st, l) = Set(st, l.key, l.value) /\ l.key \in Name /\ l.value \in Value(V)
BY LineKinds DEF Scan, Value

LEMMA ScanClose ==
  ASSUME NEW V, NEW st \in State(V), NEW l \in Line(V), st.in, l.kind = "close"
  PROVE  /\ Is(Scan(st, l), V, st.table, <<>>, st.doc \cup {<<st.table, "text", st.text>>})
         /\ ~Scan(st, l).in
         /\ Scan(st, l).ok <=> (st.ok /\ ~Defined(st, st.table, "text"))
<1>1. Scan(st, l) = Set(st, "text", st.text)
  BY DEF Scan
<1>2. st.text \in Value(V)
  <2>1. st.text \in Seq(Line(V))
    BY StateFields
  <2> QED  BY <2>1 DEF Value
<1>3. "text" \in Name /\ "text" # "me"
  BY DEF Name
<1>4. /\ Is(Set(st, "text", st.text), V, st.table, <<>>,
            st.doc \cup {<<st.table, "text", st.text>>})
      /\ ~Set(st, "text", st.text).in
      /\ Set(st, "text", st.text).ok <=> (st.ok /\ ~Defined(st, st.table, "text"))
  BY <1>2, <1>3, SetIs
<1> QED  BY <1>1, <1>4, Zenon

\* A header.
LEMMA ScanHeader ==
  ASSUME NEW V, NEW st \in State(V), NEW l \in Line(V), ~st.in, l.kind = "header"
  PROVE  /\ Is(Scan(st, l), V, l.table, st.text, st.doc \cup {<<l.table>>})
         /\ ~Scan(st, l).in
         /\ Scan(st, l).ok <=> (st.ok /\ ~(<<l.table>> \in st.doc
                                  \/ (l.table \in Mine /\ Defined(st, "me", "inline"))))
<1> DEFINE d == st.doc \cup {<<l.table>>}
           o == st.ok /\ ~(<<l.table>> \in st.doc
                           \/ (l.table \in Mine /\ Defined(st, "me", "inline")))
<1>1. Scan(st, l) = [st EXCEPT !.doc = d, !.table = l.table, !.ok = o]
  BY DEF Scan, Enter
<1>2. d \in SUBSET Facts(V) /\ l.table \in Name
  <2>1. l.table \in Name
    BY LineKinds
  <2>2. <<l.table>> \in Facts(V)
    BY <2>1 DEF Facts
  <2> QED  BY <2>1, <2>2, StateFields
<1>3. o \in BOOLEAN
  OBVIOUS
<1> HIDE DEF d, o
<1>4. Is(Scan(st, l), V, l.table, st.text, d) /\ (Scan(st, l).in <=> st.in) /\ (Scan(st, l).ok <=> o)
  <2>1. PICK t \in Name : t = l.table
    BY <1>2
  <2>2. PICK n : n = [st EXCEPT !.doc = d, !.table = t, !.ok = o]
    OBVIOUS
  <2>3. Is(n, V, t, st.text, d) /\ (n.in <=> st.in) /\ (n.ok <=> o)
    BY <1>2, <1>3, <2>2 DEF State, Is
  <2>4. n = Scan(st, l)
    BY <1>1, <2>1, <2>2
  <2> QED  BY <2>1, <2>3, <2>4, Zenon
<1> QED  BY <1>4, Zenon DEF d, o

\* Every step leads to a state; what was wrong stays wrong, and facts stay.
LEMMA ScanType ==
  ASSUME NEW V, NEW st \in State(V), NEW l \in Line(V)
  PROVE  /\ Scan(st, l) \in State(V)
         /\ Scan(st, l).ok => st.ok
         /\ st.doc \subseteq Scan(st, l).doc
<1>1. CASE st.in /\ l.kind # "close"
  BY <1>1, ScanText DEF Is
<1>2. CASE st.in /\ l.kind = "close"
  BY <1>2, ScanClose DEF Is
<1>3. CASE ~st.in /\ l.kind = "header"
  <2>1. Is(Scan(st, l), V, l.table, st.text, st.doc \cup {<<l.table>>})
        /\ (Scan(st, l).ok => st.ok)
    BY <1>3, ScanHeader
  <2> QED  BY <2>1 DEF Is
<1>4. CASE ~st.in /\ l.kind = "key"
  <2>1. Scan(st, l) = Set(st, l.key, l.value) /\ l.key \in Name /\ l.value \in Value(V)
    BY <1>4, ScanKey
  <2>2. CASE st.table = "mcp" /\ l.key = "me"
    BY <2>1, <2>2, SetInline DEF Is
  <2>3. CASE ~(st.table = "mcp" /\ l.key = "me")
    BY <2>1, <2>3, SetIs DEF Is
  <2> QED  BY <2>2, <2>3
<1>5. CASE ~st.in /\ l.kind = "open"
  BY <1>5, ScanOpen DEF Is
<1>6. CASE ~st.in /\ l.kind = "close"
  BY <1>6, ScanStray DEF Is
<1>7. CASE ~st.in /\ l.kind \in {"comment", "blank"}
  BY <1>7, ScanRest
<1>8. l.kind \in {"header", "key", "open", "close", "comment", "blank"}
  BY LineKinds
<1> QED  BY <1>1, <1>2, <1>3, <1>4, <1>5, <1>6, <1>7, <1>8

(* ---- the decoder on a text ---- *)

LEMMA ScanStart == \A V : Scan0 \in State(V)
<1> SUFFICES ASSUME NEW V PROVE Scan0 \in State(V)
  OBVIOUS
<1>1. "top" \in Name /\ <<>> \in Seq(Line(V)) /\ {} \in SUBSET Facts(V)
  BY DEF Name
<1> QED  BY <1>1 DEF Scan0, State

LEMMA ScanningExists ==
  ASSUME NEW V, NEW lines \in Seq(Line(V))
  PROVE  \E F \in [0..Len(lines) -> State(V)] :
           /\ F[0] = Scan0 /\ \A i \in 1..Len(lines) : F[i] = Scan(F[i - 1], lines[i])
           /\ Scanned(lines) = F[Len(lines)]
<1> DEFINE n == Len(lines)
           g == [i \in 1..n |-> [st \in State(V) |-> Scan(st, lines[i])]]
           after[i \in 0..n] == IF i = 0 THEN Scan0 ELSE Scan(after[i - 1], lines[i])
<1>1. g \in [1..n -> [State(V) -> State(V)]]
  <2>1. \A i \in 1..n : lines[i] \in Line(V)
    OBVIOUS
  <2> QED  BY <2>1, ScanType
<1>2. n \in Nat
  OBVIOUS
<1>3. PICK F \in [0..n -> State(V)] : F[0] = Scan0 /\ \A i \in 1..n : F[i] = g[i][F[i - 1]]
  <2> HIDE DEF g, n
  <2>1. Scan0 \in State(V)
    BY ScanStart
  <2>2. \E F : Steps(F, State(V), Scan0, n, g)
    BY <1>1, <1>2, <2>1, StepsExist
  <2> QED  BY <2>2 DEF Steps
<1>4. ASSUME NEW i \in 1..n PROVE F[i] = Scan(F[i - 1], lines[i])
  <2>1. F[i - 1] \in State(V)
    <3>1. i - 1 \in 0..n
      BY <1>2
    <3> QED  BY <3>1
  <2>2. F[i] = g[i][F[i - 1]]
    BY <1>3
  <2> QED  BY <2>1, <2>2
<1>5. \E f : f = [i \in 0..n |-> IF i = 0 THEN Scan0 ELSE Scan(f[i - 1], lines[i])]
  <2>1. F = [i \in 0..n |-> IF i = 0 THEN Scan0 ELSE Scan(F[i - 1], lines[i])]
    <3>1. \A i \in 0..n : i # 0 => i \in 1..n
      BY <1>2
    <3>2. \A i \in 0..n : F[i] = IF i = 0 THEN Scan0 ELSE Scan(F[i - 1], lines[i])
      BY <1>3, <1>4, <3>1
    <3>3. F = [i \in 0..n |-> F[i]]
      OBVIOUS
    <3> QED  BY <3>2, <3>3, Zenon
  <2> QED  BY <2>1, Zenon
<1>6. after = [i \in 0..n |-> IF i = 0 THEN Scan0 ELSE Scan(after[i - 1], lines[i])]
  BY <1>5, Zenon
<1>7. Scanned(lines) = after[n]
  BY DEF Scanned
<1> HIDE DEF after
<1>8. \A i \in 0..n : F[i] = after[i]
  <2>1. F[0] = after[0]
    BY <1>2, <1>3, <1>6
  <2>2. \A i \in 1..n : after[i] = Scan(after[i - 1], lines[i])
    <3>1. \A i \in 1..n : i \in 0..n /\ i # 0
      OBVIOUS
    <3> QED  BY <1>6, <3>1, Zenon
  <2>3. ASSUME NEW i \in 1..n, F[i - 1] = after[i - 1] PROVE F[i] = after[i]
    BY <1>4, <2>2, <2>3
  <2> QED  BY <1>2, <2>1, <2>3, Agree, ZenonT(30)
<1>9. n \in 0..n
  BY <1>2
<1> QED  BY <1>3, <1>4, <1>7, <1>8, <1>9

\* Decoding one line more.
LEMMA ScannedNone == Scanned(<<>>) = Scan0
<1>1. <<>> \in Seq(Line({})) /\ Len(<<>>) = 0
  OBVIOUS
<1> QED  BY <1>1, ScanningExists

LEMMA ScannedAppend ==
  ASSUME NEW V, NEW lines \in Seq(Line(V)), NEW l \in Line(V)
  PROVE  /\ Scanned(Append(lines, l)) = Scan(Scanned(lines), l)
         /\ Scanned(lines) \in State(V)
<1> DEFINE n == Len(lines)
           more == Append(lines, l)
<1>1. /\ more \in Seq(Line(V)) /\ Len(more) = n + 1 /\ n \in Nat /\ more[n + 1] = l
      /\ \A i \in 1..n : more[i] = lines[i]
  BY AppendProperties
<1> HIDE DEF more
<1>2. PICK F :
        /\ F \in [0..n -> State(V)] /\ F[0] = Scan0 /\ \A i \in 1..n : F[i] = Scan(F[i - 1], lines[i])
        /\ Scanned(lines) = F[n]
  BY ScanningExists
<1>3. PICK H :
        /\ H[0] = Scan0 /\ \A i \in 1..Len(more) : H[i] = Scan(H[i - 1], more[i])
        /\ Scanned(more) = H[Len(more)]
  BY <1>1, ScanningExists
<1>4. n \in Nat /\ F[0] = H[0]
  BY <1>1, <1>2, <1>3
<1>5. \A i \in 0..n : F[i] = H[i]
  <2>1. ASSUME NEW i \in 1..n, F[i - 1] = H[i - 1] PROVE F[i] = H[i]
    <3>1. i \in 1..Len(more)
      BY <1>1
    <3> QED  BY <1>1, <1>2, <1>3, <2>1, <3>1
  <2> QED  BY <1>4, <2>1, Agree, ZenonT(30)
<1>6. H[n + 1] = Scan(H[n], l)
  <2>1. PICK i \in 1..Len(more) : i = n + 1 /\ i - 1 = n
    BY <1>1
  <2>2. H[i] = Scan(H[i - 1], more[i])
    BY <1>3
  <2>3. more[i] = l
    BY <1>1, <2>1
  <2> QED  BY <2>1, <2>2, <2>3
<1>7. F[n] = H[n] /\ F[n] \in State(V)
  <2>1. n \in 0..n
    BY <1>1
  <2> QED  BY <1>2, <1>5, <2>1
<1> QED  BY <1>1, <1>2, <1>3, <1>6, <1>7 DEF more

LEMMA ScannedType ==
  ASSUME NEW V, NEW lines \in Seq(Line(V)) PROVE Scanned(lines) \in State(V)
<1>1. Len(lines) \in 0..Len(lines)
  OBVIOUS
<1> QED  BY <1>1, ScanningExists

(* ---- joining sequences ---- *)

LEMMA CatAppend ==
  ASSUME NEW S, NEW a \in Seq(S), NEW b \in Seq(S), NEW e \in S
  PROVE  a \o Append(b, e) = Append(a \o b, e)
<1>1. Append(b, e) = b \o <<e>> /\ Append(a \o b, e) = (a \o b) \o <<e>> /\ <<e>> \in Seq(S)
  <2>1. a \o b \in Seq(S)
    BY ConcatProperties
  <2>2. Append(b, e) = b \o <<e>>
    BY AppendIsConcat
  <2>3. Append(a \o b, e) = (a \o b) \o <<e>>
    BY <2>1, AppendIsConcat
  <2> QED  BY <2>2, <2>3
<1>2. (a \o b) \o <<e>> = a \o (b \o <<e>>)
  BY <1>1, ConcatAssociative, SMTT(30)
<1> QED  BY <1>1, <1>2

LEMMA CatType ==
  ASSUME NEW S, NEW a \in Seq(S), NEW b \in Seq(S) PROVE a \o b \in Seq(S)
BY ConcatProperties

\* The lines that are not blank, of one line more.
OneNB(l) == IF NotBlank(l) THEN <<l>> ELSE <<>>

LEMMA NonBlankNone == NonBlank(<<>>) = <<>>
<1>1. [i \in DOMAIN <<>> |-> OneNB(<<>>[i])] = <<>>
  OBVIOUS
<1> QED  BY <1>1, FlattenNone DEF NonBlank, OneNB

LEMMA NonBlankAppend ==
  ASSUME NEW S, NEW s \in Seq(S), NEW l \in S
  PROVE  /\ NonBlank(Append(s, l)) = NonBlank(s) \o OneNB(l)
         /\ NonBlank(s) \in Seq(S)
<1> DEFINE f == [i \in DOMAIN s |-> OneNB(s[i])]
           m == Append(s, l)
           h == [i \in DOMAIN m |-> OneNB(m[i])]
<1>1. \A x \in S : OneNB(x) \in Seq(S)
  BY DEF OneNB
<1>2. /\ m \in Seq(S) /\ Len(m) = Len(s) + 1 /\ Len(s) \in Nat /\ m[Len(s) + 1] = l
      /\ \A i \in 1..Len(s) : m[i] = s[i]
  BY AppendProperties
<1>3. DOMAIN s = 1..Len(s) /\ DOMAIN m = 1..Len(s) + 1
  BY <1>2
<1>4. f \in Seq(Seq(S)) /\ Len(f) = Len(s)
  <2>1. \A i \in 1..Len(s) : s[i] \in S
    OBVIOUS
  <2>2. \A i \in 1..Len(s) : OneNB(s[i]) \in Seq(S)
    BY <1>1, <2>1
  <2> QED  BY <1>2, <1>3, <2>2
<1>5. h = Append(f, OneNB(l))
  <2>1. /\ Append(f, OneNB(l)) \in Seq(Seq(S)) /\ Len(Append(f, OneNB(l))) = Len(s) + 1
        /\ Append(f, OneNB(l))[Len(s) + 1] = OneNB(l)
        /\ \A i \in 1..Len(s) : Append(f, OneNB(l))[i] = f[i]
    <3>1. OneNB(l) \in Seq(S)
      BY <1>1
    <3> HIDE DEF f
    <3> QED  BY <1>4, <3>1, AppendProperties
  <2>2. h \in Seq(Seq(S)) /\ Len(h) = Len(s) + 1
    <3>1. \A i \in 1..Len(s) + 1 : m[i] \in S
      BY <1>2
    <3>2. \A i \in 1..Len(s) + 1 : OneNB(m[i]) \in Seq(S)
      BY <1>1, <3>1
    <3> HIDE DEF m
    <3> QED  BY <1>2, <1>3, <3>2
  <2>3. ASSUME NEW i \in 1..Len(s) + 1 PROVE h[i] = Append(f, OneNB(l))[i]
    <3>0. h[i] = OneNB(m[i])
      BY <1>3
    <3>1. CASE i = Len(s) + 1
      BY <1>2, <2>1, <3>0, <3>1
    <3>2. CASE i # Len(s) + 1
      <4>1. i \in 1..Len(s)
        BY <1>2, <3>2
      <4>2. f[i] = OneNB(s[i])
        BY <1>3, <4>1
      <4> QED  BY <1>2, <2>1, <3>0, <4>1, <4>2
    <3> QED  BY <3>1, <3>2
  <2> HIDE DEF f, h, m
  <2> QED  BY <2>1, <2>2, <2>3, SeqEqual
<1>6. OneNB(l) \in Seq(S)
  BY <1>1
<1>7. NonBlank(s) = FlattenSeq(f) /\ NonBlank(m) = FlattenSeq(h)
  BY DEF NonBlank, OneNB
<1> HIDE DEF f, h
<1>8. FlattenSeq(h) = FlattenSeq(f) \o OneNB(l) /\ FlattenSeq(f) \in Seq(S)
  BY <1>4, <1>5, <1>6, FlattenAppend, FlattenType
<1> QED  BY <1>7, <1>8

LEMMA NonBlankType ==
  ASSUME NEW S, NEW s \in Seq(S) PROVE NonBlank(s) \in Seq(S)
<1>1. CASE s = <<>>
  BY <1>1, NonBlankNone
<1>2. CASE s # <<>>
  <2>1. PICK e : e \in S
    <3>1. Len(s) \in Nat /\ Len(s) # 0
      BY <1>2
    <3>2. s[1] \in S
      BY <3>1
    <3> QED  BY <3>2
  <2> QED  BY <2>1, NonBlankAppend
<1> QED  BY <1>1, <1>2

LEMMA NonBlankCat ==
  ASSUME NEW S, NEW a \in Seq(S), NEW b \in Seq(S)
  PROVE  NonBlank(a \o b) = NonBlank(a) \o NonBlank(b)
<1> DEFINE G == {s \in Seq(S) : NonBlank(a \o s) = NonBlank(a) \o NonBlank(s)}
<1>1. <<>> \in G
  <2>1. a \o <<>> = a /\ NonBlank(a) \o <<>> = NonBlank(a) /\ <<>> \in Seq(S)
    BY NonBlankType, ConcatEmptySeq
  <2> QED  BY <2>1, NonBlankNone
<1>2. ASSUME NEW s \in Seq(S), NEW e \in S, s \in G PROVE Append(s, e) \in G
  <2>1. a \o Append(s, e) = Append(a \o s, e) /\ a \o s \in Seq(S) /\ Append(s, e) \in Seq(S)
    BY CatAppend, CatType, AppendProperties
  <2>2. NonBlank(Append(a \o s, e)) = NonBlank(a \o s) \o OneNB(e)
    BY <2>1, NonBlankAppend
  <2>3. NonBlank(Append(s, e)) = NonBlank(s) \o OneNB(e)
    BY NonBlankAppend
  <2>4. NonBlank(a \o s) = NonBlank(a) \o NonBlank(s)
    BY <1>2
  <2>5. (NonBlank(a) \o NonBlank(s)) \o OneNB(e) = NonBlank(a) \o (NonBlank(s) \o OneNB(e))
    <3>1. OneNB(e) \in Seq(S) /\ NonBlank(a) \in Seq(S) /\ NonBlank(s) \in Seq(S)
      BY NonBlankType DEF OneNB
    <3> QED  BY <3>1, ConcatAssociative, SMTT(30)
  <2>6. NonBlank(a \o Append(s, e)) = NonBlank(a) \o NonBlank(Append(s, e))
    BY <2>1, <2>2, <2>3, <2>4, <2>5, Zenon
  <2> QED  BY <2>1, <2>6
<1>3. Seq(S) \subseteq G
  <2> HIDE DEF G
  <2> QED  BY <1>1, <1>2, SeqInducts
<1> QED  BY <1>3

(* ---- joining the pieces of a text ---- *)

JoinStep(u, p) == IF p = <<>> THEN u ELSE IF u = <<>> THEN p ELSE u \o <<Blank>> \o p

LEMMA BlankIsLine == \A V : Blank \in Line(V)
BY DEF Blank, Line, Eols

LEMMA JoinStepType ==
  ASSUME NEW V, NEW u \in Seq(Line(V)), NEW p \in Seq(Line(V)) PROVE JoinStep(u, p) \in Seq(Line(V))
<1>1. <<Blank>> \in Seq(Line(V))
  BY BlankIsLine
<1> QED  BY <1>1, CatType DEF JoinStep

JoinedBy(F, s, V) ==
  /\ F \in [0..Len(s) -> Seq(Line(V))] /\ F[0] = <<>>
  /\ \A i \in 1..Len(s) : F[i] = JoinStep(F[i - 1], s[i])
  /\ Joined(s) = F[Len(s)]

LEMMA JoinedExists ==
  ASSUME NEW V, NEW s \in Seq(Seq(Line(V))) PROVE \E F : JoinedBy(F, s, V)
<1> DEFINE n == Len(s)
           g == [i \in 1..n |-> [u \in Seq(Line(V)) |-> JoinStep(u, s[i])]]
           upTo[i \in 0..n] == IF i = 0 THEN <<>> ELSE JoinStep(upTo[i - 1], s[i])
<1>1. g \in [1..n -> [Seq(Line(V)) -> Seq(Line(V))]]
  <2>1. \A i \in 1..n : s[i] \in Seq(Line(V))
    OBVIOUS
  <2> QED  BY <2>1, JoinStepType
<1>2. n \in Nat
  OBVIOUS
<1>3. PICK F : Steps(F, Seq(Line(V)), <<>>, n, g)
  <2> HIDE DEF g, n
  <2>1. <<>> \in Seq(Line(V))
    BY EmptySeq
  <2> QED  BY <1>1, <1>2, <2>1, StepsExist
<1> USE DEF Steps
<1>4. ASSUME NEW i \in 1..n PROVE F[i] = JoinStep(F[i - 1], s[i])
  <2>1. F[i - 1] \in Seq(Line(V))
    <3>1. i - 1 \in 0..n
      BY <1>2
    <3> QED  BY <1>3, <3>1
  <2>2. F[i] = g[i][F[i - 1]]
    BY <1>3
  <2> QED  BY <2>1, <2>2
<1>5. \E f : f = [i \in 0..n |-> IF i = 0 THEN <<>> ELSE JoinStep(f[i - 1], s[i])]
  <2>1. F = [i \in 0..n |-> IF i = 0 THEN <<>> ELSE JoinStep(F[i - 1], s[i])]
    <3>1. \A i \in 0..n : i # 0 => i \in 1..n
      BY <1>2
    <3>2. \A i \in 0..n : F[i] = IF i = 0 THEN <<>> ELSE JoinStep(F[i - 1], s[i])
      BY <1>3, <1>4, <3>1
    <3>3. F = [i \in 0..n |-> F[i]]
      BY <1>3
    <3> QED  BY <3>2, <3>3, Zenon
  <2> QED  BY <2>1, Zenon
<1>6. upTo = [i \in 0..n |-> IF i = 0 THEN <<>> ELSE JoinStep(upTo[i - 1], s[i])]
  BY <1>5, Zenon
<1>7. Joined(s) = upTo[n]
  BY DEF Joined, JoinStep
<1> HIDE DEF upTo
<1>8. \A i \in 0..n : F[i] = upTo[i]
  <2>1. F[0] = upTo[0]
    BY <1>2, <1>3, <1>6
  <2>2. \A i \in 1..n : upTo[i] = JoinStep(upTo[i - 1], s[i])
    <3>1. \A i \in 1..n : i \in 0..n /\ i # 0
      OBVIOUS
    <3> QED  BY <1>6, <3>1, Zenon
  <2>3. ASSUME NEW i \in 1..n, F[i - 1] = upTo[i - 1] PROVE F[i] = upTo[i]
    BY <1>4, <2>2, <2>3
  <2> QED  BY <1>2, <2>1, <2>3, Agree, ZenonT(30)
<1>9. n \in 0..n
  BY <1>2
<1> QED  BY <1>3, <1>4, <1>7, <1>8, <1>9 DEF JoinedBy

\* Joining one piece more.
LEMMA JoinedNone == Joined(<<>>) = <<>>
<1>1. <<>> \in Seq(Seq(Line({}))) /\ Len(<<>>) = 0
  OBVIOUS
<1> QED  BY <1>1, JoinedExists DEF JoinedBy

LEMMA JoinedAppend ==
  ASSUME NEW V, NEW s \in Seq(Seq(Line(V))), NEW l \in Seq(Line(V))
  PROVE  /\ Joined(Append(s, l)) = JoinStep(Joined(s), l)
         /\ Joined(s) \in Seq(Line(V))
<1> DEFINE n == Len(s)
           more == Append(s, l)
<1>1. /\ more \in Seq(Seq(Line(V))) /\ Len(more) = n + 1 /\ n \in Nat /\ more[n + 1] = l
      /\ \A i \in 1..n : more[i] = s[i]
  BY AppendProperties
<1> HIDE DEF more
<1>2. PICK F : JoinedBy(F, s, V)
  BY JoinedExists
<1>3. PICK H : JoinedBy(H, more, V)
  BY <1>1, JoinedExists
<1> USE DEF JoinedBy
<1>4. n \in Nat /\ F[0] = H[0]
  BY <1>1, <1>2, <1>3
<1>5. \A i \in 0..n : F[i] = H[i]
  <2>1. ASSUME NEW i \in 1..n, F[i - 1] = H[i - 1] PROVE F[i] = H[i]
    <3>1. i \in 1..Len(more)
      BY <1>1
    <3> QED  BY <1>1, <1>2, <1>3, <2>1, <3>1
  <2> QED  BY <1>4, <2>1, Agree, ZenonT(30)
<1>6. H[n + 1] = JoinStep(H[n], l)
  <2>1. PICK i \in 1..Len(more) : i = n + 1 /\ i - 1 = n
    BY <1>1
  <2>2. H[i] = JoinStep(H[i - 1], more[i])
    BY <1>3
  <2>3. more[i] = l
    BY <1>1, <2>1
  <2> QED  BY <2>1, <2>2, <2>3
<1>7. F[n] = H[n] /\ F[n] \in Seq(Line(V))
  <2>1. n \in 0..n
    BY <1>1
  <2> QED  BY <1>2, <1>5, <2>1
<1> QED  BY <1>1, <1>2, <1>3, <1>6, <1>7 DEF more

LEMMA JoinedType ==
  ASSUME NEW V, NEW s \in Seq(Seq(Line(V))) PROVE Joined(s) \in Seq(Line(V))
<1>1. Len(s) \in 0..Len(s)
  OBVIOUS
<1>2. PICK F : JoinedBy(F, s, V)
  BY JoinedExists
<1>3. F[Len(s)] \in Seq(Line(V)) /\ Joined(s) = F[Len(s)]
  BY <1>1, <1>2 DEF JoinedBy
<1> QED  BY <1>3

(* ---- segments ---- *)

\* A segment that is the server's begins with a header.
Headed(g) == g.target => g.lines # <<>> /\ IsHeader(g.lines[1])
Segs(V) == {g \in [lines : Seq(Line(V)), target : BOOLEAN] : Headed(g)}
Cuts(V) == Seq(Segs(V)) \ {<<>>}

SplitStep(u, l) ==
  IF IsHeader(l) THEN Append(u, Segment(<<l>>, Target(l)))
  ELSE [u EXCEPT ![Len(u)].lines = Append(@, l)]

LEMMA SplitStepType ==
  ASSUME NEW V, NEW u \in Cuts(V), NEW l \in Line(V) PROVE SplitStep(u, l) \in Cuts(V)
<1>1. u \in Seq(Segs(V)) /\ u # <<>>
  BY DEF Cuts
<1>2. Len(u) \in 1..Len(u)
  BY <1>1
<1>3. CASE IsHeader(l)
  <2>1. Segment(<<l>>, Target(l)) \in Segs(V)
    <3>1. Target(l) \in BOOLEAN
      BY DEF Target, IsHeader
    <3>2. <<l>> \in Seq(Line(V)) /\ <<l>> # <<>> /\ <<l>>[1] = l
      OBVIOUS
    <3> QED  BY <1>3, <3>1, <3>2 DEF Segment, Segs, Headed
  <2>2. Append(u, Segment(<<l>>, Target(l))) \in Seq(Segs(V))
        /\ Append(u, Segment(<<l>>, Target(l))) # <<>>
    BY <1>1, <2>1, AppendProperties
  <2> QED  BY <1>3, <2>2 DEF SplitStep, Cuts
<1>4. CASE ~IsHeader(l)
  <2> DEFINE old == u[Len(u)]
             new == [old EXCEPT !.lines = Append(@, l)]
  <2>1. old \in Segs(V)
    BY <1>1, <1>2
  <2>2. new \in Segs(V)
    <3>1. Append(old.lines, l) \in Seq(Line(V)) /\ Append(old.lines, l) # <<>>
          /\ (old.lines # <<>> => Append(old.lines, l)[1] = old.lines[1])
      <4>1. old.lines \in Seq(Line(V))
        BY <2>1 DEF Segs
      <4>2. old.lines # <<>> => 1 \in 1..Len(old.lines)
        BY <4>1
      <4> QED  BY <4>1, <4>2, AppendProperties
    <3> QED  BY <2>1, <3>1 DEF Segs, Headed
  <2>3. SplitStep(u, l) = [u EXCEPT ![Len(u)] = new]
    BY <1>4 DEF SplitStep
  <2> HIDE DEF new, old
  <2>4. [u EXCEPT ![Len(u)] = new] \in Seq(Segs(V)) /\ Len([u EXCEPT ![Len(u)] = new]) = Len(u)
    BY <1>1, <1>2, <2>2, ExceptSeq
  <2>5. [u EXCEPT ![Len(u)] = new] # <<>>
    BY <1>2, <2>4
  <2> QED  BY <2>3, <2>4, <2>5 DEF Cuts
<1> QED  BY <1>3, <1>4

LEMMA SplitStart == \A V : <<Segment(<<>>, FALSE)>> \in Cuts(V)
<1> SUFFICES ASSUME NEW V PROVE <<Segment(<<>>, FALSE)>> \in Cuts(V)
  OBVIOUS
<1>1. Segment(<<>>, FALSE) \in Segs(V)
  BY DEF Segment, Segs, Headed
<1>2. <<Segment(<<>>, FALSE)>> \in Seq(Segs(V)) /\ <<Segment(<<>>, FALSE)>> # <<>>
  <2>1. PICK x \in Segs(V) : x = Segment(<<>>, FALSE)
    BY <1>1
  <2>2. <<x>> \in Seq(Segs(V)) /\ <<x>> # <<>>
    OBVIOUS
  <2> QED  BY <2>1, <2>2
<1> QED  BY <1>2 DEF Cuts

SplitBy(F, s, V) ==
  /\ F \in [0..Len(s) -> Cuts(V)] /\ F[0] = <<Segment(<<>>, FALSE)>>
  /\ \A i \in 1..Len(s) : F[i] = SplitStep(F[i - 1], s[i])
  /\ splitSegments(s) = F[Len(s)]

LEMMA splitSegmentsExists ==
  ASSUME NEW V, NEW s \in Seq(Line(V)) PROVE \E F : SplitBy(F, s, V)
<1> DEFINE n == Len(s)
           g == [i \in 1..n |-> [u \in Cuts(V) |-> SplitStep(u, s[i])]]
           upTo[i \in 0..n] == IF i = 0 THEN <<Segment(<<>>, FALSE)>> ELSE SplitStep(upTo[i - 1], s[i])
<1>1. g \in [1..n -> [Cuts(V) -> Cuts(V)]]
  <2>1. \A i \in 1..n : s[i] \in Line(V)
    OBVIOUS
  <2> QED  BY <2>1, SplitStepType
<1>2. n \in Nat
  OBVIOUS
<1>3. PICK F : Steps(F, Cuts(V), <<Segment(<<>>, FALSE)>>, n, g)
  <2> HIDE DEF g, n
  <2>1. <<Segment(<<>>, FALSE)>> \in Cuts(V)
    BY SplitStart
  <2> QED  BY <1>1, <1>2, <2>1, StepsExist
<1> USE DEF Steps
<1>4. ASSUME NEW i \in 1..n PROVE F[i] = SplitStep(F[i - 1], s[i])
  <2>1. F[i - 1] \in Cuts(V)
    <3>1. i - 1 \in 0..n
      BY <1>2
    <3> QED  BY <1>3, <3>1
  <2>2. F[i] = g[i][F[i - 1]]
    BY <1>3
  <2> QED  BY <2>1, <2>2
<1>5. \E f : f = [i \in 0..n |-> IF i = 0 THEN <<Segment(<<>>, FALSE)>> ELSE SplitStep(f[i - 1], s[i])]
  <2>1. F = [i \in 0..n |-> IF i = 0 THEN <<Segment(<<>>, FALSE)>> ELSE SplitStep(F[i - 1], s[i])]
    <3>1. \A i \in 0..n : i # 0 => i \in 1..n
      BY <1>2
    <3>2. \A i \in 0..n : F[i] = IF i = 0 THEN <<Segment(<<>>, FALSE)>> ELSE SplitStep(F[i - 1], s[i])
      BY <1>3, <1>4, <3>1
    <3>3. F = [i \in 0..n |-> F[i]]
      BY <1>3
    <3> QED  BY <3>2, <3>3, Zenon
  <2> QED  BY <2>1, Zenon
<1>6. upTo = [i \in 0..n |-> IF i = 0 THEN <<Segment(<<>>, FALSE)>> ELSE SplitStep(upTo[i - 1], s[i])]
  BY <1>5, Zenon
<1>7. splitSegments(s) = upTo[n]
  BY DEF splitSegments, SplitStep
<1> HIDE DEF upTo
<1>8. \A i \in 0..n : F[i] = upTo[i]
  <2>1. F[0] = upTo[0]
    BY <1>2, <1>3, <1>6
  <2>2. \A i \in 1..n : upTo[i] = SplitStep(upTo[i - 1], s[i])
    <3>1. \A i \in 1..n : i \in 0..n /\ i # 0
      OBVIOUS
    <3> QED  BY <1>6, <3>1, Zenon
  <2>3. ASSUME NEW i \in 1..n, F[i - 1] = upTo[i - 1] PROVE F[i] = upTo[i]
    BY <1>4, <2>2, <2>3
  <2> QED  BY <1>2, <2>1, <2>3, Agree, ZenonT(30)
<1>9. n \in 0..n
  BY <1>2
<1> QED  BY <1>3, <1>4, <1>7, <1>8, <1>9 DEF SplitBy

\* Cutting one line more.
LEMMA splitSegmentsNone == splitSegments(<<>>) = <<Segment(<<>>, FALSE)>>
<1>1. <<>> \in Seq(Line({})) /\ Len(<<>>) = 0
  OBVIOUS
<1> QED  BY <1>1, splitSegmentsExists DEF SplitBy

LEMMA splitSegmentsAppend ==
  ASSUME NEW V, NEW s \in Seq(Line(V)), NEW l \in Line(V)
  PROVE  /\ splitSegments(Append(s, l)) = SplitStep(splitSegments(s), l)
         /\ splitSegments(s) \in Cuts(V)
<1> DEFINE n == Len(s)
           more == Append(s, l)
<1>1. /\ more \in Seq(Line(V)) /\ Len(more) = n + 1 /\ n \in Nat /\ more[n + 1] = l
      /\ \A i \in 1..n : more[i] = s[i]
  BY AppendProperties
<1> HIDE DEF more
<1>2. PICK F : SplitBy(F, s, V)
  BY splitSegmentsExists
<1>3. PICK H : SplitBy(H, more, V)
  BY <1>1, splitSegmentsExists
<1> USE DEF SplitBy
<1>4. n \in Nat /\ F[0] = H[0]
  BY <1>1, <1>2, <1>3
<1>5. \A i \in 0..n : F[i] = H[i]
  <2>1. ASSUME NEW i \in 1..n, F[i - 1] = H[i - 1] PROVE F[i] = H[i]
    <3>1. i \in 1..Len(more)
      BY <1>1
    <3> QED  BY <1>1, <1>2, <1>3, <2>1, <3>1
  <2> QED  BY <1>4, <2>1, Agree, ZenonT(30)
<1>6. H[n + 1] = SplitStep(H[n], l)
  <2>1. PICK i \in 1..Len(more) : i = n + 1 /\ i - 1 = n
    BY <1>1
  <2>2. H[i] = SplitStep(H[i - 1], more[i])
    BY <1>3
  <2>3. more[i] = l
    BY <1>1, <2>1
  <2> QED  BY <2>1, <2>2, <2>3
<1>7. F[n] = H[n] /\ F[n] \in Cuts(V)
  <2>1. n \in 0..n
    BY <1>1
  <2> QED  BY <1>2, <1>5, <2>1
<1> QED  BY <1>1, <1>2, <1>3, <1>6, <1>7 DEF more

LEMMA splitSegmentsType ==
  ASSUME NEW V, NEW s \in Seq(Line(V)) PROVE splitSegments(s) \in Cuts(V)
<1>1. Len(s) \in 0..Len(s)
  OBVIOUS
<1>2. PICK F : SplitBy(F, s, V)
  BY splitSegmentsExists
<1>3. F[Len(s)] \in Cuts(V) /\ splitSegments(s) = F[Len(s)]
  BY <1>1, <1>2 DEF SplitBy
<1> QED  BY <1>3

(* ---- the lines that are not the server's ---- *)

Readers(V) == [at : State(V), kept : Seq(Line(V)), tail : Seq(Line(V))]
Reader0 == [at |-> Scan0, kept |-> <<>>, tail |-> <<>>]
ReadNext(r, l) == IF NotBlank(l) THEN Read(r, l) ELSE r
ReadStep(r, l) ==
  [at |-> Scan(r.at, l), kept |-> ReadNext(r, l).kept, tail |-> ReadNext(r, l).tail]

LEMMA ReadNextType ==
  ASSUME NEW V, NEW r \in Readers(V), NEW l \in Line(V)
  PROVE  ReadNext(r, l).kept \in Seq(Line(V)) /\ ReadNext(r, l).tail \in Seq(Line(V))
<1>1. r.kept \in Seq(Line(V)) /\ r.tail \in Seq(Line(V)) /\ <<l>> \in Seq(Line(V))
      /\ <<>> \in Seq(Line(V)) /\ Append(r.tail, l) \in Seq(Line(V))
  <2>1. r.tail \in Seq(Line(V)) /\ r.kept \in Seq(Line(V))
    BY DEF Readers
  <2> QED  BY <2>1, AppendProperties
<1>2. r.kept \o r.tail \in Seq(Line(V))
  BY <1>1, CatType
<1>3. r.kept \o r.tail \o <<l>> \in Seq(Line(V))
  BY <1>1, <1>2, CatType
<1>4. r.at.in \in BOOLEAN
  BY DEF Readers, State
<1> QED  BY <1>1, <1>2, <1>3, <1>4, Zenon DEF ReadNext, Read

LEMMA ReadStepType ==
  ASSUME NEW V, NEW r \in Readers(V), NEW l \in Line(V) PROVE ReadStep(r, l) \in Readers(V)
<1>1. r.at \in State(V)
  BY DEF Readers
<1>2. Scan(r.at, l) \in State(V)
  BY <1>1, ScanType
<1> QED  BY <1>2, ReadNextType DEF ReadStep, Readers

LEMMA ReadStart == \A V : Reader0 \in Readers(V)
BY ScanStart DEF Reader0, Readers

ReadBy(F, s, V) ==
  /\ F \in [0..Len(s) -> Readers(V)] /\ F[0] = Reader0
  /\ \A i \in 1..Len(s) : F[i] = ReadStep(F[i - 1], s[i])
  /\ Reading(s) = F[Len(s)]

LEMMA ReadingExists ==
  ASSUME NEW V, NEW s \in Seq(Line(V)) PROVE \E F : ReadBy(F, s, V)
<1> DEFINE n == Len(s)
           g == [i \in 1..n |-> [u \in Readers(V) |-> ReadStep(u, s[i])]]
           upTo[i \in 0..n] == IF i = 0 THEN Reader0 ELSE ReadStep(upTo[i - 1], s[i])
<1>1. g \in [1..n -> [Readers(V) -> Readers(V)]]
  <2>1. \A i \in 1..n : s[i] \in Line(V)
    OBVIOUS
  <2> QED  BY <2>1, ReadStepType
<1>2. n \in Nat
  OBVIOUS
<1>3. PICK F : Steps(F, Readers(V), Reader0, n, g)
  <2> HIDE DEF g, n
  <2>1. Reader0 \in Readers(V)
    BY ReadStart
  <2> QED  BY <1>1, <1>2, <2>1, StepsExist
<1> USE DEF Steps
<1>4. ASSUME NEW i \in 1..n PROVE F[i] = ReadStep(F[i - 1], s[i])
  <2>1. F[i - 1] \in Readers(V)
    <3>1. i - 1 \in 0..n
      BY <1>2
    <3> QED  BY <1>3, <3>1
  <2>2. F[i] = g[i][F[i - 1]]
    BY <1>3
  <2> QED  BY <2>1, <2>2
<1>5. \E f : f = [i \in 0..n |-> IF i = 0 THEN Reader0 ELSE ReadStep(f[i - 1], s[i])]
  <2>1. F = [i \in 0..n |-> IF i = 0 THEN Reader0 ELSE ReadStep(F[i - 1], s[i])]
    <3>1. \A i \in 0..n : i # 0 => i \in 1..n
      BY <1>2
    <3>2. \A i \in 0..n : F[i] = IF i = 0 THEN Reader0 ELSE ReadStep(F[i - 1], s[i])
      BY <1>3, <1>4, <3>1
    <3>3. F = [i \in 0..n |-> F[i]]
      BY <1>3
    <3> QED  BY <3>2, <3>3, Zenon
  <2> QED  BY <2>1, Zenon
<1>6. upTo = [i \in 0..n |-> IF i = 0 THEN Reader0 ELSE ReadStep(upTo[i - 1], s[i])]
  BY <1>5, Zenon
<1>7. Reading(s) = upTo[n]
  BY DEF Reading, ReadStep, ReadNext, Reader0
<1> HIDE DEF upTo
<1>8. \A i \in 0..n : F[i] = upTo[i]
  <2>1. F[0] = upTo[0]
    BY <1>2, <1>3, <1>6
  <2>2. \A i \in 1..n : upTo[i] = ReadStep(upTo[i - 1], s[i])
    <3>1. \A i \in 1..n : i \in 0..n /\ i # 0
      OBVIOUS
    <3> QED  BY <1>6, <3>1, Zenon
  <2>3. ASSUME NEW i \in 1..n, F[i - 1] = upTo[i - 1] PROVE F[i] = upTo[i]
    BY <1>4, <2>2, <2>3
  <2> QED  BY <1>2, <2>1, <2>3, Agree, ZenonT(30)
<1>9. n \in 0..n
  BY <1>2
<1> QED  BY <1>3, <1>4, <1>7, <1>8, <1>9 DEF ReadBy

\* Reading one line more.
LEMMA ReadingNone == Reading(<<>>) = Reader0
<1>1. <<>> \in Seq(Line({})) /\ Len(<<>>) = 0
  OBVIOUS
<1> QED  BY <1>1, ReadingExists DEF ReadBy

LEMMA ReadingAppend ==
  ASSUME NEW V, NEW s \in Seq(Line(V)), NEW l \in Line(V)
  PROVE  /\ Reading(Append(s, l)) = ReadStep(Reading(s), l)
         /\ Reading(s) \in Readers(V)
<1> DEFINE n == Len(s)
           more == Append(s, l)
<1>1. /\ more \in Seq(Line(V)) /\ Len(more) = n + 1 /\ n \in Nat /\ more[n + 1] = l
      /\ \A i \in 1..n : more[i] = s[i]
  BY AppendProperties
<1> HIDE DEF more
<1>2. PICK F : ReadBy(F, s, V)
  BY ReadingExists
<1>3. PICK H : ReadBy(H, more, V)
  BY <1>1, ReadingExists
<1> USE DEF ReadBy
<1>4. n \in Nat /\ F[0] = H[0]
  BY <1>1, <1>2, <1>3
<1>5. \A i \in 0..n : F[i] = H[i]
  <2>1. ASSUME NEW i \in 1..n, F[i - 1] = H[i - 1] PROVE F[i] = H[i]
    <3>1. i \in 1..Len(more)
      BY <1>1
    <3> QED  BY <1>1, <1>2, <1>3, <2>1, <3>1
  <2> QED  BY <1>4, <2>1, Agree, ZenonT(30)
<1>6. H[n + 1] = ReadStep(H[n], l)
  <2>1. PICK i \in 1..Len(more) : i = n + 1 /\ i - 1 = n
    BY <1>1
  <2>2. H[i] = ReadStep(H[i - 1], more[i])
    BY <1>3
  <2>3. more[i] = l
    BY <1>1, <2>1
  <2> QED  BY <2>1, <2>2, <2>3
<1>7. F[n] = H[n] /\ F[n] \in Readers(V)
  <2>1. n \in 0..n
    BY <1>1
  <2> QED  BY <1>2, <1>5, <2>1
<1> QED  BY <1>1, <1>2, <1>3, <1>6, <1>7 DEF more

LEMMA ReadingType ==
  ASSUME NEW V, NEW s \in Seq(Line(V)) PROVE Reading(s) \in Readers(V)
<1>1. Len(s) \in 0..Len(s)
  OBVIOUS
<1>2. PICK F : ReadBy(F, s, V)
  BY ReadingExists
<1>3. F[Len(s)] \in Readers(V) /\ Reading(s) = F[Len(s)]
  BY <1>1, <1>2 DEF ReadBy
<1> QED  BY <1>3

(* ---- trimming ---- *)

Blanks(x) == \A i \in DOMAIN x : ~NotBlank(x[i])
Tight(x) == x # <<>> => NotBlank(x[1]) /\ NotBlank(x[Len(x)])

\* A sequence of natural numbers' indices has a first and a last one.
LEMMA FirstLast ==
  ASSUME NEW n \in Nat, NEW T, T \subseteq 1..n, T # {}
  PROVE  /\ \E i \in T : \A j \in T : i <= j
         /\ \E i \in T : \A j \in T : j <= i
<1>1. \E i \in T : \A j \in T : i <= j
  <2>1. T \subseteq Nat
    OBVIOUS
  <2> QED  BY <2>1, LeastNat
<1>2. \E i \in T : \A j \in T : j <= i
  <2> DEFINE R == {n - i : i \in T}
  <2>1. R \subseteq Nat /\ R # {}
    <3>1. \A i \in 1..n : n - i \in Nat
      OBVIOUS
    <3>2. \A i \in T : n - i \in Nat
      BY <3>1
    <3>3. PICK i : i \in T
      OBVIOUS
    <3>4. n - i \in R
      BY <3>3
    <3> QED  BY <3>2, <3>4
  <2>2. PICK m \in R : \A k \in R : m <= k
    <3> HIDE DEF R
    <3> QED  BY <2>1, LeastNat
  <2>3. PICK i \in T : m = n - i
    BY <2>2
  <2>4. \A j \in T : n - i <= n - j
    BY <2>2, <2>3
  <2>5. \A j \in T : j \in 1..n /\ i \in 1..n
    OBVIOUS
  <2>6. \A j \in T : j <= i
    BY <2>4, <2>5
  <2> QED  BY <2>6
<1> QED  BY <1>1, <1>2

\* A trimmed text is the text between its first and its last line that is not blank.
LEMMA TrimmedEmpty ==
  ASSUME NEW V, NEW x \in Seq(Line(V)), Blanks(x) PROVE Trimmed(x) = <<>>
<1>1. {i \in DOMAIN x : NotBlank(x[i])} = {}
  BY DEF Blanks
<1> QED  BY <1>1 DEF Trimmed

LEMMA TrimmedBetween ==
  ASSUME NEW V, NEW x \in Seq(Line(V)), NEW p \in 1..Len(x), NEW q \in 1..Len(x),
         NotBlank(x[p]), NotBlank(x[q]),
         \A i \in 1..Len(x) : NotBlank(x[i]) => p <= i /\ i <= q
  PROVE  Trimmed(x) = SubSeq(x, p, q)
<1> DEFINE at == {i \in DOMAIN x : NotBlank(x[i])}
<1>1. p \in at /\ q \in at /\ \A i \in at : p <= i /\ i <= q
  OBVIOUS
<1>2. \A i \in at : i \in Int
  OBVIOUS
<1> HIDE DEF at
<1>3. (CHOOSE i \in at : \A j \in at : i <= j) = p
  <2>1. \A i \in at : (\A j \in at : i <= j) => i = p
    BY <1>1, <1>2
  <2> QED  BY <1>1, <2>1
<1>4. (CHOOSE i \in at : \A j \in at : j <= i) = q
  <2>1. \A i \in at : (\A j \in at : j <= i) => i = q
    BY <1>1, <1>2
  <2> QED  BY <1>1, <2>1
<1>5. at # {}
  BY <1>1
<1>6. Trimmed(x) = SubSeq(x, CHOOSE i \in at : \A j \in at : i <= j,
                             CHOOSE i \in at : \A j \in at : j <= i)
  BY <1>5 DEF Trimmed, at
<1> QED  BY <1>3, <1>4, <1>6

LEMMA TrimmedIs ==
  ASSUME NEW V, NEW a \in Seq(Line(V)), NEW t \in Seq(Line(V)), NEW b \in Seq(Line(V)),
         Blanks(a), Blanks(b), Tight(t)
  PROVE  Trimmed(a \o t \o b) = t
<1> DEFINE x == a \o t \o b
<1>1. /\ a \o t \in Seq(Line(V)) /\ Len(a \o t) = Len(a) + Len(t)
      /\ Len(a) \in Nat /\ Len(b) \in Nat /\ Len(t) \in Nat
  BY ConcatProperties
<1>2. /\ x \in Seq(Line(V)) /\ Len(x) = Len(a) + Len(t) + Len(b)
      /\ \A i \in 1..Len(a) : x[i] = a[i]
      /\ \A i \in 1..Len(t) : x[Len(a) + i] = t[i]
      /\ \A i \in 1..Len(b) : x[Len(a) + Len(t) + i] = b[i]
  <2>1. /\ \A i \in 1..Len(a) : (a \o t)[i] = a[i]
        /\ \A i \in 1..Len(t) : (a \o t)[Len(a) + i] = t[i]
    BY ConcatParts
  <2>2. /\ x \in Seq(Line(V)) /\ Len(x) = Len(a \o t) + Len(b)
        /\ \A i \in 1..Len(a \o t) : x[i] = (a \o t)[i]
        /\ \A i \in 1..Len(b) : x[Len(a \o t) + i] = b[i]
    BY <1>1, ConcatParts
  <2>3. \A i \in 1..Len(a) : i \in 1..Len(a \o t)
    BY <1>1
  <2>4. \A i \in 1..Len(t) : Len(a) + i \in 1..Len(a \o t)
    BY <1>1
  <2> HIDE DEF x
  <2> QED  BY <1>1, <2>1, <2>2, <2>3, <2>4
<1>3. /\ \A i \in 1..Len(a) : ~NotBlank(a[i])
      /\ \A i \in 1..Len(b) : ~NotBlank(b[i])
  BY DEF Blanks
<1> HIDE DEF x
<1>4. CASE t = <<>>
  <2>1. Blanks(x)
    <3>1. \A i \in 1..Len(x) : i \in 1..Len(a) \/ i - Len(a) \in 1..Len(b)
      BY <1>1, <1>2, <1>4
    <3>2. \A i \in 1..Len(x) : i - Len(a) \in 1..Len(b) => x[i] = b[i - Len(a)]
      BY <1>1, <1>2, <1>4
    <3>3. \A i \in 1..Len(x) : ~NotBlank(x[i])
      BY <1>2, <1>3, <3>1, <3>2
    <3> QED  BY <1>2, <3>3 DEF Blanks
  <2>2. Trimmed(x) = <<>>
    BY <1>2, <2>1, TrimmedEmpty
  <2> QED  BY <1>4, <2>2 DEF x
<1>5. CASE t # <<>>
  <2> DEFINE p == Len(a) + 1
             q == Len(a) + Len(t)
  <2>1. 1 \in 1..Len(t) /\ Len(t) \in 1..Len(t) /\ p \in 1..Len(x) /\ q \in 1..Len(x)
        /\ p = Len(a) + 1 /\ q = Len(a) + Len(t) /\ p <= q
    BY <1>1, <1>2, <1>5
  <2>2. NotBlank(x[p]) /\ NotBlank(x[q])
    BY <1>2, <1>5, <2>1 DEF Tight
  <2>3. ASSUME NEW i \in 1..Len(x), NotBlank(x[i]) PROVE p <= i /\ i <= q
    <3>1. ~(i \in 1..Len(a))
      BY <1>2, <1>3, <2>3
    <3>2. ~(i - (Len(a) + Len(t)) \in 1..Len(b))
      <4> SUFFICES ASSUME i - (Len(a) + Len(t)) \in 1..Len(b) PROVE FALSE
        OBVIOUS
      <4>1. PICK k \in 1..Len(b) : k = i - (Len(a) + Len(t))
        OBVIOUS
      <4>2. i = Len(a) + Len(t) + k
        BY <1>1, <1>2, <4>1
      <4> QED  BY <1>2, <1>3, <2>3, <4>2
    <3> QED  BY <1>1, <1>2, <3>1, <3>2
  <2>4. Trimmed(x) = SubSeq(x, p, q)
    <3> HIDE DEF p, q
    <3> QED  BY <1>2, <2>1, <2>2, <2>3, TrimmedBetween
  <2>5. SubSeq(x, p, q) = t
    <3>1. \A i \in p..q : x[i] \in Line(V)
      BY <1>1, <1>2
    <3>2. /\ SubSeq(x, p, q) \in Seq(Line(V)) /\ Len(SubSeq(x, p, q)) = q - p + 1
          /\ \A i \in 1..q-p+1 : SubSeq(x, p, q)[i] = x[p+i-1]
      <4>1. p \in Int /\ q \in Int
        BY <1>1
      <4> HIDE DEF p, q
      <4> QED  BY <2>1, <3>1, <4>1, SubSeqProperties
    <3>3. q - p + 1 = Len(t) /\ \A i \in 1..Len(t) : p + i - 1 = Len(a) + i
      BY <1>1
    <3>4. \A i \in 1..Len(t) : SubSeq(x, p, q)[i] = t[i]
      <4> HIDE DEF p, q
      <4> QED  BY <1>2, <3>2, <3>3
    <3> HIDE DEF p, q
    <3> QED  BY <3>2, <3>3, <3>4, SeqEqual
  <2> QED  BY <2>4, <2>5 DEF x
<1> QED  BY <1>4, <1>5

\* A text, cut into blank lines, its trimmed text, and blank lines.
Cut3(x, a, b, V) ==
  /\ a \in Seq(Line(V)) /\ b \in Seq(Line(V)) /\ Blanks(a) /\ Blanks(b)
  /\ Trimmed(x) \in Seq(Line(V)) /\ Tight(Trimmed(x)) /\ x = a \o Trimmed(x) \o b

LEMMA TrimmedCut ==
  ASSUME NEW V, NEW x \in Seq(Line(V)) PROVE \E a, b : Cut3(x, a, b, V)
<1> DEFINE at == {i \in 1..Len(x) : NotBlank(x[i])}
<1>0. DOMAIN x = 1..Len(x) /\ Len(x) \in Nat /\ <<>> \in Seq(Line(V))
  OBVIOUS
<1>1. CASE at = {}
  <2>1. Blanks(x)
    BY <1>1 DEF Blanks
  <2>2. Trimmed(x) = <<>>
    BY <2>1, TrimmedEmpty
  <2>3. x \o <<>> \o <<>> = x
    BY ConcatEmptySeq
  <2>4. Blanks(<<>>) /\ Tight(<<>>)
    BY DEF Blanks, Tight
  <2>5. Cut3(x, x, <<>>, V)
    BY <1>0, <2>1, <2>2, <2>3, <2>4, Zenon DEF Cut3
  <2> QED  BY <2>5
<1>2. CASE at # {}
  <2>1. at \subseteq 1..Len(x)
    OBVIOUS
  <2>2. (\E i \in at : \A j \in at : i <= j) /\ (\E i \in at : \A j \in at : j <= i)
    <3> HIDE DEF at
    <3> QED  BY <1>0, <1>2, <2>1, FirstLast
  <2>3. PICK p \in at : \A j \in at : p <= j
    BY <2>2
  <2>4. PICK q \in at : \A j \in at : j <= q
    BY <2>2
  <2>5. p \in 1..Len(x) /\ q \in 1..Len(x) /\ p <= q /\ NotBlank(x[p]) /\ NotBlank(x[q])
    BY <2>3, <2>4
  <2>6. \A i \in 1..Len(x) : NotBlank(x[i]) => p <= i /\ i <= q
    BY <2>3, <2>4
  <2> HIDE DEF at
  <2>7. Trimmed(x) = SubSeq(x, p, q)
    BY <2>5, <2>6, TrimmedBetween
  <2> DEFINE a == SubSeq(x, 1, p - 1)
             t == SubSeq(x, p, q)
             b == SubSeq(x, q + 1, Len(x))
  <2>8. a \o t \o b = x
    <3>1. a \o t = SubSeq(x, 1, q)
      <4>1. 1 \in 1..Len(x)+1 /\ p - 1 \in 1 - 1..Len(x) /\ q \in p - 1..Len(x) /\ (p - 1) + 1 = p
        BY <1>0, <2>5
      <4> QED  BY <4>1, ConcatAdjacentSubSeq
    <3>2. SubSeq(x, 1, q) \o b = SubSeq(x, 1, Len(x))
      <4>1. 1 \in 1..Len(x)+1 /\ q \in 1 - 1..Len(x) /\ Len(x) \in q..Len(x)
        BY <1>0, <2>5
      <4> QED  BY <4>1, ConcatAdjacentSubSeq
    <3>3. SubSeq(x, 1, Len(x)) = x
      BY SubSeqFull
    <3> HIDE DEF a, t, b
    <3> QED  BY <3>1, <3>2, <3>3
  <2>9. a \in Seq(Line(V)) /\ Blanks(a)
    <3>1. \A i \in 1..p-1 : x[i] \in Line(V) /\ ~NotBlank(x[i])
      BY <1>0, <2>5, <2>6
    <3>2. /\ a \in Seq(Line(V)) /\ Len(a) = IF 1 <= p-1 THEN p - 1 - 1 + 1 ELSE 0
          /\ \A i \in 1..p-1-1+1 : a[i] = x[1+i-1]
      <4>1. 1 \in Int /\ p - 1 \in Int
        BY <2>5
      <4> QED  BY <3>1, <4>1, SubSeqProperties
    <3>3. \A i \in 1..Len(a) : i \in 1..p-1 /\ i \in 1..p-1-1+1 /\ 1+i-1 = i
      <4> HIDE DEF a
      <4> QED  BY <2>5, <3>2
    <3>4. \A i \in 1..Len(a) : a[i] = x[i]
      <4> HIDE DEF a
      <4> QED  BY <3>2, <3>3
    <3>5. DOMAIN a = 1..Len(a)
      <4> HIDE DEF a
      <4> QED  BY <3>2
    <3> HIDE DEF a
    <3> QED  BY <3>1, <3>2, <3>3, <3>4, <3>5 DEF Blanks
  <2>10. b \in Seq(Line(V)) /\ Blanks(b)
    <3>1. \A i \in q+1..Len(x) : x[i] \in Line(V) /\ ~NotBlank(x[i])
      BY <1>0, <2>5, <2>6
    <3>2. /\ b \in Seq(Line(V)) /\ Len(b) = IF q+1 <= Len(x) THEN Len(x)-(q+1)+1 ELSE 0
          /\ \A i \in 1..Len(x)-(q+1)+1 : b[i] = x[(q+1)+i-1]
      <4>1. q+1 \in Int /\ Len(x) \in Int
        BY <1>0, <2>5
      <4> QED  BY <3>1, <4>1, SubSeqProperties
    <3>3. \A i \in 1..Len(b) : i \in 1..Len(x)-(q+1)+1 /\ (q+1)+i-1 \in q+1..Len(x)
      <4> SUFFICES ASSUME NEW i \in 1..Len(b)
                   PROVE  i \in 1..Len(x)-(q+1)+1 /\ (q+1)+i-1 \in q+1..Len(x)
        OBVIOUS
      <4>1. Len(b) = IF q+1 <= Len(x) THEN Len(x)-(q+1)+1 ELSE 0
        BY <3>2
      <4> HIDE DEF b
      <4>2. q \in Nat
        BY <1>0, <2>5
      <4>3. q + 1 <= Len(x)
        <5> SUFFICES ASSUME ~(q + 1 <= Len(x)) PROVE FALSE
          OBVIOUS
        <5>1. Len(b) = 0
          BY <4>1
        <5>2. i \in 1..0
          BY <5>1
        <5> QED  BY <5>2
      <4> QED  BY <1>0, <4>1, <4>2, <4>3
    <3>4. \A i \in 1..Len(b) : ~NotBlank(b[i])
      <4> HIDE DEF b
      <4> QED  BY <3>1, <3>2, <3>3
    <3>5. DOMAIN b = 1..Len(b)
      <4> HIDE DEF b
      <4> QED  BY <3>2
    <3> HIDE DEF b
    <3> QED  BY <3>2, <3>4, <3>5 DEF Blanks
  <2>11. t \in Seq(Line(V)) /\ Tight(t)
    <3>1. \A i \in p..q : x[i] \in Line(V)
      BY <1>0, <2>5
    <3>2. /\ t \in Seq(Line(V)) /\ Len(t) = IF p <= q THEN q-p+1 ELSE 0
          /\ \A i \in 1..q-p+1 : t[i] = x[p+i-1]
      <4>1. p \in Int /\ q \in Int
        BY <2>5
      <4> QED  BY <3>1, <4>1, SubSeqProperties
    <3>3. Len(t) = q - p + 1 /\ 1 \in 1..q-p+1 /\ q-p+1 \in 1..q-p+1 /\ p+1-1 = p /\ p+(q-p+1)-1 = q
      <4> HIDE DEF t
      <4> QED  BY <2>5, <3>2
    <3>4. t[1] = x[p] /\ t[Len(t)] = x[q]
      <4> HIDE DEF t
      <4> QED  BY <3>2, <3>3
    <3> HIDE DEF t
    <3> QED  BY <2>5, <3>2, <3>4 DEF Tight
  <2>12. Cut3(x, a, b, V)
    <3> HIDE DEF a, b
    <3> QED  BY <2>7, <2>8, <2>9, <2>10, <2>11 DEF Cut3
  <2> QED  BY <2>12
<1> QED  BY <1>1, <1>2

LEMMA TrimmedType ==
  ASSUME NEW V, NEW x \in Seq(Line(V))
  PROVE  Trimmed(x) \in Seq(Line(V)) /\ Tight(Trimmed(x))
BY TrimmedCut DEF Cut3

\* Of a trimmed text.
LEMMA TrimmedTight ==
  ASSUME NEW V, NEW x \in Seq(Line(V)), Tight(x) PROVE Trimmed(x) = x
<1>1. <<>> \in Seq(Line(V)) /\ Blanks(<<>>)
  BY DEF Blanks
<1>2. <<>> \o x \o <<>> = x
  BY ConcatEmptySeq
<1>3. Trimmed(<<>> \o x \o <<>>) = x
  BY <1>1, TrimmedIs
<1> QED  BY <1>2, <1>3

LEMMA BlanksCat ==
  ASSUME NEW V, NEW a \in Seq(Line(V)), NEW b \in Seq(Line(V)), Blanks(a), Blanks(b)
  PROVE  Blanks(a \o b)
<1>1. /\ a \o b \in Seq(Line(V)) /\ Len(a \o b) = Len(a) + Len(b)
      /\ \A k \in 1..Len(a) : (a \o b)[k] = a[k]
      /\ \A k \in 1..Len(b) : (a \o b)[Len(a) + k] = b[k]
  BY ConcatParts
<1>2. Len(a) \in Nat /\ Len(b) \in Nat /\ DOMAIN a = 1..Len(a) /\ DOMAIN b = 1..Len(b)
      /\ DOMAIN (a \o b) = 1..Len(a \o b)
  BY <1>1
<1>3. ASSUME NEW i \in 1..Len(a \o b) PROVE ~NotBlank((a \o b)[i])
  <2>1. CASE i \in 1..Len(a)
    BY <1>1, <1>2, <2>1 DEF Blanks
  <2>2. CASE i \notin 1..Len(a)
    <3>1. PICK k \in 1..Len(b) : i = Len(a) + k
      <4>1. i - Len(a) \in 1..Len(b) /\ i = Len(a) + (i - Len(a))
        BY <1>1, <1>2, <2>2
      <4> QED  BY <4>1
    <3> QED  BY <1>1, <1>2, <3>1 DEF Blanks
  <2> QED  BY <2>1, <2>2
<1> QED  BY <1>2, <1>3 DEF Blanks

LEMMA OneBlank == Blanks(<<Blank>>) /\ \A V : <<Blank>> \in Seq(Line(V))
BY BlankIsLine DEF Blanks, Blank, NotBlank

\* A blank line more at its end.
LEMMA TrimmedBlank ==
  ASSUME NEW V, NEW x \in Seq(Line(V)) PROVE Trimmed(x \o <<Blank>>) = Trimmed(x)
<1>1. PICK a, b : Cut3(x, a, b, V)
  BY TrimmedCut
<1>2. Blanks(b \o <<Blank>>) /\ b \o <<Blank>> \in Seq(Line(V))
  BY <1>1, OneBlank, BlanksCat, CatType DEF Cut3
<1>3. x \o <<Blank>> = a \o Trimmed(x) \o (b \o <<Blank>>)
  <2>1. x \o <<Blank>> = (a \o Trimmed(x) \o b) \o <<Blank>>
    BY <1>1, Zenon DEF Cut3
  <2>2. a \o Trimmed(x) \in Seq(Line(V)) /\ b \in Seq(Line(V)) /\ <<Blank>> \in Seq(Line(V))
    BY <1>1, CatType, OneBlank DEF Cut3
  <2>3. (a \o Trimmed(x) \o b) \o <<Blank>> = a \o Trimmed(x) \o (b \o <<Blank>>)
    BY <2>2, ConcatAssociative, SMTT(30)
  <2> QED  BY <2>1, <2>3
<1> QED  BY <1>1, <1>2, <1>3, TrimmedIs DEF Cut3

\* The lines of a trimmed text that are not blank.
LEMMA NonBlankBlanks ==
  ASSUME NEW V, NEW x \in Seq(Line(V)), Blanks(x) PROVE NonBlank(x) = <<>>
<1> DEFINE G == {s \in Seq(Line(V)) : Blanks(s) => NonBlank(s) = <<>>}
<1>1. <<>> \in G
  BY NonBlankNone
<1>2. ASSUME NEW s \in Seq(Line(V)), NEW e \in Line(V), s \in G PROVE Append(s, e) \in G
  <2> SUFFICES ASSUME Blanks(Append(s, e)) PROVE NonBlank(Append(s, e)) = <<>>
    BY AppendProperties
  <2>1. /\ Len(Append(s, e)) = Len(s) + 1 /\ Len(s) \in Nat /\ Append(s, e)[Len(s) + 1] = e
        /\ \A i \in 1..Len(s) : Append(s, e)[i] = s[i]
        /\ DOMAIN Append(s, e) = 1..Len(s) + 1 /\ DOMAIN s = 1..Len(s)
    BY AppendProperties
  <2>2. Blanks(s) /\ ~NotBlank(e)
    BY <2>1 DEF Blanks
  <2>3. NonBlank(s) = <<>> /\ OneNB(e) = <<>>
    BY <1>2, <2>2 DEF OneNB
  <2>4. NonBlank(Append(s, e)) = NonBlank(s) \o OneNB(e)
    BY NonBlankAppend
  <2> QED  BY <2>3, <2>4
<1>3. Seq(Line(V)) \subseteq G
  <2> HIDE DEF G
  <2> QED  BY <1>1, <1>2, SeqInducts
<1> QED  BY <1>3

LEMMA NonBlankTrimmed ==
  ASSUME NEW V, NEW x \in Seq(Line(V)) PROVE NonBlank(Trimmed(x)) = NonBlank(x)
<1>1. PICK a, b : Cut3(x, a, b, V)
  BY TrimmedCut
<1>2. a \in Seq(Line(V)) /\ b \in Seq(Line(V)) /\ Trimmed(x) \in Seq(Line(V))
      /\ a \o Trimmed(x) \in Seq(Line(V))
  BY <1>1, CatType DEF Cut3
<1>3. NonBlank(a) = <<>> /\ NonBlank(b) = <<>>
  BY <1>1, <1>2, NonBlankBlanks DEF Cut3
<1>4. NonBlank(x) = NonBlank(a \o Trimmed(x)) \o NonBlank(b)
  <2>1. NonBlank((a \o Trimmed(x)) \o b) = NonBlank(a \o Trimmed(x)) \o NonBlank(b)
    BY <1>2, NonBlankCat
  <2> QED  BY <1>1, <2>1, Zenon DEF Cut3
<1>5. NonBlank(a \o Trimmed(x)) = NonBlank(a) \o NonBlank(Trimmed(x))
  BY <1>2, NonBlankCat
<1>6. NonBlank(Trimmed(x)) \in Seq(Line(V))
  BY <1>2, NonBlankType
<1>7. (<<>> \o NonBlank(Trimmed(x))) \o <<>> = NonBlank(Trimmed(x))
  BY <1>6, ConcatEmptySeq
<1> QED  BY <1>3, <1>4, <1>5, <1>7, Zenon

(* ---- the parts of a segment ---- *)

\* The parts that segments are cut into, and what is cut off at the end of one.
Parts(V) == [lines : Seq(Line(V)), target : BOOLEAN]
CurOf(g) ==
  IF g.target THEN SubSeq(g.lines, LastContent(g.lines) + 1, Len(g.lines)) ELSE g.lines
OwnOf(g) ==
  IF g.target THEN <<Segment(SubSeq(g.lines, 1, LastContent(g.lines)), TRUE)>> ELSE <<>>

LEMMA TwoCat == ASSUME NEW x, NEW y PROVE <<x>> \o <<y>> = <<x, y>>
<1>1. <<x>> \in Seq({x, y}) /\ y \in {x, y}
  OBVIOUS
<1>2. Append(<<x>>, y) = <<x>> \o <<y>>
  BY <1>1, AppendIsConcat
<1>3. Append(<<x>>, y) = <<x, y>>
  <2> DEFINE p == Append(<<x>>, y)
             q == <<x, y>>
  <2>1. Len(<<x>>) = 1 /\ <<x>>[1] = x
    OBVIOUS
  <2>2. p \in Seq({x, y}) /\ Len(p) = 2 /\ p[1] = x /\ p[2] = y
    BY <1>1, <2>1, AppendProperties
  <2>3. q \in Seq({x, y}) /\ Len(q) = 2 /\ q[1] = x /\ q[2] = y
    OBVIOUS
  <2> HIDE DEF p, q
  <2>4. p = q
    <3>1. \A i \in 1..2 : i = 1 \/ i = 2
      OBVIOUS
    <3>2. \A i \in 1..Len(p) : p[i] = q[i]
      BY <2>2, <2>3, <3>1
    <3> QED  BY <2>2, <2>3, <3>2, SeqEqual
  <2> QED  BY <2>4 DEF p, q
<1> QED  BY <1>2, <1>3

LEMMA SubSeqSame ==
  ASSUME NEW S, NEW s, NEW t, NEW m \in Int, NEW n \in Int,
         \A i \in m..n : s[i] = t[i] /\ s[i] \in S /\ t[i] \in S
  PROVE  SubSeq(s, m, n) = SubSeq(t, m, n)
<1> DEFINE p == SubSeq(s, m, n)
           q == SubSeq(t, m, n)
<1>1. CASE m <= n
  <2>1. /\ p \in Seq(S) /\ Len(p) = n-m+1 /\ \A i \in 1..n-m+1 : p[i] = s[m+i-1]
    BY <1>1, SubSeqProperties
  <2>2. /\ q \in Seq(S) /\ Len(q) = n-m+1 /\ \A i \in 1..n-m+1 : q[i] = t[m+i-1]
    BY <1>1, SubSeqProperties
  <2>3. \A i \in 1..n-m+1 : m+i-1 \in m..n
    BY <1>1
  <2> HIDE DEF p, q
  <2>4. p = q
    <3>1. \A i \in 1..Len(p) : p[i] = q[i]
      BY <2>1, <2>2, <2>3
    <3> QED  BY <2>1, <2>2, <3>1, SeqEqual
  <2> QED  BY <2>4 DEF p, q
<1>2. CASE n < m
  BY <1>2, SubSeqEmpty
<1> QED  BY <1>1, <1>2

LEMMA LastIs ==
  ASSUME NEW V, NEW s \in Seq(Line(V)), NEW n \in 1..Len(s), IsContent(s[n]),
         \A i \in n+1..Len(s) : ~IsContent(s[i])
  PROVE  LastContent(s) = n
<1>1. ASSUME NEW m \in 1..Len(s), IsContent(s[m]), \A i \in m+1..Len(s) : ~IsContent(s[i])
      PROVE  m = n
  <2>1. ~(n \in m+1..Len(s)) /\ ~(m \in n+1..Len(s))
    BY <1>1
  <2> QED  BY <2>1
<1> QED  BY <1>1 DEF LastContent

LEMMA HeaderIsContent == ASSUME NEW l, IsHeader(l) PROVE IsContent(l)
BY DEF IsHeader, IsContent

LEMMA LastExists ==
  ASSUME NEW V, NEW s \in Seq(Line(V)), s # <<>>, IsHeader(s[1])
  PROVE  /\ LastContent(s) \in 1..Len(s) /\ IsContent(s[LastContent(s)])
         /\ \A i \in LastContent(s)+1..Len(s) : ~IsContent(s[i])
<1> DEFINE T == {i \in 1..Len(s) : IsContent(s[i])}
<1>1. Len(s) \in Nat /\ 1 \in 1..Len(s)
  OBVIOUS
<1>2. T \subseteq 1..Len(s) /\ T # {}
  BY <1>1, HeaderIsContent
<1>3. PICK n \in T : \A j \in T : j <= n
  <2> HIDE DEF T
  <2> QED  BY <1>1, <1>2, FirstLast
<1>4. n \in 1..Len(s) /\ IsContent(s[n]) /\ \A i \in n+1..Len(s) : ~IsContent(s[i])
  <2>1. \A i \in n+1..Len(s) : i \in 1..Len(s) /\ ~(i <= n)
    BY <1>1, <1>3
  <2> QED  BY <1>3, <2>1
<1> HIDE DEF T
<1>5. LastContent(s) = n
  BY <1>4, LastIs
<1> QED  BY <1>4, <1>5

\* One line more.
LEMMA LastAppend ==
  ASSUME NEW V, NEW s \in Seq(Line(V)), NEW l \in Line(V), s # <<>>, IsHeader(s[1])
  PROVE  LastContent(Append(s, l)) = IF IsContent(l) THEN Len(s) + 1 ELSE LastContent(s)
<1> DEFINE m == Append(s, l)
<1>1. /\ m \in Seq(Line(V)) /\ Len(m) = Len(s) + 1 /\ Len(s) \in Nat /\ m[Len(s) + 1] = l
      /\ \A i \in 1..Len(s) : m[i] = s[i]
  BY AppendProperties
<1> HIDE DEF m
<1>2. CASE IsContent(l)
  <2>1. Len(s) + 1 \in 1..Len(m) /\ \A i \in (Len(s)+1)+1..Len(m) : FALSE
    BY <1>1
  <2>2. LastContent(m) = Len(s) + 1
    BY <1>1, <1>2, <2>1, LastIs
  <2> QED  BY <1>2, <2>2 DEF m
<1>3. CASE ~IsContent(l)
  <2>1. PICK n : n = LastContent(s)
    OBVIOUS
  <2>2. n \in 1..Len(s) /\ IsContent(s[n]) /\ \A i \in n+1..Len(s) : ~IsContent(s[i])
    BY <2>1, LastExists
  <2>3. n \in 1..Len(m) /\ IsContent(m[n])
    BY <1>1, <2>2
  <2>4. ASSUME NEW i \in n+1..Len(m) PROVE ~IsContent(m[i])
    <3>1. i = Len(s) + 1 \/ (i \in n+1..Len(s) /\ i \in 1..Len(s))
      BY <1>1, <2>2
    <3> QED  BY <1>1, <1>3, <2>2, <3>1
  <2>5. LastContent(m) = n
    BY <1>1, <2>3, <2>4, LastIs
  <2> QED  BY <1>3, <2>1, <2>5 DEF m
<1> QED  BY <1>2, <1>3

LEMMA SegFields ==
  ASSUME NEW V, NEW g \in Segs(V)
  PROVE  /\ g.lines \in Seq(Line(V)) /\ g.target \in BOOLEAN
         /\ g = Segment(g.lines, g.target)
         /\ g.target => g.lines # <<>> /\ IsHeader(g.lines[1])
BY DEF Segs, Headed, Segment

LEMMA SegIs ==
  ASSUME NEW V, NEW x \in Seq(Line(V)), NEW t \in BOOLEAN
  PROVE  /\ Segment(x, t) \in Parts(V) /\ Segment(x, t).lines = x /\ Segment(x, t).target = t
         /\ ((t => x # <<>> /\ IsHeader(x[1])) => Segment(x, t) \in Segs(V))
BY DEF Segment, Parts, Segs, Headed

LEMMA CurType ==
  ASSUME NEW V, NEW g \in Segs(V)
  PROVE  /\ CurOf(g) \in Seq(Line(V))
         /\ detached(g) = OwnOf(g) \o <<Segment(CurOf(g), FALSE)>>
         /\ OwnOf(g) = <<>> \/ \E x \in Seq(Line(V)) : OwnOf(g) = <<Segment(x, TRUE)>>
<1>0. /\ g.lines \in Seq(Line(V)) /\ g.target \in BOOLEAN
      /\ g = Segment(g.lines, g.target)
      /\ g.target => g.lines # <<>> /\ IsHeader(g.lines[1])
  BY SegFields
<1>1. CASE g.target
  <2>1. PICK n : n = LastContent(g.lines)
    OBVIOUS
  <2>2. n \in 1..Len(g.lines)
    BY <1>0, <1>1, <2>1, LastExists
  <2>3. SubSeq(g.lines, 1, n) \in Seq(Line(V)) /\ SubSeq(g.lines, n + 1, Len(g.lines)) \in Seq(Line(V))
    <3>1. \A i \in 1..Len(g.lines) : g.lines[i] \in Line(V)
      BY <1>0
    <3>2. 1 \in Int /\ n \in Int /\ n + 1 \in Int /\ Len(g.lines) \in Int
      BY <1>0, <2>2
    <3>3. (\A i \in 1..n : i \in 1..Len(g.lines)) /\ \A i \in n+1..Len(g.lines) : i \in 1..Len(g.lines)
      BY <1>0, <2>2
    <3> QED  BY <3>1, <3>2, <3>3, SubSeqProperties
  <2>4. CurOf(g) = SubSeq(g.lines, n + 1, Len(g.lines))
        /\ OwnOf(g) = <<Segment(SubSeq(g.lines, 1, n), TRUE)>>
    BY <1>1, <2>1 DEF CurOf, OwnOf
  <2>5. detached(g) = <<Segment(SubSeq(g.lines, 1, n), TRUE), Segment(CurOf(g), FALSE)>>
    BY <1>1, <2>1, <2>4 DEF detached
  <2>6. \A x, y : <<x>> \o <<y>> = <<x, y>>
    BY TwoCat
  <2> QED  BY <2>3, <2>4, <2>5, <2>6
<1>2. CASE ~g.target
  <2>1. CurOf(g) = g.lines /\ OwnOf(g) = <<>> /\ detached(g) = <<g>>
    BY <1>2 DEF CurOf, OwnOf, detached
  <2>2. g = Segment(CurOf(g), FALSE)
    BY <1>0, <1>2, <2>1
  <2>3. <<>> \o <<g>> = <<g>>
    OBVIOUS
  <2> QED  BY <1>0, <2>1, <2>2, <2>3, Zenon
<1> QED  BY <1>0, <1>1, <1>2

\* A header begins a segment, and any other line goes on with the last one.
LEMMA CurHeader ==
  ASSUME NEW V, NEW l \in Line(V), IsHeader(l)
  PROVE  /\ Segment(<<l>>, Target(l)) \in Segs(V)
         /\ CurOf(Segment(<<l>>, Target(l))) = IF Target(l) THEN <<>> ELSE <<l>>
         /\ Segment(<<l>>, Target(l)).target = Target(l)
<1>1. <<l>> \in Seq(Line(V)) /\ <<l>> # <<>> /\ <<l>>[1] = l /\ Len(<<l>>) = 1
  OBVIOUS
<1>2. Target(l) \in BOOLEAN
  BY DEF Target, IsHeader
<1>3. Segment(<<l>>, Target(l)) \in Segs(V) /\ Segment(<<l>>, Target(l)).lines = <<l>>
      /\ Segment(<<l>>, Target(l)).target = Target(l)
  BY <1>1, <1>2, SegIs
<1>4. CASE Target(l)
  <2>1. LastContent(<<l>>) = 1
    <3>1. 1 \in 1..Len(<<l>>) /\ \A i \in 1+1..Len(<<l>>) : FALSE
      OBVIOUS
    <3>2. IsContent(<<l>>[1])
      BY <1>1, HeaderIsContent
    <3> QED  BY <1>1, <3>1, <3>2, LastIs
  <2>2. SubSeq(<<l>>, 1 + 1, 1) = <<>>
    OBVIOUS
  <2> QED  BY <1>1, <1>3, <1>4, <2>1, <2>2 DEF CurOf
<1>5. CASE ~Target(l)
  BY <1>3, <1>5 DEF CurOf
<1> QED  BY <1>3, <1>4, <1>5

LEMMA CurAppend ==
  ASSUME NEW V, NEW g \in Segs(V), NEW l \in Line(V), NEW h,
         h = [g EXCEPT !.lines = Append(@, l)]
  PROVE  /\ h \in Segs(V) /\ h.target = g.target
         /\ CurOf(h) = IF g.target /\ IsContent(l) THEN <<>> ELSE Append(CurOf(g), l)
<1>0. /\ g.lines \in Seq(Line(V)) /\ g.target \in BOOLEAN
      /\ g.target => g.lines # <<>> /\ IsHeader(g.lines[1])
  BY SegFields
<1>1. h.lines = Append(g.lines, l) /\ h.target = g.target /\ h = Segment(h.lines, h.target)
  BY DEF Segs, Segment
<1>2. /\ h.lines \in Seq(Line(V)) /\ Len(h.lines) = Len(g.lines) + 1 /\ Len(g.lines) \in Nat
      /\ h.lines # <<>> /\ h.lines[Len(g.lines) + 1] = l
      /\ \A i \in 1..Len(g.lines) : h.lines[i] = g.lines[i]
  BY <1>0, <1>1, AppendProperties
<1>3. g.target => IsHeader(h.lines[1])
  <2>1. g.target => 1 \in 1..Len(g.lines)
    BY <1>0
  <2> QED  BY <1>0, <1>2, <2>1
<1>4. h \in Segs(V)
  <2>1. h.target \in BOOLEAN /\ (h.target => h.lines # <<>> /\ IsHeader(h.lines[1]))
    BY <1>0, <1>1, <1>2, <1>3
  <2>2. Segment(h.lines, h.target) \in Segs(V)
    BY <1>2, <2>1, SegIs
  <2> QED  BY <1>1, <2>2, Zenon
<1>5. CASE ~g.target
  BY <1>1, <1>4, <1>5 DEF CurOf
<1>6. CASE g.target
  <2>1. PICK n : n = LastContent(g.lines)
    OBVIOUS
  <2>2. n \in 1..Len(g.lines)
    BY <1>0, <1>6, <2>1, LastExists
  <2>3. LastContent(h.lines) = IF IsContent(l) THEN Len(g.lines) + 1 ELSE n
    BY <1>0, <1>1, <1>6, <2>1, LastAppend
  <2>4. CASE IsContent(l)
    <3>1. CurOf(h) = SubSeq(h.lines, (Len(g.lines) + 1) + 1, Len(h.lines))
      BY <1>1, <1>6, <2>3, <2>4 DEF CurOf
    <3>2. Len(h.lines) < (Len(g.lines) + 1) + 1 /\ Len(h.lines) \in Int /\ (Len(g.lines) + 1) + 1 \in Int
      BY <1>2
    <3>3. CurOf(h) = <<>>
      BY <3>1, <3>2, SubSeqEmpty
    <3> QED  BY <1>1, <1>4, <1>6, <2>4, <3>3
  <2>5. CASE ~IsContent(l)
    <3>1. CurOf(h) = SubSeq(h.lines, n + 1, Len(h.lines)) /\ CurOf(g) = SubSeq(g.lines, n + 1, Len(g.lines))
      BY <1>1, <1>6, <2>1, <2>3, <2>5 DEF CurOf
    <3>2. SubSeq(h.lines, n + 1, Len(h.lines)) = SubSeq(h.lines, n + 1, Len(h.lines) - 1) \o <<h.lines[Len(h.lines)]>>
      <4>1. n + 1 \in 1..Len(h.lines) /\ Len(h.lines) \in n + 1..Len(h.lines)
        BY <1>2, <2>2
      <4> QED  BY <1>2, <4>1, SubSeqRecursiveSecond
    <3>3. Len(h.lines) - 1 = Len(g.lines) /\ h.lines[Len(h.lines)] = l
      BY <1>2
    <3>4. SubSeq(h.lines, n + 1, Len(g.lines)) = SubSeq(g.lines, n + 1, Len(g.lines))
      <4>1. \A i \in n+1..Len(g.lines) : i \in 1..Len(g.lines)
        BY <1>2, <2>2
      <4>2. \A i \in n+1..Len(g.lines) : h.lines[i] = g.lines[i] /\ g.lines[i] \in Line(V) /\ h.lines[i] \in Line(V)
        BY <1>0, <1>2, <4>1
      <4>3. n + 1 \in Int /\ Len(g.lines) \in Int
        BY <1>2, <2>2
      <4>4. PICK m \in Int, k \in Int : m = n + 1 /\ k = Len(g.lines)
        BY <4>3
      <4>5. SubSeq(h.lines, m, k) = SubSeq(g.lines, m, k)
        <5>1. PICK x, y : x = h.lines /\ y = g.lines
          OBVIOUS
        <5>2. \A i \in m..k : x[i] = y[i] /\ x[i] \in Line(V) /\ y[i] \in Line(V)
          BY <4>2, <4>4, <5>1
        <5>3. SubSeq(x, m, k) = SubSeq(y, m, k)
          BY <5>2, SubSeqSame
        <5> QED  BY <5>1, <5>3
      <4> QED  BY <4>4, <4>5
    <3>5. CurOf(h) = CurOf(g) \o <<l>>
      BY <3>1, <3>2, <3>3, <3>4, Zenon
    <3>6. Append(CurOf(g), l) = CurOf(g) \o <<l>>
      BY CurType, AppendIsConcat
    <3> QED  BY <1>1, <1>4, <2>5, <3>5, <3>6
  <2> QED  BY <2>4, <2>5
<1> QED  BY <1>1, <1>4, <1>5, <1>6

(* ---- the edit, line by line ---- *)

LEMMA FrontLast ==
  ASSUME NEW S, NEW s \in Seq(S), NEW e \in S
  PROVE  Front(Append(s, e)) = s /\ Last(Append(s, e)) = e
<1> DEFINE m == Append(s, e)
<1>1. /\ m \in Seq(S) /\ Len(m) = Len(s) + 1 /\ Len(s) \in Nat /\ m[Len(s) + 1] = e
      /\ \A i \in 1..Len(s) : m[i] = s[i]
  BY AppendProperties
<1> HIDE DEF m
<1>2. Len(m) - 1 = Len(s) /\ 1 \in Int /\ Len(s) \in Int
  BY <1>1
<1>3. SubSeq(m, 1, Len(s)) = SubSeq(s, 1, Len(s))
  <2>1. \A i \in 1..Len(s) : m[i] = s[i] /\ m[i] \in S /\ s[i] \in S
    BY <1>1
  <2> QED  BY <1>2, <2>1, SubSeqSame
<1>4. SubSeq(s, 1, Len(s)) = s
  BY SubSeqFull
<1> QED  BY <1>1, <1>2, <1>3, <1>4 DEF Front, Last, m

LEMMA FrontAppend ==
  ASSUME NEW S, NEW s \in Seq(S), s # <<>>
  PROVE  s = Append(Front(s), Last(s)) /\ Front(s) \in Seq(S) /\ Last(s) \in S
<1>1. PICK t \in Seq(S), e \in S : s = Append(t, e)
  BY SequenceEmptyOrAppend
<1>2. Front(s) = t /\ Last(s) = e
  BY <1>1, FrontLast
<1> QED  BY <1>1, <1>2

\* The pieces of one part more.
PieceOf(D, g, b) ==
  IF ~g.target THEN Trimmed(g.lines) ELSE IF Untargeted(D) THEN b ELSE <<>>

LEMMA UntargetedAppend ==
  ASSUME NEW V, NEW D \in Seq(Parts(V)), NEW g \in Parts(V)
  PROVE  Untargeted(Append(D, g)) <=> Untargeted(D) /\ ~g.target
<1>1. /\ Len(Append(D, g)) = Len(D) + 1 /\ Len(D) \in Nat /\ Append(D, g)[Len(D) + 1] = g
      /\ \A i \in 1..Len(D) : Append(D, g)[i] = D[i]
      /\ DOMAIN Append(D, g) = 1..Len(D) + 1 /\ DOMAIN D = 1..Len(D)
  BY AppendProperties
<1>2. \A i \in 1..Len(D) + 1 : i \in 1..Len(D) \/ i = Len(D) + 1
  BY <1>1
<1>3. (\A i \in 1..Len(D) : i \in 1..Len(D) + 1) /\ Len(D) + 1 \in 1..Len(D) + 1
  BY <1>1
<1> QED  BY <1>1, <1>2, <1>3, Zenon DEF Untargeted

LEMMA PieceType ==
  ASSUME NEW V, NEW D, NEW g \in Parts(V), NEW b \in Seq(Line(V))
  PROVE  PieceOf(D, g, b) \in Seq(Line(V))
<1>1. g.lines \in Seq(Line(V)) /\ <<>> \in Seq(Line(V))
  BY DEF Parts
<1> QED  BY <1>1, TrimmedType DEF PieceOf

LEMMA PiecesType ==
  ASSUME NEW V, NEW D \in Seq(Parts(V)), NEW b \in Seq(Line(V))
  PROVE  Pieces(D, b) \in Seq(Seq(Line(V))) /\ Len(Pieces(D, b)) = Len(D)
         /\ \A i \in 1..Len(D) : Pieces(D, b)[i] = PieceOf(SubSeq(D, 1, i - 1), D[i], b)
<1>1. Pieces(D, b) = [i \in 1..Len(D) |-> PieceOf(SubSeq(D, 1, i - 1), D[i], b)]
  BY DEF Pieces, PieceOf
<1>2. \A i \in 1..Len(D) : PieceOf(SubSeq(D, 1, i - 1), D[i], b) \in Seq(Line(V))
  <2>1. \A i \in 1..Len(D) : D[i] \in Parts(V)
    OBVIOUS
  <2> QED  BY <2>1, PieceType
<1>3. Len(D) \in Nat
  OBVIOUS
<1> QED  BY <1>1, <1>2, <1>3

LEMMA PiecesAppend ==
  ASSUME NEW V, NEW D \in Seq(Parts(V)), NEW g \in Parts(V), NEW b \in Seq(Line(V))
  PROVE  Pieces(Append(D, g), b) = Append(Pieces(D, b), PieceOf(D, g, b))
<1> DEFINE m == Append(D, g)
           P == Pieces(D, b)
           x == PieceOf(D, g, b)
           Q == Append(P, x)
<1>1. /\ m \in Seq(Parts(V)) /\ Len(m) = Len(D) + 1 /\ Len(D) \in Nat /\ m[Len(D) + 1] = g
      /\ \A i \in 1..Len(D) : m[i] = D[i]
  BY AppendProperties
<1>2. P \in Seq(Seq(Line(V))) /\ Len(P) = Len(D)
      /\ \A i \in 1..Len(D) : P[i] = PieceOf(SubSeq(D, 1, i - 1), D[i], b)
  BY PiecesType
<1> HIDE DEF m
<1>3. Pieces(m, b) \in Seq(Seq(Line(V))) /\ Len(Pieces(m, b)) = Len(D) + 1
      /\ \A i \in 1..Len(D) + 1 : Pieces(m, b)[i] = PieceOf(SubSeq(m, 1, i - 1), m[i], b)
  BY <1>1, PiecesType
<1>4. x \in Seq(Line(V))
  BY PieceType
<1> HIDE DEF P, x
<1>5. Q \in Seq(Seq(Line(V))) /\ Len(Q) = Len(D) + 1 /\ Q[Len(D) + 1] = x
      /\ \A i \in 1..Len(D) : Q[i] = P[i]
  BY <1>2, <1>4, AppendProperties
<1> HIDE DEF Q
<1>6. \A k \in 0..Len(D) : SubSeq(m, 1, k) = SubSeq(D, 1, k)
  <2> SUFFICES ASSUME NEW k \in 0..Len(D) PROVE SubSeq(m, 1, k) = SubSeq(D, 1, k)
    OBVIOUS
  <2>1. \A i \in 1..k : i \in 1..Len(D)
    BY <1>1
  <2>2. \A i \in 1..k : m[i] = D[i] /\ m[i] \in Parts(V) /\ D[i] \in Parts(V)
    BY <1>1, <2>1
  <2>3. 1 \in Int /\ k \in Int
    BY <1>1
  <2> QED  BY <2>2, <2>3, SubSeqSame
<1>7. ASSUME NEW i \in 1..Len(D) + 1 PROVE Pieces(m, b)[i] = Q[i]
  <2>1. i - 1 \in 0..Len(D)
    BY <1>1
  <2>2. Pieces(m, b)[i] = PieceOf(SubSeq(D, 1, i - 1), m[i], b)
    BY <1>3, <1>6, <2>1
  <2>3. CASE i = Len(D) + 1
    <3>1. SubSeq(D, 1, i - 1) = D
      <4>1. i - 1 = Len(D)
        BY <1>1, <2>3
      <4>2. SubSeq(D, 1, Len(D)) = D
        BY SubSeqFull
      <4> QED  BY <4>1, <4>2
    <3> QED  BY <1>1, <1>5, <2>2, <2>3, <3>1 DEF x
  <2>4. CASE i # Len(D) + 1
    <3>1. i \in 1..Len(D)
      BY <1>1, <2>4
    <3> QED  BY <1>1, <1>2, <1>5, <2>2, <3>1
  <2> QED  BY <2>3, <2>4
<1>8. Pieces(m, b) = Q
  <2>1. Len(Pieces(m, b)) = Len(Q) /\ \A i \in 1..Len(Pieces(m, b)) : Pieces(m, b)[i] = Q[i]
    BY <1>3, <1>5, <1>7
  <2>2. PICK p : p = Pieces(m, b)
    OBVIOUS
  <2> QED  BY <1>3, <1>5, <2>1, <2>2, SeqEqual
<1> QED  BY <1>8 DEF m, P, x, Q

LEMMA JoinedPieces ==
  ASSUME NEW V, NEW D \in Seq(Parts(V)), NEW g \in Parts(V), NEW b \in Seq(Line(V))
  PROVE  /\ Joined(Pieces(Append(D, g), b)) = JoinStep(Joined(Pieces(D, b)), PieceOf(D, g, b))
         /\ Joined(Pieces(D, b)) \in Seq(Line(V))
<1>1. Pieces(D, b) \in Seq(Seq(Line(V))) /\ PieceOf(D, g, b) \in Seq(Line(V))
  BY PiecesType, PieceType
<1>2. Joined(Append(Pieces(D, b), PieceOf(D, g, b))) = JoinStep(Joined(Pieces(D, b)), PieceOf(D, g, b))
  BY <1>1, JoinedAppend
<1>3. Joined(Pieces(D, b)) \in Seq(Line(V))
  BY <1>1, JoinedType
<1> QED  BY <1>2, <1>3, PiecesAppend, Zenon

\* The tails of one segment more.
LEMMA DetachedType ==
  ASSUME NEW V, NEW g \in Segs(V)
  PROVE  OwnOf(g) \in Seq(Parts(V)) /\ detached(g) = Append(OwnOf(g), Segment(CurOf(g), FALSE))
         /\ Segment(CurOf(g), FALSE) \in Parts(V) /\ detached(g) \in Seq(Parts(V))
<1>1. Segment(CurOf(g), FALSE) \in Parts(V)
  BY CurType, SegIs
<1>2. OwnOf(g) \in Seq(Parts(V))
  <2>1. CASE OwnOf(g) = <<>>
    BY <2>1
  <2>2. CASE OwnOf(g) # <<>>
    <3>1. PICK x \in Seq(Line(V)) : OwnOf(g) = <<Segment(x, TRUE)>>
      BY <2>2, CurType
    <3>2. PICK y \in Parts(V) : y = Segment(x, TRUE)
      BY SegIs
    <3>3. <<y>> \in Seq(Parts(V))
      OBVIOUS
    <3> QED  BY <3>1, <3>2, <3>3
  <2> QED  BY <2>1, <2>2
<1>3. Append(OwnOf(g), Segment(CurOf(g), FALSE)) = OwnOf(g) \o <<Segment(CurOf(g), FALSE)>>
      /\ Append(OwnOf(g), Segment(CurOf(g), FALSE)) \in Seq(Parts(V))
  BY <1>1, <1>2, AppendIsConcat, AppendProperties
<1> QED  BY <1>1, <1>2, <1>3, CurType

Mapped(h, s) == [i \in DOMAIN s |-> h[s[i]]]

LEMMA MapAppend ==
  ASSUME NEW S, NEW h, NEW s \in Seq(S), NEW e \in S
  PROVE  Mapped(h, Append(s, e)) = Append(Mapped(h, s), h[e])
<1> DEFINE T == {h[x] : x \in S}
           m == Append(s, e)
           p == [i \in DOMAIN s |-> h[s[i]]]
           q == [i \in DOMAIN m |-> h[m[i]]]
           r == Append(p, h[e])
<1>1. /\ m \in Seq(S) /\ Len(m) = Len(s) + 1 /\ Len(s) \in Nat /\ m[Len(s) + 1] = e
      /\ \A i \in 1..Len(s) : m[i] = s[i]
      /\ DOMAIN m = 1..Len(s) + 1 /\ DOMAIN s = 1..Len(s)
  BY AppendProperties
<1> HIDE DEF m
<1>2. p \in Seq(T) /\ Len(p) = Len(s) /\ \A i \in 1..Len(s) : p[i] = h[s[i]]
  <2>1. \A i \in 1..Len(s) : h[s[i]] \in T
    OBVIOUS
  <2> QED  BY <1>1, <2>1
<1>3. q \in Seq(T) /\ Len(q) = Len(s) + 1 /\ \A i \in 1..Len(s) + 1 : q[i] = h[m[i]]
  <2>1. \A i \in 1..Len(s) + 1 : h[m[i]] \in T
    BY <1>1
  <2> QED  BY <1>1, <2>1
<1> HIDE DEF p, q
<1>4. r \in Seq(T) /\ Len(r) = Len(s) + 1 /\ r[Len(s) + 1] = h[e] /\ \A i \in 1..Len(s) : r[i] = p[i]
  BY <1>1, <1>2, AppendProperties
<1> HIDE DEF r
<1>5. \A i \in 1..Len(s) + 1 : i \in 1..Len(s) \/ i = Len(s) + 1
  BY <1>1
<1>6. \A i \in 1..Len(q) : q[i] = r[i]
  BY <1>1, <1>2, <1>3, <1>4, <1>5
<1>7. q = r
  BY <1>3, <1>4, <1>6, SeqEqual
<1> QED  BY <1>2, <1>7 DEF m, p, q, r, Mapped

LEMMA MapType ==
  ASSUME NEW S, NEW T, NEW h, \A x \in S : h[x] \in T, NEW s \in Seq(S)
  PROVE  Mapped(h, s) \in Seq(T)
<1>1. \A i \in 1..Len(s) : h[s[i]] \in T
  OBVIOUS
<1>2. DOMAIN s = 1..Len(s) /\ Len(s) \in Nat
  OBVIOUS
<1> QED  BY <1>1, <1>2 DEF Mapped

LEMMA DetachAppend ==
  ASSUME NEW V, NEW S \in Seq(Segs(V)), NEW g \in Segs(V)
  PROVE  /\ detachTails(S) \in Seq(Parts(V))
         /\ detachTails(Append(S, g)) = detachTails(S) \o detached(g)
<1> DEFINE h == [x \in Segs(V) |-> detached(x)]
           p == Mapped(h, S)
<1>1. h \in [Segs(V) -> Seq(Parts(V))]
  BY DetachedType
<1>2. detachTails(S) = FlattenSeq(p)
  <2>1. \A i \in DOMAIN S : S[i] \in Segs(V)
    OBVIOUS
  <2> QED  BY <2>1 DEF detachTails, Mapped
<1>3. detachTails(Append(S, g)) = FlattenSeq(Mapped(h, Append(S, g)))
  <2>1. Append(S, g) \in Seq(Segs(V))
    BY AppendProperties
  <2>2. \A i \in DOMAIN Append(S, g) : Append(S, g)[i] \in Segs(V)
    BY <2>1
  <2> QED  BY <2>2 DEF detachTails, Mapped
<1>4. h[g] = detached(g) /\ h[g] \in Seq(Parts(V))
  BY <1>1
<1>5. p \in Seq(Seq(Parts(V)))
      /\ Mapped(h, Append(S, g)) = Append(p, h[g])
  <2> HIDE DEF h
  <2>1. \A x \in Segs(V) : h[x] \in Seq(Parts(V))
    BY <1>1
  <2>2. Mapped(h, S) \in Seq(Seq(Parts(V)))
    BY <2>1, MapType
  <2> QED  BY <2>2, MapAppend
<1> HIDE DEF h, p
<1>6. FlattenSeq(Append(p, h[g])) = FlattenSeq(p) \o h[g] /\ FlattenSeq(p) \in Seq(Parts(V))
  BY <1>4, <1>5, FlattenAppend, FlattenType
<1> QED  BY <1>2, <1>3, <1>4, <1>5, <1>6

LEMMA DetachNone == detachTails(<<>>) = <<>>
<1>1. [i \in DOMAIN <<>> |-> detached(<<>>[i])] = <<>>
  OBVIOUS
<1> QED  BY <1>1, FlattenNone DEF detachTails

\* What an edit has done with the lines so far: the pieces that are finished, joined;
\* the lines since, that do not go with a table of the server; whether the last
\* header was the server's; and whether one has been.
Weaves(V) == [out : Seq(Line(V)), cur : Seq(Line(V)), mine : BOOLEAN, seen : BOOLEAN]

WeaveOf(P, g, b) ==
  [out |-> IF g.target /\ Untargeted(detachTails(P))
             THEN JoinStep(Joined(Pieces(detachTails(P), b)), b)
             ELSE Joined(Pieces(detachTails(P), b)),
   cur |-> CurOf(g), mine |-> g.target, seen |-> g.target \/ ~Untargeted(detachTails(P))]

Weave(s, b) == WeaveOf(Front(splitSegments(s)), Last(splitSegments(s)), b)

\* The text when the lines end.
Ended(w) == JoinStep(w.out, Trimmed(w.cur))

\* One line more.
WeaveStep(w, l, b) ==
  IF IsHeader(l)
    THEN [out |-> IF Target(l) /\ ~w.seen THEN JoinStep(Ended(w), b) ELSE Ended(w),
          cur |-> IF Target(l) THEN <<>> ELSE <<l>>,
          mine |-> Target(l), seen |-> Target(l) \/ w.seen]
  ELSE [out |-> w.out,
        cur |-> IF w.mine /\ IsContent(l) THEN <<>> ELSE Append(w.cur, l),
        mine |-> w.mine, seen |-> w.seen]

LEMMA JoinNothing ==
  ASSUME NEW u PROVE JoinStep(u, <<>>) = u /\ JoinStep(<<>>, u) = u
BY DEF JoinStep

LEMMA WeaveOfType ==
  ASSUME NEW V, NEW P \in Seq(Segs(V)), NEW g \in Segs(V), NEW b \in Seq(Line(V))
  PROVE  /\ WeaveOf(P, g, b) \in Weaves(V)
         /\ WeaveOf(P, g, b).mine = g.target
<1>1. detachTails(P) \in Seq(Parts(V))
  BY DetachAppend
<1>2. Joined(Pieces(detachTails(P), b)) \in Seq(Line(V))
  BY <1>1, PiecesType, JoinedType
<1>3. JoinStep(Joined(Pieces(detachTails(P), b)), b) \in Seq(Line(V))
  BY <1>2, JoinStepType
<1>4. CurOf(g) \in Seq(Line(V)) /\ g.target \in BOOLEAN
  BY CurType, SegFields
<1>5. Untargeted(detachTails(P)) \in BOOLEAN
  BY DEF Untargeted
<1> QED  BY <1>2, <1>3, <1>4, <1>5 DEF WeaveOf, Weaves

\* The pieces of the segments, the last one's tail among them.
LEMMA WeaveEnds ==
  ASSUME NEW V, NEW P \in Seq(Segs(V)), NEW g \in Segs(V), NEW b \in Seq(Line(V))
  PROVE  /\ Joined(Pieces(detachTails(Append(P, g)), b)) = Ended(WeaveOf(P, g, b))
         /\ Untargeted(detachTails(Append(P, g))) <=> ~WeaveOf(P, g, b).seen
<1> DEFINE D == detachTails(P)
           c == Segment(CurOf(g), FALSE)
<1>1. D \in Seq(Parts(V)) /\ detachTails(Append(P, g)) = D \o detached(g)
  BY DetachAppend
<1>2. OwnOf(g) \in Seq(Parts(V)) /\ detached(g) = Append(OwnOf(g), c) /\ c \in Parts(V)
  BY DetachedType
<1>3. c.lines = CurOf(g) /\ c.target = FALSE
  BY CurType, SegIs
<1>4. D \o detached(g) = Append(D \o OwnOf(g), c) /\ D \o OwnOf(g) \in Seq(Parts(V))
  <2>1. PICK x, y, e : x = D /\ y = OwnOf(g) /\ e = c
    OBVIOUS
  <2>2. x \in Seq(Parts(V)) /\ y \in Seq(Parts(V)) /\ e \in Parts(V)
    BY <1>1, <1>2, <2>1
  <2>3. x \o Append(y, e) = Append(x \o y, e) /\ x \o y \in Seq(Parts(V))
    BY <2>2, CatAppend, CatType
  <2> HIDE DEF D, c
  <2> QED  BY <1>2, <2>1, <2>3, Zenon
<1>5. PieceOf(D \o OwnOf(g), c, b) = Trimmed(CurOf(g))
  BY <1>3 DEF PieceOf
<1> HIDE DEF c
<1>6. /\ Joined(Pieces(detachTails(Append(P, g)), b))
           = JoinStep(Joined(Pieces(D \o OwnOf(g), b)), Trimmed(CurOf(g)))
      /\ Untargeted(detachTails(Append(P, g))) <=> Untargeted(D \o OwnOf(g))
  <2>1. Joined(Pieces(Append(D \o OwnOf(g), c), b))
           = JoinStep(Joined(Pieces(D \o OwnOf(g), b)), PieceOf(D \o OwnOf(g), c, b))
    <3>1. PICK x \in Seq(Parts(V)), e \in Parts(V) : x = D \o OwnOf(g) /\ e = c
      BY <1>2, <1>4
    <3>2. Joined(Pieces(Append(x, e), b)) = JoinStep(Joined(Pieces(x, b)), PieceOf(x, e, b))
      BY JoinedPieces
    <3> HIDE DEF D
    <3> QED  BY <3>1, <3>2, Zenon
  <2>2. Untargeted(Append(D \o OwnOf(g), c)) <=> Untargeted(D \o OwnOf(g)) /\ ~c.target
    BY <1>2, <1>4, UntargetedAppend
  <2> HIDE DEF D
  <2> QED  BY <1>1, <1>3, <1>4, <1>5, <2>1, <2>2, Zenon
<1>7. g.target \in BOOLEAN
  BY SegFields
<1>8. CASE ~g.target
  <2>1. OwnOf(g) = <<>>
    BY <1>8 DEF OwnOf
  <2>2. D \o OwnOf(g) = D
    BY <1>1, <2>1, ConcatEmptySeq
  <2>3. WeaveOf(P, g, b).out = Joined(Pieces(D, b)) /\ WeaveOf(P, g, b).cur = CurOf(g)
        /\ (WeaveOf(P, g, b).seen <=> ~Untargeted(D))
    BY <1>8 DEF WeaveOf
  <2> HIDE DEF D
  <2> QED  BY <1>6, <2>2, <2>3, Zenon DEF Ended
<1>9. CASE g.target
  <2>1. PICK x \in Seq(Line(V)) : OwnOf(g) = <<Segment(x, TRUE)>>
    <3>1. OwnOf(g) # <<>>
      BY <1>9 DEF OwnOf
    <3> QED  BY <3>1, CurType
  <2>2. PICK o \in Parts(V) : o = Segment(x, TRUE)
    BY SegIs
  <2>3. o.target = TRUE
    BY <2>2, SegIs
  <2>4. D \o OwnOf(g) = Append(D, o)
    BY <1>1, <2>1, <2>2, AppendIsConcat
  <2>5. PieceOf(D, o, b) = IF Untargeted(D) THEN b ELSE <<>>
    BY <2>3 DEF PieceOf
  <2>6. Joined(Pieces(Append(D, o), b)) = JoinStep(Joined(Pieces(D, b)), PieceOf(D, o, b))
    BY <1>1, JoinedPieces
  <2>7. ~Untargeted(Append(D, o))
    BY <1>1, <2>3, UntargetedAppend
  <2>8. WeaveOf(P, g, b).out = (IF Untargeted(D) THEN JoinStep(Joined(Pieces(D, b)), b)
                                ELSE Joined(Pieces(D, b)))
        /\ WeaveOf(P, g, b).cur = CurOf(g) /\ WeaveOf(P, g, b).seen
    BY <1>9 DEF WeaveOf
  <2> HIDE DEF D
  <2>9. Joined(Pieces(Append(D, o), b)) = WeaveOf(P, g, b).out
    BY <2>5, <2>6, <2>8, JoinNothing, Zenon
  <2> QED  BY <1>6, <2>4, <2>7, <2>8, <2>9, Zenon DEF Ended
<1> QED  BY <1>7, <1>8, <1>9

\* The segments of a text, but for its last, and the last.
LEMMA SplitLast ==
  ASSUME NEW V, NEW s \in Seq(Line(V))
  PROVE  /\ Front(splitSegments(s)) \in Seq(Segs(V)) /\ Last(splitSegments(s)) \in Segs(V)
         /\ splitSegments(s) = Append(Front(splitSegments(s)), Last(splitSegments(s)))
         /\ splitSegments(s) \in Seq(Segs(V))
<1>1. splitSegments(s) \in Seq(Segs(V)) /\ splitSegments(s) # <<>>
  BY splitSegmentsType DEF Cuts
<1> QED  BY <1>1, FrontAppend

LEMMA WeaveType ==
  ASSUME NEW V, NEW s \in Seq(Line(V)), NEW b \in Seq(Line(V))
  PROVE  Weave(s, b) \in Weaves(V)
BY SplitLast, WeaveOfType DEF Weave

LEMMA WeaveNone ==
  ASSUME NEW b
  PROVE  Weave(<<>>, b) = [out |-> <<>>, cur |-> <<>>, mine |-> FALSE, seen |-> FALSE]
<1> DEFINE g == Segment(<<>>, FALSE)
<1>1. splitSegments(<<>>) = <<g>>
  BY splitSegmentsNone
<1>2. Front(<<g>>) = <<>> /\ Last(<<g>>) = g
  <2>1. Len(<<g>>) = 1 /\ 1 - 1 = 0 /\ SubSeq(<<g>>, 1, 0) = <<>> /\ <<g>>[1] = g
    OBVIOUS
  <2> HIDE DEF g
  <2> QED  BY <2>1 DEF Front, Last
<1>3. g.target = FALSE /\ CurOf(g) = <<>>
  BY DEF Segment, CurOf
<1> HIDE DEF g
<1>4. Pieces(<<>>, b) = <<>>
  BY DEF Pieces
<1>5. Untargeted(<<>>)
  BY DEF Untargeted
<1>6. Weave(<<>>, b) = WeaveOf(<<>>, g, b)
  BY <1>1, <1>2 DEF Weave
<1> QED  BY <1>3, <1>4, <1>5, <1>6, DetachNone, JoinedNone DEF WeaveOf

LEMMA WeaveAppend ==
  ASSUME NEW V, NEW s \in Seq(Line(V)), NEW l \in Line(V), NEW b \in Seq(Line(V))
  PROVE  Weave(Append(s, l), b) = WeaveStep(Weave(s, b), l, b)
<1> DEFINE S == splitSegments(s)
           P == Front(S)
           g == Last(S)
<1>1. P \in Seq(Segs(V)) /\ g \in Segs(V) /\ S = Append(P, g) /\ S \in Seq(Segs(V))
  BY SplitLast
<1>2. splitSegments(Append(s, l)) = SplitStep(S, l)
  BY splitSegmentsAppend
<1>3. Weave(s, b) = WeaveOf(P, g, b)
  BY DEF Weave
<1> HIDE DEF S, P, g
<1>4. CASE IsHeader(l)
  <2> DEFINE h == Segment(<<l>>, Target(l))
  <2>1. h \in Segs(V) /\ CurOf(h) = (IF Target(l) THEN <<>> ELSE <<l>>) /\ h.target = Target(l)
    BY <1>4, CurHeader
  <2>2. SplitStep(S, l) = Append(S, h)
    BY <1>4 DEF SplitStep
  <2> HIDE DEF h
  <2>3. Weave(Append(s, l), b) = WeaveOf(S, h, b)
    <3>1. Front(Append(S, h)) = S /\ Last(Append(S, h)) = h
      BY <1>1, <2>1, FrontLast
    <3> QED  BY <1>2, <2>2, <3>1, Zenon DEF Weave
  <2>4. Joined(Pieces(detachTails(S), b)) = Ended(Weave(s, b))
        /\ (Untargeted(detachTails(S)) <=> ~Weave(s, b).seen)
    BY <1>1, <1>3, WeaveEnds
  <2>5. WeaveOf(S, h, b)
          = [out |-> IF h.target /\ Untargeted(detachTails(S))
                       THEN JoinStep(Ended(Weave(s, b)), b) ELSE Ended(Weave(s, b)),
             cur |-> CurOf(h), mine |-> h.target,
             seen |-> h.target \/ ~Untargeted(detachTails(S))]
    BY <2>4, Zenon DEF WeaveOf
  <2>6. Weave(s, b).seen \in BOOLEAN /\ Target(l) \in BOOLEAN
    BY WeaveType DEF Weaves, Target, IsHeader
  <2>7. (h.target \/ ~Untargeted(detachTails(S))) = (Target(l) \/ Weave(s, b).seen)
    BY <2>1, <2>4, <2>6
  <2>8. (h.target /\ Untargeted(detachTails(S))) <=> (Target(l) /\ ~Weave(s, b).seen)
    BY <2>1, <2>4, <2>6
  <2> QED  BY <1>4, <2>1, <2>3, <2>5, <2>7, <2>8, Zenon DEF WeaveStep
<1>5. CASE ~IsHeader(l)
  <2> DEFINE h == [g EXCEPT !.lines = Append(@, l)]
  <2>1. h \in Segs(V) /\ h.target = g.target
        /\ CurOf(h) = (IF g.target /\ IsContent(l) THEN <<>> ELSE Append(CurOf(g), l))
    <3>1. PICK k : k = h
      OBVIOUS
    <3>2. k \in Segs(V) /\ k.target = g.target
          /\ CurOf(k) = (IF g.target /\ IsContent(l) THEN <<>> ELSE Append(CurOf(g), l))
      BY <1>1, <3>1, CurAppend
    <3> HIDE DEF h
    <3> QED  BY <3>1, <3>2
  <2>2. SplitStep(S, l) = Append(P, h)
    <3>1. /\ Len(S) = Len(P) + 1 /\ Len(P) \in Nat /\ S[Len(P) + 1] = g
          /\ \A i \in 1..Len(P) : S[i] = P[i]
      BY <1>1, AppendProperties
    <3>2. S[Len(S)] = g /\ Len(S) \in 1..Len(S)
      BY <3>1
    <3>3. SplitStep(S, l) = [S EXCEPT ![Len(S)] = h]
      BY <1>5, <3>2 DEF SplitStep
    <3> HIDE DEF h
    <3>4. PICK T : T = [S EXCEPT ![Len(S)] = h]
      OBVIOUS
    <3>5. T \in Seq(Segs(V)) /\ Len(T) = Len(S)
          /\ \A j \in 1..Len(S) : T[j] = IF j = Len(S) THEN h ELSE S[j]
      <4>1. PICK n \in 1..Len(S) : n = Len(S)
        BY <3>2
      <4>2. T = [S EXCEPT ![n] = h]
        BY <3>4, <4>1
      <4>3. T \in Seq(Segs(V)) /\ Len(T) = Len(S)
            /\ \A j \in 1..Len(S) : T[j] = IF j = n THEN h ELSE S[j]
        <5>1. S \in Seq(Segs(V)) /\ h \in Segs(V)
          BY <1>1, <2>1
        <5>2. PICK x, y : x = S /\ y = h
          OBVIOUS
        <5>3. x \in Seq(Segs(V)) /\ y \in Segs(V) /\ n \in 1..Len(x) /\ T = [x EXCEPT ![n] = y]
          BY <4>2, <5>1, <5>2
        <5>4. [x EXCEPT ![n] = y] \in Seq(Segs(V)) /\ Len([x EXCEPT ![n] = y]) = Len(x)
              /\ \A j \in 1..Len(x) : [x EXCEPT ![n] = y][j] = IF j = n THEN y ELSE x[j]
          BY <5>3, ExceptSeq
        <5> QED  BY <5>2, <5>3, <5>4, Zenon
      <4> QED  BY <4>1, <4>3
    <3>6. PICK U : U = Append(P, h)
      OBVIOUS
    <3>7. U \in Seq(Segs(V)) /\ Len(U) = Len(P) + 1 /\ U[Len(P) + 1] = h
          /\ \A i \in 1..Len(P) : U[i] = P[i]
      BY <1>1, <2>1, <3>6, AppendProperties
    <3>8. \A j \in 1..Len(S) : j = Len(P) + 1 \/ (j \in 1..Len(P) /\ j # Len(S))
      BY <3>1
    <3>9. \A j \in 1..Len(T) : T[j] = U[j]
      BY <3>1, <3>5, <3>7, <3>8
    <3>10. T = U
      BY <3>1, <3>5, <3>7, <3>9, SeqEqual
    <3> QED  BY <3>3, <3>4, <3>6, <3>10
  <2> HIDE DEF h
  <2>3. Weave(Append(s, l), b) = WeaveOf(P, h, b)
    BY <1>1, <1>2, <2>1, <2>2, FrontLast DEF Weave
  <2>4. /\ WeaveOf(P, h, b).out = WeaveOf(P, g, b).out
        /\ WeaveOf(P, h, b).seen = WeaveOf(P, g, b).seen
        /\ WeaveOf(P, h, b).cur = CurOf(h) /\ WeaveOf(P, g, b).cur = CurOf(g)
        /\ WeaveOf(P, h, b).mine = g.target /\ WeaveOf(P, g, b).mine = g.target
    BY <2>1 DEF WeaveOf
  <2>5. WeaveOf(P, h, b) = [out |-> WeaveOf(P, h, b).out, cur |-> WeaveOf(P, h, b).cur,
                            mine |-> WeaveOf(P, h, b).mine, seen |-> WeaveOf(P, h, b).seen]
    BY DEF WeaveOf
  <2> QED  BY <1>3, <1>5, <2>1, <2>3, <2>4, <2>5, Zenon DEF WeaveStep
<1> QED  BY <1>4, <1>5

\* What an edit makes of a text.
LEMMA AssembledIs ==
  ASSUME NEW V, NEW s \in Seq(Line(V)), NEW b \in Seq(Line(V))
  PROVE  Assembled(s, b) = IF Weave(s, b).seen THEN Ended(Weave(s, b))
                           ELSE JoinStep(Ended(Weave(s, b)), b)
<1> DEFINE D == detachTails(splitSegments(s))
           w == Weave(s, b)
<1>1. Joined(Pieces(D, b)) = Ended(w) /\ (Untargeted(D) <=> ~w.seen)
  BY SplitLast, WeaveEnds DEF Weave
<1>2. D \in Seq(Parts(V))
  BY SplitLast, DetachAppend
<1>3. Assembled(s, b) = Joined(IF Untargeted(D) THEN Append(Pieces(D, b), b) ELSE Pieces(D, b))
  BY DEF Assembled
<1>4. Joined(Append(Pieces(D, b), b)) = JoinStep(Joined(Pieces(D, b)), b)
  <2>1. Pieces(D, b) \in Seq(Seq(Line(V)))
    BY <1>2, PiecesType
  <2> QED  BY <2>1, JoinedAppend
<1> HIDE DEF D, w
<1>5. Assembled(s, b) = IF w.seen THEN Ended(w) ELSE JoinStep(Ended(w), b)
  BY <1>1, <1>3, <1>4, Zenon
<1> QED  BY <1>5 DEF w

LEMMA EndedType ==
  ASSUME NEW V, NEW w \in Weaves(V) PROVE Ended(w) \in Seq(Line(V))
<1>1. w.out \in Seq(Line(V)) /\ w.cur \in Seq(Line(V))
  BY DEF Weaves
<1> QED  BY <1>1, TrimmedType, JoinStepType DEF Ended

(* ---- what an edit leaves: the lines before the block and after it ---- *)

LEMMA PadType ==
  ASSUME NEW S, Blank \in S, NEW m \in {<<>>, <<Blank>>}
  PROVE  m \in Seq(S) /\ Blanks(m)
<1>1. CASE m = <<>>
  BY <1>1 DEF Blanks
<1>2. CASE m = <<Blank>>
  <2>1. PICK e \in S : e = Blank
    OBVIOUS
  <2>2. <<e>> \in Seq(S)
    OBVIOUS
  <2> QED  BY <1>2, <2>1, <2>2, OneBlank, Zenon
<1> QED  BY <1>1, <1>2

LEMMA JoinPad ==
  ASSUME NEW S, Blank \in S, NEW u \in Seq(S), NEW p \in Seq(S)
  PROVE  \E m \in {<<>>, <<Blank>>} : JoinStep(u, p) = u \o m \o p
<1>1. u \o <<>> = u /\ <<>> \o p = p /\ u \o <<>> \o <<>> = u /\ <<>> \o <<>> \o p = p
  <2>1. u \o <<>> = u /\ <<>> \o p = p
    BY ConcatEmptySeq
  <2>2. <<>> \o <<>> = <<>>
    OBVIOUS
  <2> QED  BY <2>1, <2>2, Zenon
<1>2. CASE p = <<>>
  BY <1>1, <1>2 DEF JoinStep
<1>3. CASE p # <<>> /\ u = <<>>
  BY <1>1, <1>3 DEF JoinStep
<1>4. CASE p # <<>> /\ u # <<>>
  BY <1>4 DEF JoinStep
<1> QED  BY <1>2, <1>3, <1>4

LEMMA JoinIn ==
  ASSUME NEW S, Blank \in S, NEW u \in Seq(S), NEW p \in Seq(S)
  PROVE  JoinStep(u, p) \in Seq(S)
<1>1. PICK m \in {<<>>, <<Blank>>} : JoinStep(u, p) = u \o m \o p
  BY JoinPad
<1>2. m \in Seq(S)
  BY PadType
<1>3. u \o m \in Seq(S)
  BY <1>2, CatType
<1>4. (u \o m) \o p \in Seq(S)
  BY <1>3, CatType
<1> QED  BY <1>1, <1>4

LEMMA CatNotEmpty ==
  ASSUME NEW S, NEW u \in Seq(S), NEW p \in Seq(S)
  PROVE  u \o p = <<>> <=> u = <<>> /\ p = <<>>
BY ConcatEqualIffEmpty

LEMMA JoinEmpty ==
  ASSUME NEW S, Blank \in S, NEW u \in Seq(S), NEW p \in Seq(S)
  PROVE  JoinStep(u, p) = <<>> <=> u = <<>> /\ p = <<>>
<1>1. <<Blank>> \in Seq(S) /\ <<Blank>> # <<>>
  OBVIOUS
<1>2. u \o <<Blank>> # <<>> /\ u \o <<Blank>> \in Seq(S)
  BY <1>1, CatNotEmpty, CatType
<1>3. (u \o <<Blank>>) \o p # <<>>
  BY <1>2, CatNotEmpty
<1> QED  BY <1>3 DEF JoinStep

LEMMA JoinAssociative ==
  ASSUME NEW S, Blank \in S, NEW x \in Seq(S), NEW y \in Seq(S), NEW z \in Seq(S)
  PROVE  JoinStep(JoinStep(x, y), z) = JoinStep(x, JoinStep(y, z))
<1>1. CASE x = <<>> \/ y = <<>> \/ z = <<>>
  BY <1>1 DEF JoinStep
<1>2. CASE x # <<>> /\ y # <<>> /\ z # <<>>
  <2> DEFINE m == <<Blank>>
  <2>1. m \in Seq(S)
    OBVIOUS
  <2> HIDE DEF m
  <2>2. x \o m \in Seq(S) /\ x \o m \o y \in Seq(S) /\ y \o m \in Seq(S) /\ y \o m \o z \in Seq(S)
        /\ m \o z \in Seq(S)
    <3>1. x \o m \in Seq(S) /\ y \o m \in Seq(S) /\ m \o z \in Seq(S)
      BY <2>1, CatType
    <3> QED  BY <2>1, <3>1, CatType
  <2>3. JoinStep(x, y) = x \o m \o y /\ JoinStep(y, z) = y \o m \o z
    BY <1>2 DEF JoinStep, m
  <2>4. JoinStep(x, y) # <<>> /\ JoinStep(y, z) # <<>>
    BY <1>2, JoinEmpty
  <2>5. JoinStep(JoinStep(x, y), z) = (x \o m \o y) \o m \o z
    BY <1>2, <2>3, <2>4 DEF JoinStep, m
  <2>6. JoinStep(x, JoinStep(y, z)) = x \o m \o (y \o m \o z)
    BY <1>2, <2>3, <2>4 DEF JoinStep, m
  <2>7. ((x \o m \o y) \o m) \o z = (x \o m \o y) \o (m \o z)
    <3>1. PICK p \in Seq(S) : p = x \o m \o y
      BY <2>2
    <3>2. (p \o m) \o z = p \o (m \o z)
      BY <2>1, ConcatAssociative, SMTT(30)
    <3> QED  BY <3>1, <3>2
  <2>8. (x \o m \o y) \o (m \o z) = (x \o m) \o (y \o (m \o z))
    <3>1. PICK p \in Seq(S), q \in Seq(S) : p = x \o m /\ q = m \o z
      BY <2>2
    <3>2. (p \o y) \o q = p \o (y \o q)
      BY ConcatAssociative, SMTT(30)
    <3> QED  BY <3>1, <3>2
  <2>9. y \o (m \o z) = (y \o m) \o z
    BY <2>1, ConcatAssociative, SMTT(30)
  <2> QED  BY <2>5, <2>6, <2>7, <2>8, <2>9
<1> QED  BY <1>1, <1>2

\* Joining with blank lines changes nothing of the lines that are not blank.
LEMMA NonBlankJoin ==
  ASSUME NEW V, NEW u \in Seq(Line(V)), NEW p \in Seq(Line(V))
  PROVE  NonBlank(JoinStep(u, p)) = NonBlank(u) \o NonBlank(p)
<1>1. PICK m \in {<<>>, <<Blank>>} : JoinStep(u, p) = u \o m \o p
  BY BlankIsLine, JoinPad
<1>2. m \in Seq(Line(V)) /\ Blanks(m)
  BY BlankIsLine, PadType
<1>3. u \o m \in Seq(Line(V))
  BY <1>2, CatType
<1>4. NonBlank((u \o m) \o p) = NonBlank(u \o m) \o NonBlank(p)
  BY <1>3, NonBlankCat
<1>5. NonBlank(u \o m) = NonBlank(u) \o NonBlank(m)
  BY <1>2, NonBlankCat
<1>6. NonBlank(m) = <<>>
  BY <1>2, NonBlankBlanks
<1>7. NonBlank(u) \o <<>> = NonBlank(u)
  BY NonBlankType, ConcatEmptySeq
<1> QED  BY <1>1, <1>4, <1>5, <1>6, <1>7, Zenon

\* A trimmed text has no other lines.
LEMMA TrimmedIn ==
  ASSUME NEW V, NEW Q \in SUBSET Line(V), NEW x \in Seq(Q)
  PROVE  Trimmed(x) \in Seq(Q) /\ x \in Seq(Line(V))
<1>1. x \in Seq(Line(V))
  BY SeqMonotonic
<1>2. PICK a, b : Cut3(x, a, b, V)
  BY <1>1, TrimmedCut
<1>3. a \in Seq(Line(V)) /\ b \in Seq(Line(V)) /\ Trimmed(x) \in Seq(Line(V))
      /\ x = a \o Trimmed(x) \o b /\ a \o Trimmed(x) \in Seq(Line(V))
  BY <1>2, CatType DEF Cut3
<1> DEFINE t == Trimmed(x)
<1> HIDE DEF t
<1>4. \A i \in 1..Len(t) : t[i] \in Q
  <2> SUFFICES ASSUME NEW i \in 1..Len(t) PROVE t[i] \in Q
    OBVIOUS
  <2>1. t \in Seq(Line(V)) /\ a \o t \in Seq(Line(V)) /\ x = (a \o t) \o b
    BY <1>3 DEF t
  <2>2. (a \o t)[Len(a) + i] = t[i] /\ Len(a \o t) = Len(a) + Len(t)
    BY <1>3, <2>1, ConcatParts
  <2>3. Len(a) + i \in 1..Len(a \o t)
    BY <1>3, <2>1, <2>2
  <2>4. x[Len(a) + i] = (a \o t)[Len(a) + i] /\ Len(x) = Len(a \o t) + Len(b)
    BY <1>3, <2>1, <2>3, ConcatParts
  <2>5. Len(a) + i \in 1..Len(x)
    <3>1. Len(b) \in Nat /\ Len(a \o t) \in Nat
      BY <1>3, <2>1
    <3> QED  BY <2>3, <2>4, <3>1
  <2> QED  BY <2>2, <2>4, <2>5
<1>5. t \in Seq(Q)
  <2>1. t \in Seq(Line(V))
    BY <1>3 DEF t
  <2> QED  BY <1>4, <2>1
<1> QED  BY <1>1, <1>5 DEF t

\* Lines of which none is content before the first header.
Plainly(x) == \A i \in DOMAIN x : ~IsContent(x[i])
Led(x) == x # <<>> /\ IsHeader(x[1])
Quiet(x) ==
  \A i \in DOMAIN x : (\A j \in 1..i : ~IsHeader(x[j])) => ~IsContent(x[i])

LEMMA PlainlyQuiet == ASSUME NEW x, Plainly(x) PROVE Quiet(x)
BY DEF Plainly, Quiet

LEMMA LedQuiet ==
  ASSUME NEW S, NEW x \in Seq(S), Led(x) PROVE Quiet(x)
<1>1. \A i \in DOMAIN x : 1 \in 1..i
  OBVIOUS
<1> QED  BY <1>1 DEF Led, Quiet

LEMMA QuietCat ==
  ASSUME NEW S, NEW x \in Seq(S), NEW y \in Seq(S), Quiet(x), Quiet(y)
  PROVE  Quiet(x \o y)
<1> DEFINE z == x \o y
<1>1. /\ z \in Seq(S) /\ Len(z) = Len(x) + Len(y)
      /\ \A k \in 1..Len(x) : z[k] = x[k]
      /\ \A k \in 1..Len(y) : z[Len(x) + k] = y[k]
  BY ConcatParts
<1>2. DOMAIN z = 1..Len(z) /\ DOMAIN x = 1..Len(x) /\ DOMAIN y = 1..Len(y)
      /\ Len(x) \in Nat /\ Len(y) \in Nat
  BY <1>1
<1> HIDE DEF z
<1>3. ASSUME NEW i \in 1..Len(z), \A j \in 1..i : ~IsHeader(z[j]) PROVE ~IsContent(z[i])
  <2>1. CASE i \in 1..Len(x)
    <3>1. \A j \in 1..i : j \in 1..Len(x) /\ z[j] = x[j]
      BY <1>1, <1>2, <2>1
    <3> QED  BY <1>1, <1>2, <1>3, <2>1, <3>1 DEF Quiet
  <2>2. CASE i \notin 1..Len(x)
    <3>1. PICK k \in 1..Len(y) : i = Len(x) + k
      <4>1. i - Len(x) \in 1..Len(y) /\ i = Len(x) + (i - Len(x))
        BY <1>1, <1>2, <2>2
      <4> QED  BY <4>1
    <3>2. \A j \in 1..k : j \in 1..Len(y) /\ Len(x) + j \in 1..i
      BY <1>2, <3>1
    <3>3. \A j \in 1..k : ~IsHeader(y[j])
      BY <1>1, <1>3, <3>2
    <3>4. ~IsContent(y[k])
      BY <1>2, <3>1, <3>3 DEF Quiet
    <3> QED  BY <1>1, <3>1, <3>4
  <2> QED  BY <2>1, <2>2
<1> QED  BY <1>2, <1>3 DEF Quiet, z

LEMMA BlanksPlainly == ASSUME NEW x, Blanks(x) PROVE Plainly(x)
BY DEF Blanks, Plainly, NotBlank, IsContent

LEMMA QuietJoin ==
  ASSUME NEW S, Blank \in S, NEW x \in Seq(S), NEW y \in Seq(S), Quiet(x), Quiet(y)
  PROVE  Quiet(JoinStep(x, y))
<1>1. PICK m \in {<<>>, <<Blank>>} : JoinStep(x, y) = x \o m \o y
  BY JoinPad
<1>2. m \in Seq(S) /\ Quiet(m)
  <2>1. Blanks(m) /\ m \in Seq(S)
    BY PadType
  <2>2. Plainly(m)
    BY <2>1, BlanksPlainly
  <2> QED  BY <2>1, <2>2, PlainlyQuiet
<1>3. Quiet(x \o m) /\ x \o m \in Seq(S)
  BY <1>2, QuietCat, CatType
<1>4. Quiet((x \o m) \o y)
  BY <1>3, QuietCat
<1> QED  BY <1>1, <1>4

LEMMA QuietTrimmed ==
  ASSUME NEW V, NEW x \in Seq(Line(V)), Quiet(x) PROVE Quiet(Trimmed(x))
<1>1. PICK a, b : Cut3(x, a, b, V)
  BY TrimmedCut
<1> DEFINE t == Trimmed(x)
<1>2. a \in Seq(Line(V)) /\ b \in Seq(Line(V)) /\ t \in Seq(Line(V))
      /\ x = a \o t \o b /\ a \o t \in Seq(Line(V)) /\ Blanks(a)
  BY <1>1, CatType DEF Cut3
<1> HIDE DEF t
<1>3. /\ Len(a \o t) = Len(a) + Len(t) /\ Len(x) = Len(a) + Len(t) + Len(b)
      /\ \A i \in 1..Len(a) : x[i] = a[i]
      /\ \A i \in 1..Len(t) : x[Len(a) + i] = t[i]
  <2>1. /\ Len(a \o t) = Len(a) + Len(t)
        /\ \A i \in 1..Len(a) : (a \o t)[i] = a[i]
        /\ \A i \in 1..Len(t) : (a \o t)[Len(a) + i] = t[i]
    BY <1>2, ConcatParts
  <2>2. Len(x) = Len(a \o t) + Len(b) /\ \A i \in 1..Len(a \o t) : x[i] = (a \o t)[i]
    BY <1>2, ConcatParts
  <2>3. (\A i \in 1..Len(a) : i \in 1..Len(a \o t)) /\ \A i \in 1..Len(t) : Len(a) + i \in 1..Len(a \o t)
    BY <1>2, <2>1
  <2> QED  BY <2>1, <2>2, <2>3
<1>4. DOMAIN t = 1..Len(t) /\ DOMAIN a = 1..Len(a) /\ DOMAIN x = 1..Len(x)
      /\ Len(t) \in Nat /\ Len(a) \in Nat /\ Len(b) \in Nat
  BY <1>2
<1>5. ASSUME NEW i \in 1..Len(t), \A j \in 1..i : ~IsHeader(t[j]) PROVE ~IsContent(t[i])
  <2>1. Len(a) + i \in 1..Len(x)
    BY <1>3, <1>4
  <2>2. ASSUME NEW j \in 1..Len(a) + i PROVE ~IsHeader(x[j])
    <3>1. CASE j \in 1..Len(a)
      BY <1>2, <1>3, <1>4, <3>1 DEF Blanks, NotBlank, IsHeader
    <3>2. CASE j \notin 1..Len(a)
      <4>1. PICK k \in 1..i : j = Len(a) + k
        <5>1. j - Len(a) \in 1..i /\ j = Len(a) + (j - Len(a))
          BY <1>4, <3>2
        <5> QED  BY <5>1
      <4>2. k \in 1..Len(t)
        BY <1>4, <4>1
      <4> QED  BY <1>3, <1>5, <4>1, <4>2
    <3> QED  BY <3>1, <3>2
  <2>3. ~IsContent(x[Len(a) + i])
    BY <1>4, <2>1, <2>2 DEF Quiet
  <2> QED  BY <1>3, <2>3
<1> QED  BY <1>4, <1>5 DEF Quiet, t

\* The lines of Q that are no header of the server.
Apart(Q) == {q \in Q : ~Target(q)}

\* Where edits stand, whatever their block: the block is after the lines A, if a
\* header of the server has been seen, and the lines C are after the block.
Woven(A, C, b, cur, mine, seen) ==
  [out |-> JoinStep(JoinStep(A, IF seen THEN b ELSE <<>>), C),
   cur |-> cur, mine |-> mine, seen |-> seen]

Around(s, A, C, cur, mine, seen, Q, V) ==
  /\ A \in Seq(Apart(Q)) /\ C \in Seq(Apart(Q)) /\ cur \in Seq(Apart(Q))
  /\ mine \in BOOLEAN /\ seen \in BOOLEAN
  /\ Quiet(C) /\ (~seen => C = <<>>)
  /\ mine => seen /\ Plainly(cur)
  /\ seen /\ ~mine => Led(cur)
  /\ \A b \in Seq(Line(V)) : Weave(s, b) = Woven(A, C, b, cur, mine, seen)

LEMMA AppendPlainly ==
  ASSUME NEW S, NEW x \in Seq(S), NEW l \in S
  PROVE  /\ Plainly(Append(x, l)) <=> Plainly(x) /\ ~IsContent(l)
         /\ Led(x) => Led(Append(x, l))
<1>1. /\ Len(Append(x, l)) = Len(x) + 1 /\ Len(x) \in Nat /\ Append(x, l)[Len(x) + 1] = l
      /\ \A i \in 1..Len(x) : Append(x, l)[i] = x[i]
      /\ DOMAIN Append(x, l) = 1..Len(x) + 1 /\ DOMAIN x = 1..Len(x)
      /\ Append(x, l) # <<>>
  BY AppendProperties
<1>2. (\A i \in 1..Len(x) + 1 : i \in 1..Len(x) \/ i = Len(x) + 1)
      /\ (\A i \in 1..Len(x) : i \in 1..Len(x) + 1) /\ Len(x) + 1 \in 1..Len(x) + 1
  BY <1>1
<1>3. Plainly(Append(x, l)) <=> Plainly(x) /\ ~IsContent(l)
  BY <1>1, <1>2, Zenon DEF Plainly
<1>4. x # <<>> => 1 \in 1..Len(x)
  OBVIOUS
<1> QED  BY <1>1, <1>3, <1>4 DEF Led

LEMMA ApartLines ==
  ASSUME NEW V, NEW Q \in SUBSET Line(V), NEW x \in Seq(Apart(Q))
  PROVE  x \in Seq(Line(V)) /\ Trimmed(x) \in Seq(Apart(Q))
<1>1. Apart(Q) \in SUBSET Line(V)
  BY DEF Apart
<1> QED  BY <1>1, TrimmedIn

LEMMA BlankApart ==
  ASSUME NEW Q, Blank \in Q PROVE Blank \in Apart(Q)
BY DEF Apart, Target, IsHeader, Blank

LEMMA AroundStep ==
  ASSUME NEW V, NEW Q \in SUBSET Line(V), Blank \in Q, NEW s \in Seq(Q), NEW l \in Q,
         NEW A, NEW C, NEW cur, NEW mine, NEW seen, Around(s, A, C, cur, mine, seen, Q, V)
  PROVE  \E A2, C2, cur2, mine2, seen2 : Around(Append(s, l), A2, C2, cur2, mine2, seen2, Q, V)
<1>1. /\ A \in Seq(Apart(Q)) /\ C \in Seq(Apart(Q)) /\ cur \in Seq(Apart(Q))
      /\ mine \in BOOLEAN /\ seen \in BOOLEAN
      /\ Quiet(C) /\ (~seen => C = <<>>)
      /\ mine => seen /\ Plainly(cur)
      /\ seen /\ ~mine => Led(cur)
      /\ \A b \in Seq(Line(V)) : Weave(s, b) = Woven(A, C, b, cur, mine, seen)
  BY DEF Around
<1>2. /\ A \in Seq(Line(V)) /\ C \in Seq(Line(V)) /\ cur \in Seq(Line(V))
      /\ Trimmed(cur) \in Seq(Apart(Q)) /\ Trimmed(cur) \in Seq(Line(V))
      /\ s \in Seq(Line(V)) /\ l \in Line(V) /\ Blank \in Apart(Q)
  <2>1. Trimmed(cur) \in Seq(Apart(Q))
    BY <1>1, ApartLines
  <2>2. s \in Seq(Line(V))
    BY TrimmedIn
  <2> QED  BY <1>1, <2>1, <2>2, ApartLines, BlankApart
<1>3. ASSUME NEW b \in Seq(Line(V))
      PROVE  Weave(Append(s, l), b) = WeaveStep(Woven(A, C, b, cur, mine, seen), l, b)
  <2>1. Weave(Append(s, l), b) = WeaveStep(Weave(s, b), l, b)
    BY <1>2, WeaveAppend
  <2> QED  BY <1>1, <2>1, Zenon
<1>4. <<>> \in Seq(Apart(Q)) /\ <<>> \in Seq(Line(V))
  OBVIOUS
<1>5. CASE IsHeader(l)
  <2> DEFINE A2 == IF seen THEN A ELSE JoinStep(A, Trimmed(cur))
             C2 == IF seen THEN JoinStep(C, Trimmed(cur)) ELSE <<>>
             cur2 == IF Target(l) THEN <<>> ELSE <<l>>
  <2>0. Target(l) \in BOOLEAN
    BY DEF Target, IsHeader
  <2>1. A2 \in Seq(Apart(Q)) /\ C2 \in Seq(Apart(Q))
    BY <1>1, <1>2, <1>4, JoinIn
  <2>2. cur2 \in Seq(Apart(Q))
    <3>1. CASE Target(l)
      BY <1>4, <3>1
    <3>2. CASE ~Target(l)
      <4>1. l \in Apart(Q)
        BY <3>2 DEF Apart
      <4>2. <<l>> \in Seq(Apart(Q))
        BY <4>1
      <4> QED  BY <3>2, <4>2
    <3> QED  BY <3>1, <3>2
  <2>3. Quiet(C2)
    <3>1. seen => Quiet(cur)
      <4>1. mine \/ Led(cur) \/ ~seen
        BY <1>1
      <4> QED  BY <1>1, <4>1, PlainlyQuiet, LedQuiet
    <3>2. CASE seen
      <4>1. Quiet(Trimmed(cur))
        BY <1>2, <3>1, <3>2, QuietTrimmed
      <4>2. Quiet(JoinStep(C, Trimmed(cur)))
        BY <1>1, <1>2, <4>1, QuietJoin
      <4> QED  BY <3>2, <4>2
    <3>3. CASE ~seen
      BY <3>3 DEF Quiet
    <3> QED  BY <3>2, <3>3
  <2>4. Plainly(<<>>) /\ Led(<<l>>)
    <3>1. <<l>> # <<>> /\ <<l>>[1] = l
      OBVIOUS
    <3> QED  BY <1>5, <3>1 DEF Plainly, Led
  <2>5. ASSUME NEW b \in Seq(Line(V))
        PROVE  Weave(Append(s, l), b) = Woven(A2, C2, b, cur2, Target(l), Target(l) \/ seen)
    <3> DEFINE w == Woven(A, C, b, cur, mine, seen)
               T == Trimmed(cur)
    <3>1. w.out = JoinStep(JoinStep(A, IF seen THEN b ELSE <<>>), C) /\ w.cur = cur /\ w.seen = seen
      BY DEF Woven
    <3>2. WeaveStep(w, l, b)
            = [out |-> IF Target(l) /\ ~seen THEN JoinStep(Ended(w), b) ELSE Ended(w),
               cur |-> cur2, mine |-> Target(l), seen |-> Target(l) \/ seen]
      BY <1>5, <3>1, Zenon DEF WeaveStep
    <3>3. Ended(w) = JoinStep(JoinStep(JoinStep(A, IF seen THEN b ELSE <<>>), C), T)
      BY <3>1, Zenon DEF Ended
    <3> HIDE DEF w, T, cur2
    <3>4. CASE seen
      <4>1. JoinStep(A, b) \in Seq(Line(V))
        BY <1>2, JoinStepType
      <4>2. T \in Seq(Line(V))
        BY <1>2 DEF T
      <4>3. JoinStep(JoinStep(JoinStep(A, b), C), T) = JoinStep(JoinStep(A, b), JoinStep(C, T))
        BY <1>2, <4>1, <4>2, BlankIsLine, JoinAssociative
      <4>4. Ended(w) = JoinStep(JoinStep(A2, b), C2)
        BY <3>3, <3>4, <4>3, Zenon DEF T
      <4>5. WeaveStep(w, l, b) = Woven(A2, C2, b, cur2, Target(l), Target(l) \/ seen)
        <5>1. Woven(A2, C2, b, cur2, Target(l), Target(l) \/ seen)
                = [out |-> JoinStep(JoinStep(A2, b), C2), cur |-> cur2, mine |-> Target(l),
                   seen |-> Target(l) \/ seen]
          BY <3>4, Zenon DEF Woven
        <5> HIDE DEF A2, C2
        <5> QED  BY <3>2, <3>4, <4>4, <5>1
      <4> HIDE DEF A2, C2
      <4> QED  BY <1>3, <4>5, Zenon DEF w
    <3>5. CASE ~seen
      <4>1. Ended(w) = JoinStep(A, T)
        <5>1. Ended(w) = JoinStep(JoinStep(JoinStep(A, <<>>), <<>>), T)
          BY <1>1, <3>3, <3>5, Zenon
        <5> QED  BY <5>1, JoinNothing, Zenon
      <4>2. A2 = Ended(w) /\ C2 = <<>>
        BY <3>5, <4>1 DEF T
      <4> HIDE DEF A2, C2
      <4>3. CASE Target(l)
        <5>1. Woven(A2, C2, b, cur2, Target(l), Target(l) \/ seen)
                = [out |-> JoinStep(A2, b), cur |-> cur2, mine |-> Target(l), seen |-> Target(l) \/ seen]
          BY <4>2, <4>3, JoinNothing, Zenon DEF Woven
        <5>2. WeaveStep(w, l, b) = Woven(A2, C2, b, cur2, Target(l), Target(l) \/ seen)
          BY <3>2, <3>5, <4>2, <4>3, <5>1
        <5> QED  BY <1>3, <5>2, Zenon DEF w
      <4>4. CASE ~Target(l)
        <5>1. Woven(A2, C2, b, cur2, Target(l), Target(l) \/ seen)
                = [out |-> A2, cur |-> cur2, mine |-> Target(l), seen |-> Target(l) \/ seen]
          BY <3>5, <4>2, <4>4, JoinNothing, Zenon DEF Woven
        <5>2. WeaveStep(w, l, b) = Woven(A2, C2, b, cur2, Target(l), Target(l) \/ seen)
          BY <3>2, <4>2, <4>4, <5>1
        <5> QED  BY <1>3, <5>2, Zenon DEF w
      <4> QED  BY <2>0, <4>3, <4>4
    <3> QED  BY <1>1, <3>4, <3>5
  <2>6. ~(Target(l) \/ seen) => C2 = <<>>
    OBVIOUS
  <2>7. (Target(l) => (Target(l) \/ seen) /\ Plainly(cur2))
        /\ ((Target(l) \/ seen) /\ ~Target(l) => Led(cur2))
    BY <2>4
  <2>8. (Target(l) \/ seen) \in BOOLEAN
    BY <1>1, <2>0
  <2> HIDE DEF A2, C2, cur2
  <2>9. Around(Append(s, l), A2, C2, cur2, Target(l), Target(l) \/ seen, Q, V)
    BY <2>0, <2>1, <2>2, <2>3, <2>5, <2>6, <2>7, <2>8, Zenon DEF Around
  <2> QED  BY <2>9
<1>6. CASE ~IsHeader(l)
  <2> DEFINE cur2 == IF mine /\ IsContent(l) THEN <<>> ELSE Append(cur, l)
  <2>1. l \in Apart(Q)
    BY <1>6 DEF Apart, Target
  <2>2. cur2 \in Seq(Apart(Q))
    <3>1. Append(cur, l) \in Seq(Apart(Q))
      BY <1>1, <2>1, AppendProperties
    <3> QED  BY <1>4, <3>1
  <2>3. mine => Plainly(cur2)
    <3>1. Plainly(<<>>)
      BY DEF Plainly
    <3>2. Plainly(cur) /\ ~IsContent(l) => Plainly(Append(cur, l))
      BY <1>1, <2>1, AppendPlainly
    <3> QED  BY <1>1, <3>1, <3>2
  <2>4. seen /\ ~mine => Led(cur2)
    BY <1>1, <2>1, AppendPlainly
  <2>5. ASSUME NEW b \in Seq(Line(V))
        PROVE  Weave(Append(s, l), b) = Woven(A, C, b, cur2, mine, seen)
    <3>1. WeaveStep(Woven(A, C, b, cur, mine, seen), l, b) = Woven(A, C, b, cur2, mine, seen)
      <4> DEFINE w == Woven(A, C, b, cur, mine, seen)
      <4>1. w.out = JoinStep(JoinStep(A, IF seen THEN b ELSE <<>>), C) /\ w.cur = cur /\ w.seen = seen
            /\ w.mine = mine
        BY DEF Woven
      <4> HIDE DEF w
      <4>2. WeaveStep(w, l, b) = [out |-> w.out, cur |-> cur2, mine |-> mine, seen |-> seen]
        BY <1>6, <4>1, Zenon DEF WeaveStep
      <4> HIDE DEF cur2
      <4> QED  BY <4>1, <4>2, Zenon DEF w, Woven
    <3> HIDE DEF cur2
    <3> QED  BY <1>3, <3>1, Zenon
  <2> HIDE DEF cur2
  <2>6. Around(Append(s, l), A, C, cur2, mine, seen, Q, V)
    BY <1>1, <2>2, <2>3, <2>4, <2>5, Zenon DEF Around
  <2> QED  BY <2>6
<1> QED  BY <1>5, <1>6

\* An edit puts its block between lines that are as they were, but for blank ones
\* and for those that go with the server's tables.
Shape(s, A, C, Q, V) ==
  /\ A \in Seq(Apart(Q)) /\ C \in Seq(Apart(Q)) /\ Quiet(C)
  /\ \A b \in Seq(Line(V)) : Assembled(s, b) = JoinStep(JoinStep(A, b), C)

LEMMA AssembledShape ==
  ASSUME NEW V, NEW Q \in SUBSET Line(V), Blank \in Q, NEW s \in Seq(Q)
  PROVE  \E A, C : Shape(s, A, C, Q, V)
<1> DEFINE G == {x \in Seq(Q) : \E A, C, cur, mine, seen : Around(x, A, C, cur, mine, seen, Q, V)}
<1>1. <<>> \in G
  <2>1. <<>> \in Seq(Apart(Q)) /\ <<>> \in Seq(Q) /\ Quiet(<<>>) /\ FALSE \in BOOLEAN
    BY DEF Quiet
  <2>2. ASSUME NEW b PROVE Weave(<<>>, b) = Woven(<<>>, <<>>, b, <<>>, FALSE, FALSE)
    BY WeaveNone, JoinNothing, Zenon DEF Woven
  <2>3. Around(<<>>, <<>>, <<>>, <<>>, FALSE, FALSE, Q, V)
    BY <2>1, <2>2, Zenon DEF Around
  <2> QED  BY <2>1, <2>3
<1>2. ASSUME NEW x \in Seq(Q), NEW l \in Q, x \in G PROVE Append(x, l) \in G
  <2>1. Append(x, l) \in Seq(Q)
    BY AppendProperties
  <2> QED  BY <1>2, <2>1, AroundStep
<1>3. s \in G
  <2> HIDE DEF G
  <2> QED  BY <1>1, <1>2, SeqInducts
<1>4. PICK A, C, cur, mine, seen : Around(s, A, C, cur, mine, seen, Q, V)
  BY <1>3
<1>5. /\ A \in Seq(Apart(Q)) /\ C \in Seq(Apart(Q)) /\ cur \in Seq(Apart(Q))
      /\ mine \in BOOLEAN /\ seen \in BOOLEAN
      /\ Quiet(C) /\ (~seen => C = <<>>)
      /\ mine => seen /\ Plainly(cur)
      /\ seen /\ ~mine => Led(cur)
      /\ \A b \in Seq(Line(V)) : Weave(s, b) = Woven(A, C, b, cur, mine, seen)
  BY <1>4 DEF Around
<1> DEFINE T == Trimmed(cur)
<1>6. T \in Seq(Apart(Q)) /\ Blank \in Apart(Q)
  BY <1>5, ApartLines, BlankApart
<1>7. s \in Seq(Line(V)) /\ A \in Seq(Line(V)) /\ C \in Seq(Line(V)) /\ T \in Seq(Line(V))
  BY <1>5, <1>6, ApartLines, TrimmedIn
<1> HIDE DEF T
<1>8. ASSUME NEW b \in Seq(Line(V))
      PROVE  Assembled(s, b) = IF seen THEN JoinStep(JoinStep(JoinStep(A, b), C), T)
                               ELSE JoinStep(JoinStep(A, T), b)
  <2> DEFINE w == Woven(A, C, b, cur, mine, seen)
  <2>1. Assembled(s, b) = IF w.seen THEN Ended(w) ELSE JoinStep(Ended(w), b)
    <3>1. Weave(s, b) = w
      BY <1>5
    <3> HIDE DEF w
    <3> QED  BY <1>7, <3>1, AssembledIs
  <2>2. w.out = JoinStep(JoinStep(A, IF seen THEN b ELSE <<>>), C) /\ w.cur = cur /\ w.seen = seen
    BY DEF Woven
  <2> HIDE DEF w
  <2>3. Ended(w) = JoinStep(JoinStep(JoinStep(A, IF seen THEN b ELSE <<>>), C), T)
    BY <2>2, Zenon DEF Ended, T
  <2>4. CASE seen
    BY <2>1, <2>2, <2>3, <2>4, Zenon
  <2>5. CASE ~seen
    <3>1. Ended(w) = JoinStep(JoinStep(JoinStep(A, <<>>), <<>>), T)
      BY <1>5, <2>3, <2>5, Zenon
    <3>2. Ended(w) = JoinStep(A, T)
      BY <3>1, JoinNothing, Zenon
    <3> QED  BY <2>1, <2>2, <2>5, <3>2, Zenon
  <2> QED  BY <2>4, <2>5
<1>9. CASE seen
  <2>1. Quiet(cur)
    <3>1. mine \/ Led(cur)
      BY <1>5, <1>9
    <3> QED  BY <1>5, <3>1, PlainlyQuiet, LedQuiet
  <2>2. Quiet(T)
    BY <1>5, <2>1, ApartLines, QuietTrimmed DEF T
  <2>3. Quiet(JoinStep(C, T)) /\ JoinStep(C, T) \in Seq(Apart(Q))
    BY <1>5, <1>6, <2>2, QuietJoin, JoinIn
  <2>4. ASSUME NEW b \in Seq(Line(V)) PROVE Assembled(s, b) = JoinStep(JoinStep(A, b), JoinStep(C, T))
    <3>1. JoinStep(A, b) \in Seq(Line(V))
      BY <1>7, JoinStepType
    <3>2. JoinStep(JoinStep(JoinStep(A, b), C), T) = JoinStep(JoinStep(A, b), JoinStep(C, T))
      BY <1>7, <3>1, BlankIsLine, JoinAssociative
    <3> QED  BY <1>8, <1>9, <3>2, Zenon
  <2>5. Shape(s, A, JoinStep(C, T), Q, V)
    BY <1>5, <2>3, <2>4, Zenon DEF Shape
  <2> QED  BY <2>5
<1>10. CASE ~seen
  <2>1. JoinStep(A, T) \in Seq(Apart(Q)) /\ <<>> \in Seq(Apart(Q)) /\ Quiet(<<>>)
    <3>1. JoinStep(A, T) \in Seq(Apart(Q))
      BY <1>5, <1>6, JoinIn
    <3> QED  BY <3>1 DEF Quiet
  <2>2. ASSUME NEW b \in Seq(Line(V)) PROVE Assembled(s, b) = JoinStep(JoinStep(JoinStep(A, T), b), <<>>)
    BY <1>8, <1>10, JoinNothing, Zenon
  <2>3. Shape(s, JoinStep(A, T), <<>>, Q, V)
    BY <2>1, <2>2, Zenon DEF Shape
  <2> QED  BY <2>3
<1> QED  BY <1>5, <1>9, <1>10

(* ---- what the decoder reads of a text and of its edit ---- *)

\* Where a line leads.
LEMMA ScanControl ==
  ASSUME NEW V, NEW st \in State(V), NEW l \in Line(V)
  PROVE  /\ Scan(st, l).in <=> IF st.in THEN l.kind # "close" ELSE l.kind = "open"
         /\ Scan(st, l).table = IF ~st.in /\ IsHeader(l) THEN l.table ELSE st.table
<1>1. CASE st.in /\ l.kind # "close"
  BY <1>1, ScanText DEF Is
<1>2. CASE st.in /\ l.kind = "close"
  BY <1>2, ScanClose DEF Is
<1>3. CASE ~st.in /\ l.kind = "header"
  <2>1. Is(Scan(st, l), V, l.table, st.text, st.doc \cup {<<l.table>>}) /\ ~Scan(st, l).in
    BY <1>3, ScanHeader
  <2> QED  BY <1>3, <2>1 DEF Is, IsHeader
<1>4. CASE ~st.in /\ l.kind = "key"
  <2>1. Scan(st, l) = Set(st, l.key, l.value) /\ l.key \in Name /\ l.value \in Value(V)
    BY <1>4, ScanKey
  <2>2. CASE st.table = "mcp" /\ l.key = "me"
    BY <1>4, <2>1, <2>2, SetInline DEF Is, IsHeader
  <2>3. CASE ~(st.table = "mcp" /\ l.key = "me")
    BY <1>4, <2>1, <2>3, SetIs DEF Is, IsHeader
  <2> QED  BY <2>2, <2>3
<1>5. CASE ~st.in /\ l.kind = "open"
  BY <1>5, ScanOpen DEF Is, IsHeader
<1>6. CASE ~st.in /\ l.kind = "close"
  BY <1>6, ScanStray DEF Is, IsHeader
<1>7. CASE ~st.in /\ l.kind \in {"comment", "blank"}
  <2>1. Scan(st, l) = st
    BY <1>7, ScanRest
  <2> QED  BY <1>7, <2>1 DEF IsHeader
<1>8. l.kind \in {"header", "key", "open", "close", "comment", "blank"} /\ st.in \in BOOLEAN
  BY LineKinds, StateFields
<1> QED  BY <1>1, <1>2, <1>3, <1>4, <1>5, <1>6, <1>7, <1>8

\* The reader stands where the decoder stands.
LEMMA ReadingAt ==
  ASSUME NEW V, NEW s \in Seq(Line(V))
  PROVE  Reading(s).at = Scanned(s)
<1> DEFINE G == {x \in Seq(Line(V)) : Reading(x).at = Scanned(x)}
<1>1. <<>> \in G
  BY ReadingNone, ScannedNone DEF Reader0
<1>2. ASSUME NEW x \in Seq(Line(V)), NEW l \in Line(V), x \in G PROVE Append(x, l) \in G
  <2>1. Reading(Append(x, l)) = ReadStep(Reading(x), l) /\ Scanned(Append(x, l)) = Scan(Scanned(x), l)
    BY ReadingAppend, ScannedAppend
  <2>2. ReadStep(Reading(x), l).at = Scan(Reading(x).at, l)
    BY DEF ReadStep
  <2>3. Append(x, l) \in Seq(Line(V)) /\ Reading(x).at = Scanned(x)
    BY <1>2, AppendProperties
  <2> QED  BY <2>1, <2>2, <2>3
<1> QED
  <2> HIDE DEF G
  <2>1. s \in G
    BY <1>1, <1>2, SeqInducts
  <2> QED  BY <2>1 DEF G

\* What stands before the lines of a longer text.
LEMMA BeforeAppend ==
  ASSUME NEW V, NEW s \in Seq(Line(V)), NEW l \in Line(V)
  PROVE  /\ \A i \in 1..Len(s) : Before(Append(s, l), i) = Before(s, i) /\ Append(s, l)[i] = s[i]
         /\ Before(Append(s, l), Len(s) + 1) = Scanned(s) /\ Append(s, l)[Len(s) + 1] = l
         /\ DOMAIN Append(s, l) = 1..Len(s) + 1 /\ DOMAIN s = 1..Len(s) /\ Len(s) \in Nat
<1> DEFINE m == Append(s, l)
<1>1. /\ m \in Seq(Line(V)) /\ Len(m) = Len(s) + 1 /\ Len(s) \in Nat /\ m[Len(s) + 1] = l
      /\ \A i \in 1..Len(s) : m[i] = s[i]
      /\ DOMAIN m = 1..Len(s) + 1 /\ DOMAIN s = 1..Len(s)
  BY AppendProperties
<1> HIDE DEF m
<1>2. \A k \in 0..Len(s) : SubSeq(m, 1, k) = SubSeq(s, 1, k)
  <2> SUFFICES ASSUME NEW k \in 0..Len(s) PROVE SubSeq(m, 1, k) = SubSeq(s, 1, k)
    OBVIOUS
  <2>1. \A i \in 1..k : i \in 1..Len(s)
    BY <1>1
  <2>2. \A i \in 1..k : m[i] = s[i] /\ m[i] \in Line(V) /\ s[i] \in Line(V)
    BY <1>1, <2>1
  <2>3. 1 \in Int /\ k \in Int
    BY <1>1
  <2> QED  BY <2>2, <2>3, SubSeqSame
<1>3. ASSUME NEW i \in 1..Len(s) PROVE Before(m, i) = Before(s, i)
  <2>1. i - 1 \in 0..Len(s)
    BY <1>1
  <2> QED  BY <1>2, <2>1 DEF Before
<1>4. Before(m, Len(s) + 1) = Scanned(s)
  <2>1. (Len(s) + 1) - 1 = Len(s) /\ Len(s) \in 0..Len(s)
    BY <1>1
  <2>2. SubSeq(s, 1, Len(s)) = s
    BY SubSeqFull
  <2> QED  BY <1>2, <2>1, <2>2 DEF Before
<1> QED  BY <1>1, <1>3, <1>4 DEF m

\* No line of a string of the server's looks like a header, and of another string
\* like one of the server's.
Plain1(st, l) == st.in /\ IsHeader(l) => st.table \notin Mine /\ ~Target(l)
Clear(s) == \A i \in DOMAIN s : Plain1(Before(s, i), s[i])

LEMMA ClearAppend ==
  ASSUME NEW V, NEW s \in Seq(Line(V)), NEW l \in Line(V)
  PROVE  Clear(Append(s, l)) <=> Clear(s) /\ Plain1(Scanned(s), l)
<1>1. /\ \A i \in 1..Len(s) : Before(Append(s, l), i) = Before(s, i) /\ Append(s, l)[i] = s[i]
      /\ Before(Append(s, l), Len(s) + 1) = Scanned(s) /\ Append(s, l)[Len(s) + 1] = l
      /\ DOMAIN Append(s, l) = 1..Len(s) + 1 /\ DOMAIN s = 1..Len(s) /\ Len(s) \in Nat
  BY BeforeAppend
<1>2. (\A i \in 1..Len(s) + 1 : i \in 1..Len(s) \/ i = Len(s) + 1)
      /\ (\A i \in 1..Len(s) : i \in 1..Len(s) + 1) /\ Len(s) + 1 \in 1..Len(s) + 1
  BY <1>1
<1> QED  BY <1>1, <1>2, Zenon DEF Clear

\* The edit that removes the server keeps the lines that are not the server's.
Kept(w, r) ==
  /\ w.mine <=> r.at.table \in Mine
  /\ w.mine => NonBlank(w.out) = r.kept
  /\ w.mine /\ ~r.at.in => NonBlank(w.cur) = r.tail
  /\ ~w.mine => NonBlank(w.out) \o NonBlank(w.cur) = r.kept
  /\ ~w.mine \/ r.at.in => r.tail = <<>>
KeptSoFar(s) == Kept(Weave(s, <<>>), Reading(s))

LEMMA KeptStart == KeptSoFar(<<>>)
<1>1. Scan0.table \notin Mine
  BY DEF Scan0, Mine
<1>2. Weave(<<>>, <<>>).mine = FALSE /\ Weave(<<>>, <<>>).out = <<>> /\ Weave(<<>>, <<>>).cur = <<>>
  BY WeaveNone
<1>3. Reading(<<>>).at = Scan0 /\ Reading(<<>>).kept = <<>> /\ Reading(<<>>).tail = <<>>
  BY ReadingNone DEF Reader0
<1>4. <<>> \o <<>> = <<>>
  OBVIOUS
<1> QED  BY <1>1, <1>2, <1>3, <1>4, NonBlankNone DEF KeptSoFar, Kept

LEMMA KeptTail ==
  ASSUME NEW x, NEW y, NEW r, r = [kept |-> x, tail |-> y] PROVE r.kept = x /\ r.tail = y
OBVIOUS

\* The reader's step, by what it reads.
LEMMA ReadKept ==
  ASSUME NEW V, NEW r \in Readers(V), NEW l \in Line(V)
  PROVE  /\ ~NotBlank(l) => ReadStep(r, l).kept = r.kept /\ ReadStep(r, l).tail = r.tail
         /\ NotBlank(l) /\ r.at.in /\ r.at.table \in Mine =>
              ReadStep(r, l).kept = r.kept /\ ReadStep(r, l).tail = <<>>
         /\ NotBlank(l) /\ r.at.in /\ r.at.table \notin Mine =>
              ReadStep(r, l).kept = r.kept \o r.tail \o <<l>> /\ ReadStep(r, l).tail = <<>>
         /\ ~r.at.in /\ IsHeader(l) /\ Target(l) =>
              ReadStep(r, l).kept = r.kept \o r.tail /\ ReadStep(r, l).tail = <<>>
         /\ ~r.at.in /\ IsHeader(l) /\ ~Target(l) =>
              ReadStep(r, l).kept = r.kept \o r.tail \o <<l>> /\ ReadStep(r, l).tail = <<>>
         /\ ~r.at.in /\ ~IsHeader(l) /\ NotBlank(l) /\ r.at.table \notin Mine =>
              ReadStep(r, l).kept = r.kept \o r.tail \o <<l>> /\ ReadStep(r, l).tail = <<>>
         /\ ~r.at.in /\ ~IsHeader(l) /\ r.at.table \in Mine /\ IsContent(l) =>
              ReadStep(r, l).kept = r.kept /\ ReadStep(r, l).tail = <<>>
         /\ ~r.at.in /\ ~IsHeader(l) /\ NotBlank(l) /\ r.at.table \in Mine /\ ~IsContent(l) =>
              ReadStep(r, l).kept = r.kept /\ ReadStep(r, l).tail = Append(r.tail, l)
         /\ ReadStep(r, l).at = Scan(r.at, l)
<1>1. r.at.in \in BOOLEAN
  BY DEF Readers, State
<1>2. (IsHeader(l) => NotBlank(l)) /\ (IsContent(l) => NotBlank(l))
  BY DEF IsHeader, NotBlank, IsContent
<1>3. ReadStep(r, l).kept = ReadNext(r, l).kept /\ ReadStep(r, l).tail = ReadNext(r, l).tail
      /\ ReadStep(r, l).at = Scan(r.at, l)
  BY DEF ReadStep
<1>4. ~NotBlank(l) => ReadNext(r, l) = r
  BY DEF ReadNext
<1>5. NotBlank(l) => ReadNext(r, l) = Read(r, l)
  BY DEF ReadNext
<1>6. CASE ~NotBlank(l)
  BY <1>2, <1>3, <1>4, <1>6
<1>7. CASE NotBlank(l) /\ r.at.in /\ r.at.table \in Mine
  <2>0. Read(r, l) = [kept |-> r.kept, tail |-> <<>>]
    BY <1>7 DEF Read
  <2>1. Read(r, l).kept = r.kept /\ Read(r, l).tail = <<>>
    BY <2>0, KeptTail
  <2>2. ReadStep(r, l).kept = r.kept /\ ReadStep(r, l).tail = <<>>
    BY <1>3, <1>5, <1>7, <2>1
  <2> QED  BY <1>2, <1>3, <1>7, <2>2, Zenon
<1>8. CASE NotBlank(l) /\ r.at.in /\ r.at.table \notin Mine
  <2>k. PICK k : k = r.kept \o r.tail \o <<l>>
    OBVIOUS
  <2>0. Read(r, l) = [kept |-> k, tail |-> <<>>]
    BY <2>k, <1>8 DEF Read
  <2>a. Read(r, l).kept = k /\ Read(r, l).tail = <<>>
    BY <2>0, KeptTail
  <2>1. Read(r, l).kept = r.kept \o r.tail \o <<l>> /\ Read(r, l).tail = <<>>
    BY <2>a, <2>k, Zenon
  <2>2. ReadStep(r, l).kept = r.kept \o r.tail \o <<l>> /\ ReadStep(r, l).tail = <<>>
    BY <1>3, <1>5, <1>8, <2>1
  <2> QED  BY <1>2, <1>3, <1>8, <2>2, Zenon
<1>9. CASE NotBlank(l) /\ ~r.at.in /\ IsHeader(l) /\ Target(l)
  <2>k. PICK k : k = r.kept \o r.tail
    OBVIOUS
  <2>0. Read(r, l) = [kept |-> k, tail |-> <<>>]
    BY <2>k, <1>9 DEF Read
  <2>a. Read(r, l).kept = k /\ Read(r, l).tail = <<>>
    BY <2>0, KeptTail
  <2>1. Read(r, l).kept = r.kept \o r.tail /\ Read(r, l).tail = <<>>
    BY <2>a, <2>k, Zenon
  <2>2. ReadStep(r, l).kept = r.kept \o r.tail /\ ReadStep(r, l).tail = <<>>
    BY <1>3, <1>5, <1>9, <2>1
  <2> QED  BY <1>2, <1>3, <1>9, <2>2, Zenon
<1>10. CASE NotBlank(l) /\ ~r.at.in /\ IsHeader(l) /\ ~Target(l)
  <2>k. PICK k : k = r.kept \o r.tail \o <<l>>
    OBVIOUS
  <2>0. Read(r, l) = [kept |-> k, tail |-> <<>>]
    BY <2>k, <1>10 DEF Read
  <2>a. Read(r, l).kept = k /\ Read(r, l).tail = <<>>
    BY <2>0, KeptTail
  <2>1. Read(r, l).kept = r.kept \o r.tail \o <<l>> /\ Read(r, l).tail = <<>>
    BY <2>a, <2>k, Zenon
  <2>2. ReadStep(r, l).kept = r.kept \o r.tail \o <<l>> /\ ReadStep(r, l).tail = <<>>
    BY <1>3, <1>5, <1>10, <2>1
  <2> QED  BY <1>2, <1>3, <1>10, <2>2, Zenon
<1>11. CASE NotBlank(l) /\ ~r.at.in /\ ~IsHeader(l) /\ r.at.table \notin Mine
  <2>k. PICK k : k = r.kept \o r.tail \o <<l>>
    OBVIOUS
  <2>0. Read(r, l) = [kept |-> k, tail |-> <<>>]
    BY <2>k, <1>11 DEF Read
  <2>a. Read(r, l).kept = k /\ Read(r, l).tail = <<>>
    BY <2>0, KeptTail
  <2>1. Read(r, l).kept = r.kept \o r.tail \o <<l>> /\ Read(r, l).tail = <<>>
    BY <2>a, <2>k, Zenon
  <2>2. ReadStep(r, l).kept = r.kept \o r.tail \o <<l>> /\ ReadStep(r, l).tail = <<>>
    BY <1>3, <1>5, <1>11, <2>1
  <2> QED  BY <1>2, <1>3, <1>11, <2>2, Zenon
<1>12. CASE NotBlank(l) /\ ~r.at.in /\ ~IsHeader(l) /\ r.at.table \in Mine /\ IsContent(l)
  <2>0. Read(r, l) = [kept |-> r.kept, tail |-> <<>>]
    BY <1>12 DEF Read
  <2>1. Read(r, l).kept = r.kept /\ Read(r, l).tail = <<>>
    BY <2>0, KeptTail
  <2>2. ReadStep(r, l).kept = r.kept /\ ReadStep(r, l).tail = <<>>
    BY <1>3, <1>5, <1>12, <2>1
  <2> QED  BY <1>2, <1>3, <1>12, <2>2, Zenon
<1>13. CASE NotBlank(l) /\ ~r.at.in /\ ~IsHeader(l) /\ r.at.table \in Mine /\ ~IsContent(l)
  <2>0. Read(r, l) = [kept |-> r.kept, tail |-> Append(r.tail, l)]
    BY <1>13 DEF Read
  <2>1. Read(r, l).kept = r.kept /\ Read(r, l).tail = Append(r.tail, l)
    BY <2>0, KeptTail
  <2>2. ReadStep(r, l).kept = r.kept /\ ReadStep(r, l).tail = Append(r.tail, l)
    BY <1>3, <1>5, <1>13, <2>1
  <2> QED  BY <1>2, <1>3, <1>13, <2>2, Zenon
<1> QED  BY <1>1, <1>6, <1>7, <1>8, <1>9, <1>10, <1>11, <1>12, <1>13, Zenon

LEMMA WeaveFields ==
  ASSUME NEW V, NEW w \in Weaves(V)
  PROVE  /\ w.out \in Seq(Line(V)) /\ w.cur \in Seq(Line(V))
         /\ w.mine \in BOOLEAN /\ w.seen \in BOOLEAN
BY DEF Weaves

LEMMA ReaderFields ==
  ASSUME NEW V, NEW r \in Readers(V)
  PROVE  /\ r.at \in State(V) /\ r.kept \in Seq(Line(V)) /\ r.tail \in Seq(Line(V))
         /\ r.at.in \in BOOLEAN /\ r.at.table \in Name
BY DEF Readers, State

\* The fields of one line more, when nothing replaces the server.
LEMMA WeaveFieldsStep ==
  ASSUME NEW V, NEW w \in Weaves(V), NEW l \in Line(V)
  PROVE  /\ IsHeader(l) =>
              /\ WeaveStep(w, l, <<>>).out = Ended(w)
              /\ WeaveStep(w, l, <<>>).cur = (IF Target(l) THEN <<>> ELSE <<l>>)
              /\ WeaveStep(w, l, <<>>).mine = Target(l)
         /\ ~IsHeader(l) =>
              /\ WeaveStep(w, l, <<>>).out = w.out
              /\ WeaveStep(w, l, <<>>).cur = (IF w.mine /\ IsContent(l) THEN <<>> ELSE Append(w.cur, l))
              /\ WeaveStep(w, l, <<>>).mine = w.mine
<1>1. JoinStep(Ended(w), <<>>) = Ended(w)
  BY DEF JoinStep
<1> QED  BY <1>1 DEF WeaveStep

LEMMA KeptEnded ==
  ASSUME NEW V, NEW w \in Weaves(V), NEW r \in Readers(V), Kept(w, r), ~w.mine \/ ~r.at.in
  PROVE  NonBlank(Ended(w)) = r.kept \o r.tail
<1>1. w.out \in Seq(Line(V)) /\ w.cur \in Seq(Line(V)) /\ w.mine \in BOOLEAN
  BY WeaveFields
<1>2. Trimmed(w.cur) \in Seq(Line(V)) /\ NonBlank(Trimmed(w.cur)) = NonBlank(w.cur)
  BY <1>1, TrimmedType, NonBlankTrimmed
<1>3. NonBlank(Ended(w)) = NonBlank(w.out) \o NonBlank(w.cur)
  <2>1. NonBlank(JoinStep(w.out, Trimmed(w.cur))) = NonBlank(w.out) \o NonBlank(Trimmed(w.cur))
    BY <1>1, <1>2, NonBlankJoin
  <2> QED  BY <2>1, <1>2, Zenon DEF Ended
<1>4. CASE w.mine
  <2>1. NonBlank(w.out) = r.kept /\ NonBlank(w.cur) = r.tail
    BY <1>4, Zenon DEF Kept
  <2> QED  BY <2>1, <1>3, Zenon
<1>5. CASE ~w.mine
  <2>1. NonBlank(w.out) \o NonBlank(w.cur) = r.kept /\ r.tail = <<>>
    BY <1>5, Zenon DEF Kept
  <2>2. r.kept \o <<>> = r.kept
    BY ReaderFields, ConcatEmptySeq
  <2> QED  BY <2>1, <2>2, <1>3, Zenon
<1> QED  BY <1>1, <1>4, <1>5

LEMMA NonBlankLine ==
  ASSUME NEW V, NEW l \in Line(V)
  PROVE  NonBlank(<<l>>) = OneNB(l)
<1>1. <<>> \in Seq(Line(V)) /\ Append(<<>>, l) = <<l>> /\ OneNB(l) \in Seq(Line(V))
  BY DEF OneNB
<1>2. NonBlank(Append(<<>>, l)) = NonBlank(<<>>) \o OneNB(l)
  BY <1>1, NonBlankAppend
<1>3. <<>> \o OneNB(l) = OneNB(l)
  BY <1>1, ConcatEmptySeq
<1> QED  BY <1>1, <1>2, <1>3, NonBlankNone, Zenon

\* A line that goes on with a segment that is not the server's.
LEMMA KeptOn ==
  ASSUME NEW V, NEW w \in Weaves(V), NEW r \in Readers(V), Kept(w, r), NEW l \in Line(V),
         ~w.mine, ~IsHeader(l)
  PROVE  NonBlank(w.out) \o NonBlank(Append(w.cur, l)) = ReadStep(r, l).kept
         /\ ReadStep(r, l).tail = <<>>
<1>1. w.out \in Seq(Line(V)) /\ w.cur \in Seq(Line(V)) /\ r.at.in \in BOOLEAN
      /\ r.at.table \notin Mine /\ r.tail = <<>>
      /\ NonBlank(w.out) \o NonBlank(w.cur) = r.kept /\ r.kept \in Seq(Line(V))
  BY WeaveFields, ReaderFields DEF Kept
<1>2. NonBlank(Append(w.cur, l)) = NonBlank(w.cur) \o OneNB(l)
      /\ NonBlank(w.cur) \in Seq(Line(V)) /\ NonBlank(w.out) \in Seq(Line(V))
      /\ OneNB(l) \in Seq(Line(V))
  <2>1. NonBlank(Append(w.cur, l)) = NonBlank(w.cur) \o OneNB(l)
    BY <1>1, NonBlankAppend
  <2>2. NonBlank(w.cur) \in Seq(Line(V)) /\ NonBlank(w.out) \in Seq(Line(V))
    BY <1>1, NonBlankType
  <2>3. OneNB(l) \in Seq(Line(V))
    BY DEF OneNB
  <2> QED  BY <2>1, <2>2, <2>3
<1>3. NonBlank(w.out) \o NonBlank(Append(w.cur, l)) = r.kept \o OneNB(l)
  <2>1. NonBlank(w.out) \o (NonBlank(w.cur) \o OneNB(l)) = (NonBlank(w.out) \o NonBlank(w.cur)) \o OneNB(l)
    <3>1. PICK x, y, z : x = NonBlank(w.out) /\ y = NonBlank(w.cur) /\ z = OneNB(l)
      OBVIOUS
    <3>2. x \in Seq(Line(V)) /\ y \in Seq(Line(V)) /\ z \in Seq(Line(V))
      BY <1>2, <3>1, Zenon
    <3>3. x \o (y \o z) = (x \o y) \o z
      BY <3>2, ConcatAssociative, SMTT(30)
    <3> QED  BY <3>1, <3>3, Zenon
  <2> QED  BY <2>1, <1>1, <1>2, Zenon
<1>4. CASE NotBlank(l)
  <2>1. ReadStep(r, l).kept = r.kept \o r.tail \o <<l>> /\ ReadStep(r, l).tail = <<>>
    BY <1>1, <1>4, ReadKept
  <2>2. r.kept \o r.tail = r.kept
    BY <1>1, ConcatEmptySeq
  <2>3. OneNB(l) = <<l>>
    BY <1>4 DEF OneNB
  <2> QED  BY <2>1, <2>2, <2>3, <1>3, Zenon
<1>5. CASE ~NotBlank(l)
  <2>1. ReadStep(r, l).kept = r.kept /\ ReadStep(r, l).tail = r.tail
    BY <1>5, ReadKept
  <2>2. OneNB(l) = <<>> /\ r.kept \o <<>> = r.kept
    BY <1>1, <1>5, ConcatEmptySeq DEF OneNB
  <2> QED  BY <2>1, <2>2, <1>1, <1>3, Zenon
<1> QED  BY <1>4, <1>5

LEMMA KeptStep ==
  ASSUME NEW V, NEW w \in Weaves(V), NEW r \in Readers(V), Kept(w, r), NEW l \in Line(V),
         Plain1(r.at, l)
  PROVE  Kept(WeaveStep(w, l, <<>>), ReadStep(r, l))
<1> DEFINE w2 == WeaveStep(w, l, <<>>)
           r2 == ReadStep(r, l)
<1>1. /\ w.out \in Seq(Line(V)) /\ w.cur \in Seq(Line(V)) /\ w.mine \in BOOLEAN
      /\ r.at \in State(V) /\ r.kept \in Seq(Line(V)) /\ r.tail \in Seq(Line(V))
      /\ r.at.in \in BOOLEAN /\ r.at.table \in Name
  BY WeaveFields, ReaderFields
<1>2. /\ w.mine <=> r.at.table \in Mine
      /\ w.mine => NonBlank(w.out) = r.kept
      /\ w.mine /\ ~r.at.in => NonBlank(w.cur) = r.tail
      /\ ~w.mine => NonBlank(w.out) \o NonBlank(w.cur) = r.kept
      /\ ~w.mine \/ r.at.in => r.tail = <<>>
  BY Zenon DEF Kept
<1>3. /\ r2.at.in <=> IF r.at.in THEN l.kind # "close" ELSE l.kind = "open"
      /\ r2.at.table = IF ~r.at.in /\ IsHeader(l) THEN l.table ELSE r.at.table
  <2>1. r2.at = Scan(r.at, l)
    BY ReadKept
  <2> QED  BY <1>1, <2>1, ScanControl
<1>4. CASE IsHeader(l)
  <2>1. w2.out = Ended(w) /\ w2.cur = (IF Target(l) THEN <<>> ELSE <<l>>) /\ w2.mine = Target(l)
    BY <1>4, WeaveFieldsStep
  <2>2. ~w.mine \/ ~r.at.in
    BY <1>2, <1>4 DEF Plain1
  <2>3. NonBlank(w2.out) = r.kept \o r.tail
    BY <2>1, <2>2, KeptEnded
  <2>4. l.kind = "header" /\ (Target(l) <=> l.table \in Mine) /\ Target(l) \in BOOLEAN
    BY <1>4 DEF IsHeader, Target
  <2>5. CASE Target(l)
    <3>1. ~r.at.in
      BY <1>4, <2>5 DEF Plain1
    <3>2. r2.kept = r.kept \o r.tail /\ r2.tail = <<>>
      BY <1>4, <2>5, <3>1, ReadKept
    <3>3. w2.mine /\ w2.cur = <<>> /\ ~r2.at.in /\ r2.at.table \in Mine
      BY <1>3, <1>4, <2>1, <2>4, <2>5, <3>1
    <3>4. NonBlank(w2.out) = r2.kept
      BY <2>3, <3>2, Zenon
    <3> QED  BY <3>2, <3>3, <3>4, NonBlankNone, Zenon DEF Kept
  <2>6. CASE ~Target(l)
    <3>1. r2.kept = r.kept \o r.tail \o <<l>> /\ r2.tail = <<>>
      <4>1. NotBlank(l)
        BY <2>4 DEF NotBlank
      <4>2. r.at.in => r.at.table \notin Mine
        BY <1>4 DEF Plain1
      <4> QED  BY <1>1, <1>4, <2>6, <4>1, <4>2, ReadKept
    <3>2. ~w2.mine /\ w2.cur = <<l>> /\ r2.at.table \notin Mine
      <4>1. r.at.in => r.at.table \notin Mine
        BY <1>4 DEF Plain1
      <4> QED  BY <1>1, <1>3, <1>4, <2>1, <2>4, <2>6, <4>1
    <3>3. NonBlank(<<l>>) = <<l>>
      <4>1. OneNB(l) = <<l>>
        BY <2>4 DEF OneNB, NotBlank
      <4> QED  BY <4>1, NonBlankLine
    <3>4. NonBlank(w2.out) \o NonBlank(w2.cur) = r2.kept
      BY <2>3, <3>1, <3>2, <3>3, Zenon
    <3> QED  BY <3>1, <3>2, <3>4, Zenon DEF Kept
  <2> QED  BY <2>5, <2>6
<1>5. CASE ~IsHeader(l)
  <2>1. w2.out = w.out /\ w2.mine = w.mine
        /\ w2.cur = (IF w.mine /\ IsContent(l) THEN <<>> ELSE Append(w.cur, l))
    BY <1>5, WeaveFieldsStep
  <2>2. r2.at.table = r.at.table
    BY <1>3, <1>5
  <2>3. CASE ~w.mine
    <3>1. NonBlank(w.out) \o NonBlank(Append(w.cur, l)) = r2.kept /\ r2.tail = <<>>
      BY <1>5, <2>3, KeptOn
    <3>2. ~w2.mine /\ w2.cur = Append(w.cur, l) /\ r2.at.table \notin Mine
      BY <1>2, <2>1, <2>2, <2>3
    <3>3. NonBlank(w2.out) \o NonBlank(w2.cur) = r2.kept
      BY <2>1, <3>1, <3>2, Zenon
    <3> QED  BY <3>1, <3>2, <3>3, Zenon DEF Kept
  <2>4. CASE w.mine
    <3>1. w2.mine /\ r2.at.table \in Mine /\ NonBlank(w2.out) = r.kept
      BY <1>2, <2>1, <2>2, <2>4
    <3>2. CASE r.at.in
      <4>1. r2.kept = r.kept /\ r2.tail = <<>>
        <5>1. r.tail = <<>>
          BY <1>2, <3>2
        <5>2. NotBlank(l) \in BOOLEAN
          BY DEF NotBlank
        <5> QED  BY <1>2, <2>4, <3>2, <5>1, <5>2, ReadKept
      <4>2. ~r2.at.in => w2.cur = <<>>
        BY <1>3, <2>1, <2>4, <3>2 DEF IsContent
      <4>3. ~r2.at.in => NonBlank(w2.cur) = r2.tail
        BY <4>1, <4>2, NonBlankNone, Zenon
      <4> QED  BY <3>1, <4>1, <4>3, Zenon DEF Kept
    <3>3. CASE ~r.at.in
      <4>1. CASE IsContent(l)
        <5>1. r2.kept = r.kept /\ r2.tail = <<>>
          BY <1>2, <1>5, <2>4, <3>3, <4>1, ReadKept
        <5>2. NonBlank(w2.cur) = <<>>
          BY <2>1, <2>4, <4>1, NonBlankNone
        <5> QED  BY <3>1, <5>1, <5>2, Zenon DEF Kept
      <4>2. CASE ~IsContent(l)
        <5>1. w2.cur = Append(w.cur, l) /\ NonBlank(Append(w.cur, l)) = r.tail \o OneNB(l)
          <6>1. w2.cur = Append(w.cur, l)
            BY <2>1, <4>2
          <6>2. NonBlank(Append(w.cur, l)) = NonBlank(w.cur) \o OneNB(l)
            BY <1>1, NonBlankAppend
          <6> QED  BY <6>1, <6>2, <1>2, <2>4, <3>3, Zenon
        <5>2. ~r2.at.in
          BY <1>3, <3>3, <4>2 DEF IsContent
        <5>3. CASE NotBlank(l)
          <6>1. r2.kept = r.kept /\ r2.tail = Append(r.tail, l)
            BY <1>2, <1>5, <2>4, <3>3, <4>2, <5>3, ReadKept
          <6>2. OneNB(l) = <<l>> /\ r.tail \o <<l>> = Append(r.tail, l)
            BY <1>1, <5>3, AppendIsConcat DEF OneNB
          <6>3. NonBlank(w2.cur) = r2.tail
            BY <5>1, <6>1, <6>2, Zenon
          <6> QED  BY <3>1, <5>2, <6>1, <6>3, Zenon DEF Kept
        <5>4. CASE ~NotBlank(l)
          <6>1. r2.kept = r.kept /\ r2.tail = r.tail
            BY <5>4, ReadKept
          <6>2. OneNB(l) = <<>> /\ r.tail \o <<>> = r.tail
            BY <1>1, <5>4, ConcatEmptySeq DEF OneNB
          <6>3. NonBlank(w2.cur) = r2.tail
            BY <5>1, <6>1, <6>2, Zenon
          <6> QED  BY <3>1, <5>2, <6>1, <6>3, Zenon DEF Kept
        <5> QED  BY <5>3, <5>4
      <4> QED  BY <4>1, <4>2
    <3> QED  BY <1>1, <3>2, <3>3
  <2> QED  BY <1>1, <2>3, <2>4
<1> QED  BY <1>4, <1>5

LEMMA KeptAlong ==
  ASSUME NEW V, NEW s \in Seq(Line(V)), Clear(s)
  PROVE  KeptSoFar(s)
<1> DEFINE G == {x \in Seq(Line(V)) : Clear(x) => KeptSoFar(x)}
<1>1. <<>> \in G
  BY KeptStart
<1>2. ASSUME NEW x \in Seq(Line(V)), NEW l \in Line(V), x \in G PROVE Append(x, l) \in G
  <2>1. Append(x, l) \in Seq(Line(V)) /\ <<>> \in Seq(Line(V))
    BY AppendProperties
  <2> SUFFICES ASSUME Clear(Append(x, l)) PROVE KeptSoFar(Append(x, l))
    BY <2>1
  <2>2. Clear(x) /\ Plain1(Scanned(x), l)
    BY ClearAppend
  <2>3. Weave(Append(x, l), <<>>) = WeaveStep(Weave(x, <<>>), l, <<>>)
    BY <2>1, WeaveAppend
  <2>4. Weave(x, <<>>) \in Weaves(V)
    BY <2>1, WeaveType
  <2>5. Reading(Append(x, l)) = ReadStep(Reading(x), l) /\ Reading(x) \in Readers(V)
    BY ReadingAppend
  <2>6. Reading(x).at = Scanned(x)
    BY ReadingAt
  <2>7. Kept(Weave(x, <<>>), Reading(x)) /\ Plain1(Reading(x).at, l)
    BY <1>2, <2>2, <2>6, Zenon DEF KeptSoFar
  <2>8. Kept(WeaveStep(Weave(x, <<>>), l, <<>>), ReadStep(Reading(x), l))
    BY <2>4, <2>5, <2>7, KeptStep
  <2> QED  BY <2>3, <2>5, <2>8, Zenon DEF KeptSoFar
<1> QED
  <2> HIDE DEF G
  <2>1. s \in G
    BY <1>1, <1>2, SeqInducts
  <2> QED  BY <2>1 DEF G

\* The edit that removes the server leaves the lines that are not the server's.
LEMMA RemovalKeeps ==
  ASSUME NEW V, NEW s \in Seq(Line(V)), Clear(s), ~Scanned(s).in
  PROVE  NonBlank(Assembled(s, <<>>)) = Others(s)
<1>1. <<>> \in Seq(Line(V))
  OBVIOUS
<1>2. Weave(s, <<>>) \in Weaves(V) /\ Reading(s) \in Readers(V)
  BY <1>1, WeaveType, ReadingType
<1>3. Kept(Weave(s, <<>>), Reading(s)) /\ ~Reading(s).at.in
  BY KeptAlong, ReadingAt DEF KeptSoFar
<1>4. NonBlank(Ended(Weave(s, <<>>))) = Reading(s).kept \o Reading(s).tail
  BY <1>2, <1>3, KeptEnded
<1>5. Assembled(s, <<>>) = Ended(Weave(s, <<>>))
  <2>1. JoinStep(Ended(Weave(s, <<>>)), <<>>) = Ended(Weave(s, <<>>))
    BY DEF JoinStep
  <2> QED  BY <1>1, <2>1, AssembledIs
<1> QED  BY <1>4, <1>5 DEF Others

(* ---- what is read of an edited text ---- *)

\* A text of other tables.
LEMMA ReadForeign ==
  ASSUME NEW V, NEW s \in Seq(Apart(Line(V)))
  PROVE  /\ s \in Seq(Line(V)) /\ Scanned(s).table \notin Mine
         /\ Reading(s).kept = NonBlank(s) /\ Reading(s).tail = <<>>
<1> DEFINE L == Apart(Line(V))
           G == {x \in Seq(L) : /\ x \in Seq(Line(V)) /\ Scanned(x).table \notin Mine
                                /\ Reading(x).kept = NonBlank(x) /\ Reading(x).tail = <<>>}
<1>1. <<>> \in G
  <2>1. Scan0.table \notin Mine
    BY DEF Scan0, Mine
  <2>2. Scanned(<<>>) = Scan0 /\ NonBlank(<<>>) = <<>> /\ Reading(<<>>).kept = <<>>
        /\ Reading(<<>>).tail = <<>>
    BY ReadingNone, ScannedNone, NonBlankNone DEF Reader0
  <2> QED  BY <2>1, <2>2
<1>2. ASSUME NEW x \in Seq(L), NEW l \in L, x \in G PROVE Append(x, l) \in G
  <2>1. Append(x, l) \in Seq(L) /\ x \in Seq(Line(V)) /\ l \in Line(V) /\ ~Target(l)
        /\ Append(x, l) \in Seq(Line(V)) /\ L \subseteq Line(V)
    BY <1>2, AppendProperties DEF Apart
  <2>2. Scanned(Append(x, l)) = Scan(Scanned(x), l) /\ Scanned(x) \in State(V)
    BY <2>1, ScannedAppend
  <2>3. Scan(Scanned(x), l).table \notin Mine
    <3>1. Scanned(x).table \notin Mine
      BY <1>2
    <3> QED  BY <2>1, <2>2, <3>1, ScanControl DEF Target
  <2>4. /\ Reading(Append(x, l)) = ReadStep(Reading(x), l) /\ Reading(x) \in Readers(V)
        /\ Reading(x).at = Scanned(x)
    BY <2>1, ReadingAppend, ReadingAt
  <2>5. NonBlank(Append(x, l)) = NonBlank(x) \o OneNB(l) /\ NonBlank(x) \in Seq(Line(V))
    BY <2>1, NonBlankAppend
  <2>6. /\ ReadStep(Reading(x), l).kept = NonBlank(x) \o OneNB(l)
        /\ ReadStep(Reading(x), l).tail = <<>>
    <3>1. PICK r : r = Reading(x)
      OBVIOUS
    <3>2. r \in Readers(V) /\ r.at.table \notin Mine /\ r.kept = NonBlank(x) /\ r.tail = <<>>
          /\ r.at.in \in BOOLEAN
      <4>1. r.at.table \notin Mine /\ r.kept = NonBlank(x) /\ r.tail = <<>>
        BY <1>2, <2>4, <3>1
      <4> QED  BY <2>4, <3>1, <4>1, ReaderFields
    <3>3. NonBlank(x) \o <<>> = NonBlank(x)
      BY <2>5, ConcatEmptySeq
    <3>4. CASE NotBlank(l)
      <4>1. ReadStep(r, l).kept = r.kept \o r.tail \o <<l>> /\ ReadStep(r, l).tail = <<>>
        BY <2>1, <3>2, <3>4, ReadKept DEF Target
      <4>2. OneNB(l) = <<l>>
        BY <3>4 DEF OneNB
      <4> QED  BY <3>1, <3>2, <3>3, <4>1, <4>2, Zenon
    <3>5. CASE ~NotBlank(l)
      <4>1. ReadStep(r, l).kept = r.kept /\ ReadStep(r, l).tail = r.tail
        BY <2>1, <3>2, <3>5, ReadKept
      <4>2. OneNB(l) = <<>>
        BY <3>5 DEF OneNB
      <4> QED  BY <3>1, <3>2, <3>3, <4>1, <4>2, Zenon
    <3> QED  BY <3>4, <3>5
  <2>7. Scanned(Append(x, l)).table \notin Mine
    BY <2>2, <2>3, Zenon
  <2>8. Reading(Append(x, l)).kept = NonBlank(Append(x, l)) /\ Reading(Append(x, l)).tail = <<>>
    BY <2>4, <2>5, <2>6, Zenon
  <2> QED  BY <2>1, <2>7, <2>8
<1> QED
  <2> HIDE DEF G, L
  <2>1. s \in G
    BY <1>1, <1>2, SeqInducts DEF L
  <2> QED  BY <2>1 DEF G

LEMMA ForeignOthers ==
  ASSUME NEW V, NEW s \in Seq(Apart(Line(V)))
  PROVE  Others(s) = NonBlank(s)
<1>1. s \in Seq(Line(V)) /\ Reading(s).kept = NonBlank(s) /\ Reading(s).tail = <<>>
  BY ReadForeign
<1>2. NonBlank(s) \in Seq(Line(V))
  BY <1>1, NonBlankType
<1>3. NonBlank(s) \o <<>> = NonBlank(s)
  BY <1>2, ConcatEmptySeq
<1> QED  BY <1>1, <1>3, Zenon DEF Others

\* The lines a server is written as, after its header.
Written(l) == Target(l) \/ l.kind \in {"key", "blank"}
Writes(V) == {l \in Line(V) : Written(l) /\ l.eol = "lf"}

LEMMA CatLast ==
  ASSUME NEW V, NEW x \in Seq(Line(V)), NEW Q \in SUBSET Line(V), NEW t \in Seq(Q), NEW l \in Q
  PROVE  /\ x \o Append(t, l) = Append(x \o t, l) /\ x \o t \in Seq(Line(V)) /\ l \in Line(V)
         /\ t \in Seq(Line(V)) /\ Append(t, l) \in Seq(Q)
<1>1. t \in Seq(Line(V)) /\ l \in Line(V) /\ Append(t, l) \in Seq(Q)
  BY AppendProperties
<1> QED  BY <1>1, CatAppend, CatType

LEMMA ReadWritten ==
  ASSUME NEW V, NEW x \in Seq(Line(V)), NEW t \in Seq(Writes(V)),
         ~Reading(x).at.in, Reading(x).at.table \in Mine, Reading(x).tail = <<>>
  PROVE  /\ ~Reading(x \o t).at.in /\ Reading(x \o t).at.table \in Mine
         /\ Reading(x \o t).kept = Reading(x).kept /\ Reading(x \o t).tail = <<>>
<1> DEFINE G == {y \in Seq(Writes(V)) :
                   /\ ~Reading(x \o y).at.in /\ Reading(x \o y).at.table \in Mine
                   /\ Reading(x \o y).kept = Reading(x).kept /\ Reading(x \o y).tail = <<>>}
<1>1. <<>> \in G
  <2>1. x \o <<>> = x
    BY ConcatEmptySeq
  <2> QED  BY <2>1
<1>2. ASSUME NEW y \in Seq(Writes(V)), NEW l \in Writes(V), y \in G PROVE Append(y, l) \in G
  <2>1. x \o Append(y, l) = Append(x \o y, l) /\ x \o y \in Seq(Line(V)) /\ l \in Line(V)
        /\ Append(y, l) \in Seq(Writes(V))
    BY CatLast DEF Writes
  <2>2. PICK r : r = Reading(x \o y)
    OBVIOUS
  <2>3. Reading(Append(x \o y, l)) = ReadStep(r, l) /\ r \in Readers(V)
    BY <2>1, <2>2, ReadingAppend
  <2>4. ~r.at.in /\ r.at.table \in Mine /\ r.kept = Reading(x).kept /\ r.tail = <<>>
    BY <1>2, <2>2
  <2>5. r.at \in State(V) /\ r.kept \in Seq(Line(V)) /\ ReadStep(r, l).at = Scan(r.at, l)
    BY <2>3, ReaderFields, ReadKept, <2>1
  <2>6. ~ReadStep(r, l).at.in /\ ReadStep(r, l).at.table \in Mine
    BY <2>1, <2>4, <2>5, ScanControl DEF Writes, Written, Target, IsHeader
  <2>7. ReadStep(r, l).kept = r.kept /\ ReadStep(r, l).tail = <<>>
    <3>1. CASE Target(l)
      <4>1. ReadStep(r, l).kept = r.kept \o r.tail /\ ReadStep(r, l).tail = <<>>
        BY <2>1, <2>3, <2>4, <3>1, ReadKept, ZenonT(30) DEF Target
      <4>2. r.kept \o <<>> = r.kept
        BY <2>5, ConcatEmptySeq
      <4> QED  BY <2>4, <4>1, <4>2, Zenon
    <3>2. CASE l.kind = "key"
      BY <2>1, <2>3, <2>4, <3>2, ReadKept, ZenonT(30) DEF IsHeader, IsContent
    <3>3. CASE l.kind = "blank"
      BY <2>1, <2>3, <2>4, <3>3, ReadKept DEF NotBlank
    <3> QED  BY <3>1, <3>2, <3>3 DEF Writes, Written
  <2>8. Reading(x \o Append(y, l)) = ReadStep(r, l)
    BY <2>1, <2>3, Zenon
  <2> QED  BY <2>1, <2>4, <2>6, <2>7, <2>8
<1> QED
  <2> HIDE DEF G
  <2>1. t \in G
    BY <1>1, <1>2, SeqInducts
  <2> QED  BY <2>1 DEF G

\* A server that is written where no string is open.
Block(b, V) == \E t \in Seq(Writes(V)) : b = <<Header("me")>> \o t

LEMMA HeaderMe ==
  \A V : Header("me") \in Line(V) /\ Header("me") \in Writes(V) /\ Target(Header("me"))
         /\ IsHeader(Header("me")) /\ Header("me").table = "me" /\ "me" \in Name
BY DEF Header, Line, Name, Eols, Writes, Written, Target, IsHeader, Mine

LEMMA BlockCat ==
  ASSUME NEW V, NEW x \in Seq(Line(V)), NEW t \in Seq(Writes(V))
  PROVE  /\ x \o (<<Header("me")>> \o t) = Append(x, Header("me")) \o t
         /\ Append(x, Header("me")) \in Seq(Line(V))
         /\ <<Header("me")>> \o t \in Seq(Line(V)) /\ <<Header("me")>> \o t \in Seq(Writes(V))
<1>1. PICK h : h = Header("me")
  OBVIOUS
<1>2. h \in Line(V) /\ h \in Writes(V)
  BY <1>1, HeaderMe
<1>3. <<h>> \in Seq(Line(V)) /\ <<h>> \in Seq(Writes(V)) /\ t \in Seq(Line(V))
      /\ Append(x, h) \in Seq(Line(V))
  BY <1>2, AppendProperties DEF Writes
<1>4. x \o (<<h>> \o t) = (x \o <<h>>) \o t
  BY <1>3, ConcatAssociative, SMTT(30)
<1>5. x \o <<h>> = Append(x, h)
  BY <1>2, AppendIsConcat
<1>6. <<h>> \o t \in Seq(Line(V)) /\ <<h>> \o t \in Seq(Writes(V))
  BY <1>3, CatType
<1> QED  BY <1>1, <1>3, <1>4, <1>5, <1>6, Zenon

LEMMA ReadBlock ==
  ASSUME NEW V, NEW x \in Seq(Line(V)), NEW b, Block(b, V), ~Reading(x).at.in
  PROVE  /\ b \in Seq(Line(V)) /\ x \o b \in Seq(Line(V))
         /\ ~Reading(x \o b).at.in /\ Reading(x \o b).at.table \in Mine
         /\ Reading(x \o b).kept = Others(x) /\ Reading(x \o b).tail = <<>>
<1>1. PICK t \in Seq(Writes(V)) : b = <<Header("me")>> \o t
  BY DEF Block
<1>2. /\ x \o b = Append(x, Header("me")) \o t
      /\ Append(x, Header("me")) \in Seq(Line(V)) /\ b \in Seq(Line(V))
  BY <1>1, BlockCat
<1>3. PICK h : h = Header("me")
  OBVIOUS
<1>4. h \in Line(V) /\ Target(h) /\ IsHeader(h) /\ h.table = "me"
  BY <1>3, HeaderMe
<1>5. PICK r : r = Reading(x)
  OBVIOUS
<1>6. Reading(Append(x, h)) = ReadStep(r, h) /\ r \in Readers(V) /\ ~r.at.in
  BY <1>4, <1>5, ReadingAppend
<1>7. ReadStep(r, h).kept = r.kept \o r.tail /\ ReadStep(r, h).tail = <<>>
      /\ ReadStep(r, h).at = Scan(r.at, h)
  BY <1>4, <1>6, ReadKept
<1>8. ~ReadStep(r, h).at.in /\ ReadStep(r, h).at.table \in Mine
  <2>1. r.at \in State(V)
    BY <1>6, ReaderFields
  <2> QED  BY <1>4, <1>6, <1>7, <2>1, ScanControl DEF IsHeader, Mine
<1>9. Append(x, h) \in Seq(Line(V)) /\ Reading(Append(x, h)).tail = <<>>
      /\ ~Reading(Append(x, h)).at.in /\ Reading(Append(x, h)).at.table \in Mine
  BY <1>2, <1>3, <1>6, <1>7, <1>8, Zenon
<1>10. PICK y : y = Append(x, h)
  OBVIOUS
<1>11. /\ ~Reading(y \o t).at.in /\ Reading(y \o t).at.table \in Mine
       /\ Reading(y \o t).kept = Reading(y).kept /\ Reading(y \o t).tail = <<>>
  <2>1. y \in Seq(Line(V)) /\ Reading(y).tail = <<>> /\ ~Reading(y).at.in /\ Reading(y).at.table \in Mine
    BY <1>9, <1>10
  <2> QED  BY <2>1, ReadWritten
<1>12. x \o b = y \o t
  BY <1>2, <1>3, <1>10, Zenon
<1>13. Reading(y).kept = Others(x)
  BY <1>5, <1>6, <1>7, <1>10, Zenon DEF Others
<1> QED  BY <1>2, <1>11, <1>12, <1>13, CatType, Zenon

LEMMA CatAssoc ==
  ASSUME NEW S, NEW x \in Seq(S), NEW y \in Seq(S), NEW z \in Seq(S)
  PROVE  x \o (y \o z) = (x \o y) \o z
BY ConcatAssociative, SMTT(30)

\* Blank lines where no string is open.
LEMMA ScanPad ==
  ASSUME NEW V, NEW x \in Seq(Line(V)), ~Scanned(x).in, NEW m \in {<<>>, <<Blank>>}
  PROVE  Scanned(x \o m) = Scanned(x) /\ x \o m \in Seq(Line(V))
         /\ Reading(x \o m).kept = Reading(x).kept /\ Reading(x \o m).tail = Reading(x).tail
<1>1. CASE m = <<>>
  BY <1>1, ConcatEmptySeq
<1>2. CASE m = <<Blank>>
  <2>1. PICK l : l = Blank
    OBVIOUS
  <2>2. l \in Line(V) /\ l.kind = "blank" /\ ~NotBlank(l)
    BY <2>1, BlankIsLine DEF Blank, NotBlank
  <2>3. x \o <<l>> = Append(x, l) /\ Append(x, l) \in Seq(Line(V))
    BY <2>2, AppendIsConcat, AppendProperties
  <2>4. Scanned(Append(x, l)) = Scan(Scanned(x), l) /\ Scanned(x) \in State(V)
    BY <2>2, ScannedAppend
  <2>5. Scan(Scanned(x), l) = Scanned(x)
    BY <2>2, <2>4, ScanRest
  <2>6. Reading(Append(x, l)) = ReadStep(Reading(x), l) /\ Reading(x) \in Readers(V)
    BY <2>2, ReadingAppend
  <2>7. ReadStep(Reading(x), l).kept = Reading(x).kept /\ ReadStep(Reading(x), l).tail = Reading(x).tail
    BY <2>2, <2>6, ReadKept
  <2> QED  BY <1>2, <2>1, <2>3, <2>4, <2>5, <2>6, <2>7, Zenon
<1> QED  BY <1>1, <1>2

\* What of a quiet text comes before its first header.
Headless(c) == \A i \in DOMAIN c : ~IsHeader(c[i])

LEMMA QuietAppend ==
  ASSUME NEW S, NEW c \in Seq(S), NEW l \in S, Quiet(Append(c, l))
  PROVE  /\ Quiet(c) /\ (Headless(c) /\ ~IsHeader(l) => ~IsContent(l))
         /\ (Headless(Append(c, l)) <=> Headless(c) /\ ~IsHeader(l))
<1>1. /\ Len(Append(c, l)) = Len(c) + 1 /\ Len(c) \in Nat /\ Append(c, l)[Len(c) + 1] = l
      /\ \A i \in 1..Len(c) : Append(c, l)[i] = c[i]
      /\ DOMAIN Append(c, l) = 1..Len(c) + 1 /\ DOMAIN c = 1..Len(c)
  BY AppendProperties
<1>2. Quiet(c)
  <2> SUFFICES ASSUME NEW i \in 1..Len(c), \A j \in 1..i : ~IsHeader(c[j]) PROVE ~IsContent(c[i])
    BY <1>1 DEF Quiet
  <2>1. \A j \in 1..i : j \in 1..Len(c)
    BY <1>1
  <2>2. \A j \in 1..i : ~IsHeader(Append(c, l)[j])
    BY <1>1, <2>1
  <2>3. i \in 1..Len(c) + 1
    BY <1>1
  <2>4. ~IsContent(Append(c, l)[i])
    BY <1>1, <2>2, <2>3 DEF Quiet
  <2> QED  BY <1>1, <2>4
<1>3. Headless(Append(c, l)) <=> Headless(c) /\ ~IsHeader(l)
  <2>1. (\A i \in 1..Len(c) + 1 : i \in 1..Len(c) \/ i = Len(c) + 1)
        /\ (\A i \in 1..Len(c) : i \in 1..Len(c) + 1) /\ Len(c) + 1 \in 1..Len(c) + 1
    BY <1>1
  <2> QED  BY <1>1, <2>1, Zenon DEF Headless
<1>4. ASSUME Headless(c), ~IsHeader(l) PROVE ~IsContent(l)
  <2>1. \A j \in 1..Len(c) + 1 : ~IsHeader(Append(c, l)[j])
    BY <1>1, <1>3, <1>4, Zenon DEF Headless
  <2>2. Len(c) + 1 \in 1..Len(c) + 1
    BY <1>1
  <2>3. ~IsContent(Append(c, l)[Len(c) + 1])
    BY <1>1, <2>1, <2>2 DEF Quiet
  <2> QED  BY <1>1, <2>3
<1> QED  BY <1>2, <1>3, <1>4

\* The lines that come after the server, of which none is its own.
After3(r, n, c) ==
  /\ r.kept \o r.tail = n
  /\ r.at.table \in Mine => ~r.at.in /\ Headless(c)
  /\ r.at.table \notin Mine => r.tail = <<>>

LEMMA AfterStep ==
  ASSUME NEW V, NEW r \in Readers(V), NEW n \in Seq(Line(V)), NEW c \in Seq(Line(V)), NEW l \in Line(V),
         After3(r, n, c), ~Target(l), Quiet(Append(c, l))
  PROVE  After3(ReadStep(r, l), n \o OneNB(l), Append(c, l))
<1>1. r.at \in State(V) /\ r.kept \in Seq(Line(V)) /\ r.tail \in Seq(Line(V))
      /\ r.at.in \in BOOLEAN
  BY ReaderFields
<1>2. /\ r.kept \o r.tail = n
      /\ r.at.table \in Mine => ~r.at.in /\ Headless(c)
      /\ r.at.table \notin Mine => r.tail = <<>>
  BY Zenon DEF After3
<1>3. /\ Headless(c) /\ ~IsHeader(l) => ~IsContent(l)
      /\ Headless(Append(c, l)) <=> Headless(c) /\ ~IsHeader(l)
  BY QuietAppend
<1>4. ReadStep(r, l).at = Scan(r.at, l)
      /\ (Scan(r.at, l).in <=> IF r.at.in THEN l.kind # "close" ELSE l.kind = "open")
      /\ Scan(r.at, l).table = IF ~r.at.in /\ IsHeader(l) THEN l.table ELSE r.at.table
  <2>1. ReadStep(r, l).at = Scan(r.at, l)
    BY ReadKept
  <2>2. /\ Scan(r.at, l).in <=> IF r.at.in THEN l.kind # "close" ELSE l.kind = "open"
        /\ Scan(r.at, l).table = IF ~r.at.in /\ IsHeader(l) THEN l.table ELSE r.at.table
    BY <1>1, ScanControl
  <2> QED  BY <2>1, <2>2, Zenon
<1>5. CASE r.at.table \in Mine /\ ~IsHeader(l)
  <2>1. ~r.at.in /\ Headless(Append(c, l)) /\ ~IsContent(l)
    BY <1>2, <1>3, <1>5
  <2>2. ~ReadStep(r, l).at.in /\ ReadStep(r, l).at.table \in Mine
    <3>1. l.kind # "open"
      BY <2>1 DEF IsContent
    <3> QED  BY <1>4, <1>5, <2>1, <3>1
  <2>3. ReadStep(r, l).kept \o ReadStep(r, l).tail = n \o OneNB(l)
    <3>1. CASE NotBlank(l)
      <4>1. ReadStep(r, l).kept = r.kept /\ ReadStep(r, l).tail = Append(r.tail, l)
        BY <1>5, <2>1, <3>1, ReadKept
      <4>2. PICK k, t : k = r.kept /\ t = r.tail
        OBVIOUS
      <4>3. k \in Seq(Line(V)) /\ t \in Seq(Line(V)) /\ k \o t \in Seq(Line(V))
        BY <1>1, <4>2, CatType
      <4>4. k \o Append(t, l) = Append(k \o t, l)
        BY <4>3, CatAppend
      <4>5. n \o <<l>> = Append(n, l)
        BY AppendIsConcat
      <4>6. OneNB(l) = <<l>>
        BY <3>1 DEF OneNB
      <4> QED  BY <1>2, <4>1, <4>2, <4>4, <4>5, <4>6, Zenon
    <3>2. CASE ~NotBlank(l)
      <4>1. ReadStep(r, l).kept = r.kept /\ ReadStep(r, l).tail = r.tail
        BY <3>2, ReadKept
      <4>2. OneNB(l) = <<>> /\ n \o <<>> = n
        BY <3>2, ConcatEmptySeq DEF OneNB
      <4> QED  BY <1>2, <4>1, <4>2, Zenon
    <3> QED  BY <3>1, <3>2
  <2> QED  BY <2>1, <2>2, <2>3, Zenon DEF After3
<1>6. CASE ~(r.at.table \in Mine /\ ~IsHeader(l))
  <2>1. ReadStep(r, l).at.table \notin Mine
    <3>1. IsHeader(l) => l.table \notin Mine
      BY DEF Target
    <3> QED  BY <1>2, <1>4, <1>6, <3>1
  <2>2. ReadStep(r, l).kept \o ReadStep(r, l).tail = n \o OneNB(l) /\ ReadStep(r, l).tail = <<>>
    <3>1. CASE NotBlank(l)
      <4>1. ReadStep(r, l).kept = r.kept \o r.tail \o <<l>> /\ ReadStep(r, l).tail = <<>>
        BY <1>1, <1>2, <1>6, <3>1, ReadKept DEF Target
      <4>2. OneNB(l) = <<l>>
        BY <3>1 DEF OneNB
      <4>3. n \o <<l>> \in Seq(Line(V)) /\ (n \o <<l>>) \o <<>> = n \o <<l>>
        <5>1. <<l>> \in Seq(Line(V))
          OBVIOUS
        <5>2. n \o <<l>> \in Seq(Line(V))
          BY <5>1, CatType
        <5> QED  BY <5>2, ConcatEmptySeq
      <4> QED  BY <1>2, <4>1, <4>2, <4>3, Zenon
    <3>2. CASE ~NotBlank(l)
      <4>1. ReadStep(r, l).kept = r.kept /\ ReadStep(r, l).tail = r.tail
        BY <3>2, ReadKept
      <4>2. OneNB(l) = <<>> /\ n \o <<>> = n
        BY <3>2, ConcatEmptySeq DEF OneNB
      <4>3. ~IsHeader(l)
        BY <3>2 DEF IsHeader, NotBlank
      <4>4. r.tail = <<>>
        BY <1>2, <1>6, <4>3
      <4> QED  BY <1>2, <4>1, <4>2, <4>4, Zenon
    <3> QED  BY <3>1, <3>2
  <2> QED  BY <2>1, <2>2, Zenon DEF After3
<1> QED  BY <1>5, <1>6

LEMMA ReadAfter ==
  ASSUME NEW V, NEW x \in Seq(Line(V)), NEW c \in Seq(Apart(Line(V))), Quiet(c),
         ~Reading(x).at.in, Reading(x).at.table \in Mine, Reading(x).tail = <<>>
  PROVE  Others(x \o c) = Reading(x).kept \o NonBlank(c)
<1> DEFINE L == Apart(Line(V))
           K == Reading(x).kept
           G == {y \in Seq(L) : Quiet(y) => After3(Reading(x \o y), K \o NonBlank(y), y)}
<1>1. K \in Seq(Line(V)) /\ L \in SUBSET Line(V)
  <2>1. Reading(x) \in Readers(V)
    BY ReadingType
  <2> QED  BY <2>1, ReaderFields DEF Apart
<1>9. \A a, d, e \in Seq(Line(V)) : a \o (d \o e) = (a \o d) \o e
  BY CatAssoc
<1>2. <<>> \in G
  <2>1. x \o <<>> = x /\ K \o <<>> = K /\ Headless(<<>>)
    BY <1>1, ConcatEmptySeq DEF Headless
  <2>2. After3(Reading(x), K, <<>>)
    <3>1. Reading(x).kept \o Reading(x).tail = K
      BY <2>1, Zenon
    <3> QED  BY <2>1, <3>1, Zenon DEF After3
  <2>3. <<>> \in Seq(L)
    OBVIOUS
  <2> QED  BY <2>1, <2>2, <2>3, NonBlankNone, Zenon
<1>3. ASSUME NEW y \in Seq(L), NEW l \in L, y \in G PROVE Append(y, l) \in G
  <2> HIDE DEF K, L
  <2>1. x \o Append(y, l) = Append(x \o y, l) /\ x \o y \in Seq(Line(V)) /\ l \in Line(V)
        /\ y \in Seq(Line(V)) /\ Append(y, l) \in Seq(L)
    BY <1>1, CatLast
  <2> SUFFICES ASSUME Quiet(Append(y, l))
               PROVE  After3(Reading(x \o Append(y, l)), K \o NonBlank(Append(y, l)), Append(y, l))
    BY <2>1
  <2>2. Quiet(y) /\ ~Target(l)
    BY <2>1, QuietAppend DEF L, Apart
  <2>3. After3(Reading(x \o y), K \o NonBlank(y), y)
    BY <1>3, <2>2
  <2>4. PICK r, n : r = Reading(x \o y) /\ n = K \o NonBlank(y)
    OBVIOUS
  <2>5. Reading(Append(x \o y, l)) = ReadStep(r, l) /\ r \in Readers(V)
    BY <2>1, <2>4, ReadingAppend
  <2>6. NonBlank(y) \in Seq(Line(V)) /\ NonBlank(Append(y, l)) = NonBlank(y) \o OneNB(l)
        /\ OneNB(l) \in Seq(Line(V))
    <3>1. OneNB(l) \in Seq(Line(V))
      BY <2>1 DEF OneNB
    <3> QED  BY <2>1, <3>1, NonBlankAppend
  <2>7. n \in Seq(Line(V)) /\ K \o NonBlank(Append(y, l)) = n \o OneNB(l)
    <3>1. PICK p, q, k : p = NonBlank(y) /\ q = OneNB(l) /\ k = K
      OBVIOUS
    <3>2. p \in Seq(Line(V)) /\ q \in Seq(Line(V)) /\ k \in Seq(Line(V))
      BY <1>1, <2>6, <3>1
    <3>3. k \o (p \o q) = (k \o p) \o q /\ k \o p \in Seq(Line(V))
      <4>1. k \o (p \o q) = (k \o p) \o q
        BY <3>2, <1>9
      <4>2. k \o p \in Seq(Line(V))
        BY <3>2, CatType
      <4> QED  BY <4>1, <4>2
    <3> QED  BY <2>4, <2>6, <3>1, <3>3, Zenon
  <2>8. After3(r, n, y)
    BY <2>3, <2>4, Zenon
  <2>9. After3(ReadStep(r, l), n \o OneNB(l), Append(y, l))
    BY <2>1, <2>2, <2>5, <2>7, <2>8, AfterStep
  <2> QED  BY <2>1, <2>5, <2>7, <2>9, Zenon
<1>4. c \in G
  <2> HIDE DEF G, L
  <2> QED  BY <1>2, <1>3, SeqInducts DEF L
<1> QED
  <2>1. After3(Reading(x \o c), K \o NonBlank(c), c)
    BY <1>4
  <2> HIDE DEF K
  <2> QED  BY <2>1, Zenon DEF After3, Others, K

\* An edited text: the other lines before and after the block, in order.
LEMMA ReadEdit ==
  ASSUME NEW V, NEW A \in Seq(Apart(Line(V))), NEW C \in Seq(Apart(Line(V))), Quiet(C),
         NEW b, Block(b, V), ~Scanned(A).in
  PROVE  /\ JoinStep(JoinStep(A, b), C) \in Seq(Line(V))
         /\ Others(JoinStep(JoinStep(A, b), C)) = NonBlank(A) \o NonBlank(C)
<1>1. A \in Seq(Line(V)) /\ C \in Seq(Line(V))
  BY ReadForeign
<1>2. b \in Seq(Line(V))
  BY <1>1, ReadBlock, ReadingAt
<1>3. Blank \in Line(V)
  BY BlankIsLine
<1>4. PICK m \in {<<>>, <<Blank>>} : JoinStep(A, b) = A \o m \o b
  BY <1>1, <1>2, <1>3, JoinPad
<1>5. PICK x : x = A \o m
  OBVIOUS
<1>6. /\ x \in Seq(Line(V)) /\ Scanned(x) = Scanned(A)
      /\ Reading(x).kept = Reading(A).kept /\ Reading(x).tail = Reading(A).tail
  BY <1>1, <1>5, ScanPad
<1>7. Others(x) = NonBlank(A)
  <2>1. Others(A) = NonBlank(A)
    BY ForeignOthers
  <2> QED  BY <2>1, <1>6, Zenon DEF Others
<1>8. PICK y : y = JoinStep(A, b)
  OBVIOUS
<1>9. /\ y \in Seq(Line(V)) /\ ~Reading(y).at.in /\ Reading(y).at.table \in Mine
      /\ Reading(y).kept = NonBlank(A) /\ Reading(y).tail = <<>>
  <2>1. ~Reading(x).at.in
    BY <1>6, ReadingAt
  <2>2. y = x \o b
    BY <1>4, <1>5, <1>8, Zenon
  <2> QED  BY <1>6, <1>7, <2>1, <2>2, ReadBlock
<1>10. PICK m2 \in {<<>>, <<Blank>>} : JoinStep(y, C) = y \o m2 \o C
  BY <1>1, <1>3, <1>9, JoinPad
<1>11. PICK z : z = y \o m2
  OBVIOUS
<1>12. /\ z \in Seq(Line(V)) /\ ~Reading(z).at.in /\ Reading(z).at.table \in Mine
       /\ Reading(z).kept = NonBlank(A) /\ Reading(z).tail = <<>>
  <2>1. Reading(y).at = Scanned(y)
    BY <1>9, ReadingAt
  <2>2. z \in Seq(Line(V)) /\ Scanned(z) = Scanned(y) /\ Reading(z).kept = Reading(y).kept
        /\ Reading(z).tail = Reading(y).tail
    BY <1>9, <1>11, <2>1, ScanPad
  <2>3. Reading(z).at = Scanned(z)
    BY <2>2, ReadingAt
  <2> QED  BY <1>9, <2>1, <2>2, <2>3, Zenon
<1>13. Others(z \o C) = NonBlank(A) \o NonBlank(C)
  <2>1. Others(z \o C) = Reading(z).kept \o NonBlank(C)
    BY <1>12, ReadAfter
  <2> QED  BY <2>1, <1>12, Zenon
<1>14. JoinStep(y, C) \in Seq(Line(V))
  BY <1>1, <1>9, JoinStepType
<1> QED  BY <1>8, <1>10, <1>11, <1>13, <1>14, Zenon

(* ---- what an accepted edit says about the strings of a text ---- *)

\* The lines of a file: no key is called as the model calls the value of a string, or a
\* server that is itself a key.
FileLines(V) == {l \in Line(V) : l.kind = "key" => l.key \notin {"text", "inline"}}

LEMMA FileLineIs ==
  ASSUME NEW V
  PROVE  /\ FileLines(V) \in SUBSET Line(V) /\ Blank \in FileLines(V)
         /\ Apart(FileLines(V)) \in SUBSET Apart(Line(V)) /\ Apart(Line(V)) \in SUBSET Line(V)
         /\ Apart(FileLines(V)) \in SUBSET Line(V)
BY BlankIsLine DEF FileLines, Apart, Blank

LEMMA SeqSub ==
  ASSUME NEW S, NEW T \in SUBSET S, NEW x \in Seq(T) PROVE x \in Seq(S)
OBVIOUS

LEMMA FactApart ==
  ASSUME NEW t, NEW k, NEW v, NEW x, NEW y, NEW z
  PROVE  /\ <<t>> # <<x, y, z>>
         /\ <<t, k, v>> = <<x, y, z>> <=> t = x /\ k = y /\ v = z
OBVIOUS

\* No string that is not the server's holds a line that looks like one of its headers.
Calm(st, V) ==
  /\ st.text \in Seq(Apart(Line(V)))
  /\ \A t, T : t \notin Mine /\ <<t, "text", T>> \in st.doc => T \in Seq(Apart(Line(V)))

LEMMA CalmStart == \A V : Calm(Scan0, V)
<1> SUFFICES ASSUME NEW V PROVE Calm(Scan0, V)
  OBVIOUS
<1>1. Scan0.text = <<>> /\ Scan0.doc = {}
  BY DEF Scan0
<1> QED  BY <1>1 DEF Calm

LEMMA CalmSet ==
  ASSUME NEW V, NEW st \in State(V), Calm(st, V), NEW k \in Name, NEW v \in Value(V),
         k # "text" \/ st.table \in Mine
  PROVE  Calm(Set(st, k, v), V) /\ ~Set(st, k, v).in
<1>1. CASE st.table = "mcp" /\ k = "me"
  <2>1. /\ Set(st, "me", v).text = <<>>
        /\ Set(st, "me", v).doc = st.doc \cup {<<"me", "inline", v>>} /\ ~Set(st, "me", v).in
    BY <1>1, SetInline DEF Is
  <2>2. \A t, T : <<t, "text", T>> # <<"me", "inline", v>>
    BY FactApart
  <2>3. PICK n : n = Set(st, k, v)
    OBVIOUS
  <2>4. n.text = <<>> /\ n.doc = st.doc \cup {<<"me", "inline", v>>} /\ ~n.in
    BY <1>1, <2>1, <2>3, Zenon
  <2>5. Calm(n, V)
    BY <2>2, <2>4 DEF Calm
  <2> QED  BY <2>3, <2>4, <2>5, Zenon
<1>2. CASE ~(st.table = "mcp" /\ k = "me")
  <2>1. /\ Set(st, k, v).text = <<>>
        /\ Set(st, k, v).doc = st.doc \cup {<<st.table, k, v>>} /\ ~Set(st, k, v).in
    BY <1>2, SetIs DEF Is
  <2>2. \A t, T : t \notin Mine => <<t, "text", T>> # <<st.table, k, v>>
    BY FactApart
  <2> QED  BY <2>1, <2>2 DEF Calm
<1> QED  BY <1>1, <1>2

LEMMA CalmStep ==
  ASSUME NEW V, NEW st \in State(V), Calm(st, V), NEW l \in Apart(FileLines(V))
  PROVE  Calm(Scan(st, l), V)
<1>1. l \in Line(V) /\ l \in Apart(Line(V)) /\ (l.kind = "key" => l.key # "text")
      /\ st.text \in Seq(Apart(Line(V)))
  BY DEF Apart, FileLines, Calm
<1>2. CASE st.in /\ l.kind # "close"
  <2>1. Scan(st, l).text = Append(st.text, l) /\ Scan(st, l).doc = st.doc
    BY <1>1, <1>2, ScanText DEF Is
  <2>2. Append(st.text, l) \in Seq(Apart(Line(V)))
    BY <1>1, AppendProperties
  <2> QED  BY <2>1, <2>2 DEF Calm
<1>3. CASE st.in /\ l.kind = "close"
  <2>1. Scan(st, l).text = <<>> /\ Scan(st, l).doc = st.doc \cup {<<st.table, "text", st.text>>}
    BY <1>1, <1>3, ScanClose DEF Is
  <2>2. \A t, T : <<t, "text", T>> = <<st.table, "text", st.text>> => T = st.text
    BY FactApart
  <2> QED  BY <1>1, <2>1, <2>2 DEF Calm
<1>4. CASE ~st.in /\ l.kind = "header"
  <2>1. Scan(st, l).text = st.text /\ Scan(st, l).doc = st.doc \cup {<<l.table>>}
    BY <1>1, <1>4, ScanHeader, ZenonT(30) DEF Is
  <2>2. \A t, T : <<t, "text", T>> # <<l.table>>
    BY FactApart
  <2> QED  BY <1>1, <2>1, <2>2 DEF Calm
<1>5. CASE ~st.in /\ l.kind = "key"
  <2>1. Scan(st, l) = Set(st, l.key, l.value) /\ l.key \in Name /\ l.value \in Value(V)
    BY <1>1, <1>5, ScanKey
  <2> QED  BY <1>1, <1>5, <2>1, CalmSet
<1>6. CASE ~st.in /\ l.kind = "open"
  BY <1>1, <1>6, ScanOpen DEF Is, Calm
<1>7. CASE ~st.in /\ l.kind = "close"
  BY <1>1, <1>7, ScanStray DEF Is, Calm
<1>8. CASE ~st.in /\ l.kind \in {"comment", "blank"}
  BY <1>1, <1>8, ScanRest
<1>9. l.kind \in {"header", "key", "open", "close", "comment", "blank"} /\ st.in \in BOOLEAN
  BY <1>1, LineKinds, StateFields
<1> QED  BY <1>2, <1>3, <1>4, <1>5, <1>6, <1>7, <1>8, <1>9

LEMMA CalmWritten ==
  ASSUME NEW V, NEW st \in State(V), Calm(st, V), ~st.in, NEW l \in Writes(V),
         st.table \in Mine \/ Target(l)
  PROVE  Calm(Scan(st, l), V) /\ ~Scan(st, l).in /\ Scan(st, l).table \in Mine
<1>1. l \in Line(V) /\ Written(l)
  BY DEF Writes
<1>2. ~Scan(st, l).in /\ Scan(st, l).table \in Mine
  BY <1>1, ScanControl DEF Written, Target, IsHeader
<1>3. CASE Target(l)
  <2>1. Scan(st, l).text = st.text /\ Scan(st, l).doc = st.doc \cup {<<l.table>>}
    <3>1. l.kind = "header"
      BY <1>3 DEF Target, IsHeader
    <3>2. Is(Scan(st, l), V, l.table, st.text, st.doc \cup {<<l.table>>})
      BY <1>1, <3>1, ScanHeader
    <3> QED  BY <3>2 DEF Is
  <2>2. \A t, T : <<t, "text", T>> # <<l.table>>
    BY FactApart
  <2> QED  BY <1>2, <2>1, <2>2 DEF Calm
<1>4. CASE ~Target(l) /\ l.kind = "key"
  <2>1. Scan(st, l) = Set(st, l.key, l.value) /\ l.key \in Name /\ l.value \in Value(V)
    BY <1>1, <1>4, ScanKey
  <2> QED  BY <1>2, <1>4, <2>1, CalmSet
<1>5. CASE l.kind = "blank"
  BY <1>1, <1>2, <1>5, ScanRest
<1> QED  BY <1>1, <1>3, <1>4, <1>5 DEF Written

\* The server is not in a document.
NoMe(st) == <<"me">> \notin st.doc

LEMMA NoMeStep ==
  ASSUME NEW V, NEW st \in State(V), NoMe(st), NEW l \in Line(V), ~Target(l)
  PROVE  NoMe(Scan(st, l))
<1>1. CASE st.in /\ l.kind # "close"
  BY <1>1, ScanText DEF Is, NoMe
<1>2. CASE st.in /\ l.kind = "close"
  <2>1. Scan(st, l).doc = st.doc \cup {<<st.table, "text", st.text>>}
    BY <1>2, ScanClose DEF Is
  <2>2. <<"me">> # <<st.table, "text", st.text>>
    BY FactApart
  <2> QED  BY <2>1, <2>2 DEF NoMe
<1>3. CASE ~st.in /\ l.kind = "header"
  <2>1. Scan(st, l).doc = st.doc \cup {<<l.table>>} /\ l.table # "me"
    BY <1>3, ScanHeader DEF Is, Target, IsHeader, Mine
  <2>2. <<l.table>> # <<"me">>
    BY <2>1
  <2> QED  BY <2>1, <2>2 DEF NoMe
<1>4. CASE ~st.in /\ l.kind = "key"
  <2>1. Scan(st, l) = Set(st, l.key, l.value) /\ l.key \in Name /\ l.value \in Value(V)
    BY <1>4, ScanKey
  <2>2. \A t, k, v : <<"me">> # <<t, k, v>>
    BY FactApart
  <2>3. CASE st.table = "mcp" /\ l.key = "me"
    <3>1. Scan(st, l).doc = st.doc \cup {<<"me", "inline", l.value>>}
      BY <2>1, <2>3, SetInline DEF Is
    <3> QED  BY <2>2, <3>1 DEF NoMe
  <2>4. CASE ~(st.table = "mcp" /\ l.key = "me")
    <3>1. Scan(st, l).doc = st.doc \cup {<<st.table, l.key, l.value>>}
      BY <2>1, <2>4, SetIs DEF Is
    <3> QED  BY <2>2, <3>1 DEF NoMe
  <2> QED  BY <2>3, <2>4
<1>5. CASE ~st.in /\ l.kind = "open"
  BY <1>5, ScanOpen DEF Is, NoMe
<1>6. CASE ~st.in /\ l.kind = "close"
  BY <1>6, ScanStray DEF Is, NoMe
<1>7. CASE ~st.in /\ l.kind \in {"comment", "blank"}
  BY <1>7, ScanRest
<1>8. l.kind \in {"header", "key", "open", "close", "comment", "blank"} /\ st.in \in BOOLEAN
  BY LineKinds, StateFields
<1> QED  BY <1>1, <1>2, <1>3, <1>4, <1>5, <1>6, <1>7, <1>8

\* A block that begins inside a string is part of that string.
LEMMA Swallowed ==
  ASSUME NEW V, NEW st \in State(V), NEW l \in Writes(V), st.in, NoMe(st)
  PROVE  Scan(st, l).in /\ NoMe(Scan(st, l))
<1>1. l \in Line(V) /\ l.kind # "close"
  BY DEF Writes, Written, Target, IsHeader
<1>2. Scan(st, l).in /\ Scan(st, l).doc = st.doc
  BY <1>1, ScanText DEF Is
<1> QED  BY <1>2 DEF NoMe

\* What every line keeps, a text keeps.
LEMMA ScanCarry ==
  ASSUME NEW V, NEW Q \in SUBSET Line(V), NEW P \in SUBSET State(V),
         \A st \in P, l \in Q : Scan(st, l) \in P,
         NEW x \in Seq(Line(V)), Scanned(x) \in P, NEW t \in Seq(Q)
  PROVE  Scanned(x \o t) \in P
<1> DEFINE G == {y \in Seq(Q) : Scanned(x \o y) \in P}
<1>1. <<>> \in G
  <2>1. x \o <<>> = x
    BY ConcatEmptySeq
  <2> QED  BY <2>1
<1>2. ASSUME NEW y \in Seq(Q), NEW l \in Q, y \in G PROVE Append(y, l) \in G
  <2>1. x \o Append(y, l) = Append(x \o y, l) /\ x \o y \in Seq(Line(V)) /\ l \in Line(V)
        /\ Append(y, l) \in Seq(Q)
    BY CatLast
  <2>2. Scanned(Append(x \o y, l)) = Scan(Scanned(x \o y), l)
    BY <2>1, ScannedAppend
  <2>3. Scan(Scanned(x \o y), l) \in P
    BY <1>2
  <2>4. Scanned(x \o Append(y, l)) \in P
    BY <2>1, <2>2, <2>3, Zenon
  <2> QED  BY <2>1, <2>4
<1> QED
  <2> HIDE DEF G
  <2>1. t \in G
    BY <1>1, <1>2, SeqInducts
  <2> QED  BY <2>1 DEF G

LEMMA ScanCarryAll ==
  ASSUME NEW V, NEW Q \in SUBSET Line(V), NEW P \in SUBSET State(V),
         \A st \in P, l \in Q : Scan(st, l) \in P, Scan0 \in P, NEW t \in Seq(Q)
  PROVE  Scanned(t) \in P /\ t \in Seq(Line(V))
<1>1. <<>> \in Seq(Line(V)) /\ Scanned(<<>>) \in P
  BY ScannedNone
<1>2. t \in Seq(Line(V))
  BY SeqSub
<1>3. <<>> \o t = t
  BY <1>2, ConcatEmptySeq
<1>4. Scanned(<<>> \o t) \in P
  BY <1>1, ScanCarry
<1> QED  BY <1>2, <1>3, <1>4, Zenon

CalmStates(V) == {st \in State(V) : Calm(st, V)}
MelessStates(V) == {st \in State(V) : NoMe(st)}

LEMMA CalmText ==
  ASSUME NEW V, NEW x \in Seq(Line(V)), Calm(Scanned(x), V), NEW t \in Seq(Apart(FileLines(V)))
  PROVE  Calm(Scanned(x \o t), V)
<1>1. CalmStates(V) \in SUBSET State(V) /\ Apart(FileLines(V)) \in SUBSET Line(V)
  BY FileLineIs DEF CalmStates
<1>2. \A st \in CalmStates(V), l \in Apart(FileLines(V)) : Scan(st, l) \in CalmStates(V)
  <2> TAKE st \in CalmStates(V), l \in Apart(FileLines(V))
  <2>1. l \in Line(V) /\ st \in State(V) /\ Calm(st, V)
    BY <1>1 DEF CalmStates
  <2>2. Calm(Scan(st, l), V)
    BY <2>1, CalmStep
  <2>3. Scan(st, l) \in State(V)
    BY <2>1, ScanType
  <2> QED  BY <2>2, <2>3 DEF CalmStates
<1>3. Scanned(x) \in CalmStates(V)
  BY ScannedType DEF CalmStates
<1>4. Scanned(x \o t) \in CalmStates(V)
  BY <1>1, <1>2, <1>3, ScanCarry
<1> QED  BY <1>4 DEF CalmStates

LEMMA MelessText ==
  ASSUME NEW V, NEW x \in Seq(Line(V)), NoMe(Scanned(x)), NEW t \in Seq(Apart(Line(V)))
  PROVE  NoMe(Scanned(x \o t))
<1>1. MelessStates(V) \in SUBSET State(V) /\ Apart(Line(V)) \in SUBSET Line(V)
  BY FileLineIs DEF MelessStates
<1>2. \A st \in MelessStates(V), l \in Apart(Line(V)) : Scan(st, l) \in MelessStates(V)
  <2> TAKE st \in MelessStates(V), l \in Apart(Line(V))
  <2>1. l \in Line(V) /\ ~Target(l) /\ st \in State(V) /\ NoMe(st)
    BY DEF Apart, MelessStates
  <2>2. NoMe(Scan(st, l))
    BY <2>1, NoMeStep
  <2>3. Scan(st, l) \in State(V)
    BY <2>1, ScanType
  <2> QED  BY <2>2, <2>3 DEF MelessStates
<1>3. Scanned(x) \in MelessStates(V)
  BY ScannedType DEF MelessStates
<1>4. Scanned(x \o t) \in MelessStates(V)
  BY <1>1, <1>2, <1>3, ScanCarry
<1> QED  BY <1>4 DEF MelessStates

LEMMA SwallowedText ==
  ASSUME NEW V, NEW x \in Seq(Line(V)), NoMe(Scanned(x)), Scanned(x).in, NEW t \in Seq(Writes(V))
  PROVE  NoMe(Scanned(x \o t))
<1> DEFINE P == {st \in State(V) : NoMe(st) /\ st.in}
<1>1. P \in SUBSET State(V) /\ Writes(V) \in SUBSET Line(V)
  BY DEF Writes
<1>2. \A st \in P, l \in Writes(V) : Scan(st, l) \in P
  <2> TAKE st \in P, l \in Writes(V)
  <2>1. l \in Line(V) /\ st \in State(V) /\ NoMe(st) /\ st.in
    BY <1>1
  <2>2. NoMe(Scan(st, l)) /\ Scan(st, l).in
    BY <2>1, Swallowed
  <2>3. Scan(st, l) \in State(V)
    BY <2>1, ScanType
  <2> QED  BY <2>2, <2>3
<1>3. Scanned(x) \in P
  BY ScannedType
<1>4. Scanned(x \o t) \in P
  <2> HIDE DEF P
  <2> QED  BY <1>1, <1>2, <1>3, ScanCarry
<1> QED  BY <1>4

LEMMA WrittenText ==
  ASSUME NEW V, NEW x \in Seq(Line(V)), Calm(Scanned(x), V), ~Scanned(x).in, NEW b, Block(b, V)
  PROVE  Calm(Scanned(x \o b), V) /\ ~Scanned(x \o b).in
<1>1. PICK t \in Seq(Writes(V)) : b = <<Header("me")>> \o t
  BY DEF Block
<1>2. /\ x \o b = Append(x, Header("me")) \o t
      /\ Append(x, Header("me")) \in Seq(Line(V)) /\ b \in Seq(Line(V))
  BY <1>1, BlockCat
<1>3. PICK h : h = Header("me")
  OBVIOUS
<1>4. h \in Line(V) /\ h \in Writes(V) /\ Target(h)
  BY <1>3, HeaderMe
<1> DEFINE P == {st \in State(V) : Calm(st, V) /\ ~st.in /\ st.table \in Mine}
<1>5. P \in SUBSET State(V) /\ Writes(V) \in SUBSET Line(V)
  BY DEF Writes
<1>6. \A st \in P, l \in Writes(V) : Scan(st, l) \in P
  <2> TAKE st \in P, l \in Writes(V)
  <2>1. l \in Line(V) /\ st \in State(V) /\ Calm(st, V) /\ ~st.in /\ st.table \in Mine
    BY <1>5
  <2>2. Calm(Scan(st, l), V) /\ ~Scan(st, l).in /\ Scan(st, l).table \in Mine
    BY <2>1, CalmWritten
  <2>3. Scan(st, l) \in State(V)
    BY <2>1, ScanType
  <2> QED  BY <2>2, <2>3
<1>7. Scanned(Append(x, h)) \in P
  <2>1. Scanned(Append(x, h)) = Scan(Scanned(x), h) /\ Scanned(x) \in State(V)
    BY <1>4, ScannedAppend
  <2>2. Calm(Scan(Scanned(x), h), V) /\ ~Scan(Scanned(x), h).in /\ Scan(Scanned(x), h).table \in Mine
    BY <1>4, <2>1, CalmWritten
  <2>3. Scan(Scanned(x), h) \in State(V)
    BY <1>4, <2>1, ScanType
  <2>4. Scan(Scanned(x), h) \in P
    BY <2>2, <2>3
  <2> QED  BY <2>1, <2>4, Zenon
<1>8. Scanned(Append(x, h) \o t) \in P
  <2>1. PICK y : y = Append(x, h)
    OBVIOUS
  <2>2. y \in Seq(Line(V)) /\ Scanned(y) \in P
    BY <1>2, <1>3, <1>7, <2>1
  <2> HIDE DEF P
  <2>3. Scanned(y \o t) \in P
    BY <1>5, <1>6, <2>2, ScanCarry
  <2> QED  BY <2>1, <2>3, Zenon
<1>9. Scanned(x \o b) \in P
  BY <1>2, <1>3, <1>8, Zenon
<1> QED  BY <1>9

\* If an edit puts the server into the document, then the block is outside of
\* every string, and no string holds a line that looks like a header of the server.
LEMMA EditCalm ==
  ASSUME NEW V, NEW A \in Seq(Apart(FileLines(V))), NEW C \in Seq(Apart(FileLines(V))),
         NEW b, Block(b, V), <<"me">> \in Decode(JoinStep(JoinStep(A, b), C))
  PROVE  /\ ~Scanned(A).in /\ Calm(Scanned(A), V)
         /\ Calm(Scanned(JoinStep(JoinStep(A, b), C)), V)
<1>1. /\ A \in Seq(Line(V)) /\ C \in Seq(Line(V)) /\ A \in Seq(Apart(Line(V))) /\ C \in Seq(Apart(Line(V)))
      /\ Blank \in Line(V)
  BY FileLineIs, SeqSub, BlankIsLine
<1>2. b \in Seq(Writes(V)) /\ b \in Seq(Line(V))
  BY BlockCat, <1>1 DEF Block
<1>3. /\ <<>> \in Seq(Line(V)) /\ <<>> \o A = A /\ Scanned(<<>>) = Scan0
      /\ Calm(Scan0, V) /\ NoMe(Scan0)
  <2>1. NoMe(Scan0)
    BY DEF NoMe, Scan0
  <2> QED  BY <1>1, <2>1, CalmStart, ScannedNone, ConcatEmptySeq
<1>4. Calm(Scanned(A), V) /\ NoMe(Scanned(A))
  <2>1. Calm(Scanned(<<>> \o A), V)
    BY <1>3, CalmText
  <2>2. NoMe(Scanned(<<>> \o A))
    BY <1>1, <1>3, MelessText
  <2> QED  BY <1>3, <2>1, <2>2, Zenon
<1>5. PICK m \in {<<>>, <<Blank>>} : JoinStep(A, b) = A \o m \o b
  BY <1>1, <1>2, JoinPad
<1>6. PICK x : x = A \o m
  OBVIOUS
<1>7. PICK y : y = JoinStep(A, b)
  OBVIOUS
<1>8. y = x \o b /\ y \in Seq(Line(V))
  <2>1. JoinStep(A, b) \in Seq(Line(V))
    BY <1>1, <1>2, JoinStepType
  <2> QED  BY <1>5, <1>6, <1>7, <2>1, Zenon
<1>9. PICK m2 \in {<<>>, <<Blank>>} : JoinStep(y, C) = y \o m2 \o C
  BY <1>1, <1>8, JoinPad
<1>10. PICK z : z = y \o m2
  OBVIOUS
<1>11. m \in Seq(Apart(FileLines(V))) /\ m2 \in Seq(Apart(FileLines(V)))
       /\ m \in Seq(Apart(Line(V))) /\ m2 \in Seq(Apart(Line(V))) /\ m \in Seq(Writes(V))
       /\ m \in Seq(Line(V)) /\ m2 \in Seq(Line(V))
  <2>1. Blank \in Apart(FileLines(V)) /\ Blank \in Apart(Line(V)) /\ Blank \in Writes(V)
    BY <1>1, FileLineIs, BlankApart DEF Writes, Written, Blank
  <2> QED  BY <1>1, <2>1, PadType
<1>12. x \in Seq(Line(V)) /\ z \in Seq(Line(V))
  BY <1>1, <1>6, <1>8, <1>10, <1>11, CatType
<1>13. ~Scanned(A).in
  <2> SUFFICES ASSUME Scanned(A).in PROVE FALSE
    OBVIOUS
  <2>1. m \o b \in Seq(Writes(V)) /\ y = A \o (m \o b)
    <3>1. m \o b \in Seq(Writes(V))
      BY <1>2, <1>11, CatType
    <3>2. A \o (m \o b) = (A \o m) \o b
      BY <1>1, <1>2, <1>11, CatAssoc, SMTT(30)
    <3> QED  BY <1>6, <1>8, <3>1, <3>2, Zenon
  <2>2. NoMe(Scanned(A \o (m \o b)))
    BY <1>1, <1>4, <2>1, SwallowedText
  <2>3. NoMe(Scanned(y))
    BY <2>1, <2>2, Zenon
  <2>4. NoMe(Scanned(y \o m2))
    BY <1>8, <1>11, <2>3, MelessText
  <2>5. NoMe(Scanned(z \o C))
    BY <1>1, <1>10, <1>12, <2>4, MelessText
  <2>6. NoMe(Scanned(JoinStep(JoinStep(A, b), C)))
    BY <1>7, <1>9, <1>10, <2>5, Zenon
  <2> QED  BY <2>6 DEF NoMe, Decode
<1>14. Calm(Scanned(x), V) /\ ~Scanned(x).in
  <2>1. Scanned(A \o m) = Scanned(A)
    BY <1>1, <1>13, ScanPad
  <2> QED  BY <1>4, <1>6, <1>13, <2>1, Zenon
<1>15. Calm(Scanned(y), V)
  <2>1. Calm(Scanned(x \o b), V)
    BY <1>12, <1>14, WrittenText
  <2> QED  BY <1>8, <2>1, Zenon
<1>16. Calm(Scanned(z), V)
  <2>1. Calm(Scanned(y \o m2), V)
    BY <1>8, <1>11, <1>15, CalmText
  <2> QED  BY <1>10, <2>1, Zenon
<1>17. Calm(Scanned(z \o C), V)
  BY <1>12, <1>16, CalmText
<1>18. Calm(Scanned(JoinStep(JoinStep(A, b), C)), V)
  BY <1>7, <1>9, <1>10, <1>17, Zenon
<1> QED  BY <1>4, <1>13, <1>18

\* No line of a string of the server's looks like a header.
Own1(st, l) == st.in /\ IsHeader(l) => st.table \notin Mine
OwnPlain(s) == \A i \in DOMAIN s : Own1(Before(s, i), s[i])

LEMMA OwnAppend ==
  ASSUME NEW V, NEW s \in Seq(Line(V)), NEW l \in Line(V)
  PROVE  OwnPlain(Append(s, l)) <=> OwnPlain(s) /\ Own1(Scanned(s), l)
<1>1. /\ \A i \in 1..Len(s) : Before(Append(s, l), i) = Before(s, i) /\ Append(s, l)[i] = s[i]
      /\ Before(Append(s, l), Len(s) + 1) = Scanned(s) /\ Append(s, l)[Len(s) + 1] = l
      /\ DOMAIN Append(s, l) = 1..Len(s) + 1 /\ DOMAIN s = 1..Len(s) /\ Len(s) \in Nat
  BY BeforeAppend
<1>2. (\A i \in 1..Len(s) + 1 : i \in 1..Len(s) \/ i = Len(s) + 1)
      /\ (\A i \in 1..Len(s) : i \in 1..Len(s) + 1) /\ Len(s) + 1 \in 1..Len(s) + 1
  BY <1>1
<1> QED  BY <1>1, <1>2, Zenon DEF OwnPlain

\* A string that holds what looks like a header of the server, read or being read.
Marked(st, V) ==
  \/ \E t, T : t \notin Mine /\ <<t, "text", T>> \in st.doc /\ T \notin Seq(Apart(Line(V)))
  \/ st.in /\ st.table \notin Mine /\ st.text \notin Seq(Apart(Line(V)))

LEMMA SeqLast ==
  ASSUME NEW S, NEW T, NEW x \in Seq(S), NEW e, Append(x, e) \in Seq(T)
  PROVE  x \in Seq(T) /\ e \in T
<1>1. Len(x) \in Nat /\ Len(Append(x, e)) = Len(x) + 1 /\ Append(x, e)[Len(x) + 1] = e
      /\ \A i \in 1..Len(x) : Append(x, e)[i] = x[i]
  OBVIOUS
<1>2. \A i \in 1..Len(x) + 1 : Append(x, e)[i] \in T
  <2>1. \A i \in 1..Len(Append(x, e)) : Append(x, e)[i] \in T
    OBVIOUS
  <2> QED  BY <1>1, <2>1
<1>3. e \in T /\ \A i \in 1..Len(x) : x[i] \in T
  BY <1>1, <1>2
<1> QED  BY <1>3

LEMMA MarkStep ==
  ASSUME NEW V, NEW st \in State(V), NEW l \in Line(V), Own1(st, l),
         Marked(st, V) \/ ~Plain1(st, l)
  PROVE  Marked(Scan(st, l), V)
<1>1. st.in \in BOOLEAN /\ st.text \in Seq(Line(V)) /\ st.doc \subseteq Scan(st, l).doc
  BY StateFields, ScanType
<1>2. CASE \E t, T : t \notin Mine /\ <<t, "text", T>> \in st.doc /\ T \notin Seq(Apart(Line(V)))
  BY <1>1, <1>2 DEF Marked
<1>3. CASE st.in /\ st.table \notin Mine /\ st.text \notin Seq(Apart(Line(V)))
  <2>1. CASE l.kind # "close"
    <3>1. Scan(st, l).in /\ Scan(st, l).table = st.table /\ Scan(st, l).text = Append(st.text, l)
      BY <1>3, <2>1, ScanText DEF Is
    <3>2. Append(st.text, l) \notin Seq(Apart(Line(V)))
      BY <1>1, <1>3, SeqLast
    <3> QED  BY <1>3, <3>1, <3>2 DEF Marked
  <2>2. CASE l.kind = "close"
    <3>1. <<st.table, "text", st.text>> \in Scan(st, l).doc
      BY <1>3, <2>2, ScanClose DEF Is
    <3> QED  BY <1>3, <3>1 DEF Marked
  <2> QED  BY <2>1, <2>2
<1>4. CASE ~Plain1(st, l)
  <2>1. st.in /\ IsHeader(l) /\ st.table \notin Mine /\ Target(l)
    BY <1>4 DEF Plain1, Own1
  <2>2. Scan(st, l).in /\ Scan(st, l).table = st.table /\ Scan(st, l).text = Append(st.text, l)
    BY <2>1, ScanText DEF Is, IsHeader
  <2>3. l \notin Apart(Line(V))
    BY <2>1 DEF Apart
  <2>4. Append(st.text, l) \notin Seq(Apart(Line(V)))
    BY <1>1, <2>3, SeqLast
  <2> QED  BY <2>1, <2>2, <2>4 DEF Marked
<1> QED  BY <1>2, <1>3, <1>4 DEF Marked

LEMMA ClearText ==
  ASSUME NEW V, NEW s \in Seq(Line(V)), OwnPlain(s), ~Marked(Scanned(s), V)
  PROVE  Clear(s)
<1> DEFINE G == {x \in Seq(Line(V)) : OwnPlain(x) => Clear(x) \/ Marked(Scanned(x), V)}
<1>1. <<>> \in G
  <2>1. Clear(<<>>)
    BY DEF Clear
  <2> QED  BY <2>1
<1>2. ASSUME NEW x \in Seq(Line(V)), NEW l \in Line(V), x \in G PROVE Append(x, l) \in G
  <2>1. Append(x, l) \in Seq(Line(V))
    BY AppendProperties
  <2> SUFFICES ASSUME OwnPlain(Append(x, l))
               PROVE  Clear(Append(x, l)) \/ Marked(Scanned(Append(x, l)), V)
    BY <2>1
  <2>2. OwnPlain(x) /\ Own1(Scanned(x), l)
    BY OwnAppend
  <2>3. Clear(x) \/ Marked(Scanned(x), V)
    BY <1>2, <2>2
  <2>4. Scanned(Append(x, l)) = Scan(Scanned(x), l) /\ Scanned(x) \in State(V)
    BY ScannedAppend
  <2>5. CASE Clear(x) /\ Plain1(Scanned(x), l)
    BY <2>5, ClearAppend
  <2>6. CASE Marked(Scanned(x), V) \/ ~Plain1(Scanned(x), l)
    <3>1. Marked(Scan(Scanned(x), l), V)
      BY <2>2, <2>4, <2>6, MarkStep
    <3> QED  BY <2>4, <3>1, Zenon
  <2> QED  BY <2>3, <2>5, <2>6
<1>3. s \in G
  <2> HIDE DEF G
  <2> QED  BY <1>1, <1>2, SeqInducts
<1> QED  BY <1>3

\* A guarded edit keeps what is not the server's.
LEMMA GuardSame ==
  ASSUME NEW L, NEW e, guardTOMLEdit(L, e), NEW t, NEW k, NEW v, t \notin Mine
  PROVE  <<t, k, v>> \in Decode(L) <=> <<t, k, v>> \in Decode(e)
<1>1. withoutServer(Decode(e)) = withoutServer(Decode(L))
  BY DEF guardTOMLEdit
<1>2. <<t, k, v>>[1] = t /\ <<t, k, v>> # <<"mcp">>
  OBVIOUS
<1>3. \A d : <<t, k, v>> \in d <=> <<t, k, v>> \in withoutServer(d)
  BY <1>2 DEF withoutServer, Entry
<1> QED  BY <1>1, <1>3, Zenon

LEMMA ClearIfGuarded ==
  ASSUME NEW V, NEW L \in Seq(Line(V)), NEW e, Valid(L), OwnPlain(L), guardTOMLEdit(L, e),
         Calm(Scanned(e), V)
  PROVE  Clear(L)
<1>1. ~Marked(Scanned(L), V)
  <2>1. ~Scanned(L).in
    BY DEF Valid
  <2>2. ASSUME NEW t, NEW T, t \notin Mine, <<t, "text", T>> \in Scanned(L).doc
        PROVE  T \in Seq(Apart(Line(V)))
    <3>1. <<t, "text", T>> \in Decode(e)
      BY <2>2, GuardSame DEF Decode
    <3> QED  BY <2>2, <3>1 DEF Calm, Decode
  <2> QED  BY <2>1, <2>2 DEF Marked
<1> QED  BY <1>1, ClearText

\* An accepted edit leaves every line that is not the server's, and removes the rest.
LEMMA UpsertKeeps ==
  ASSUME NEW V, NEW L \in Seq(FileLines(V)), NEW b, Block(b, V), Valid(L), OwnPlain(L),
         guardTOMLEdit(L, Assembled(L, b)), <<"me">> \in Decode(Assembled(L, b))
  PROVE  Others(Assembled(L, b)) = Others(L) /\ Clear(L) /\ Assembled(L, b) \in Seq(Line(V))
<1>1. FileLines(V) \in SUBSET Line(V) /\ Blank \in FileLines(V) /\ L \in Seq(Line(V))
  BY FileLineIs, SeqSub
<1>2. PICK A, C : Shape(L, A, C, FileLines(V), V)
  BY <1>1, AssembledShape
<1>3. /\ A \in Seq(Apart(FileLines(V))) /\ C \in Seq(Apart(FileLines(V))) /\ Quiet(C)
      /\ \A x \in Seq(Line(V)) : Assembled(L, x) = JoinStep(JoinStep(A, x), C)
  BY <1>2, Zenon DEF Shape
<1>4. b \in Seq(Line(V)) /\ <<>> \in Seq(Line(V))
  BY <1>1, BlockCat DEF Block
<1>5. Assembled(L, b) = JoinStep(JoinStep(A, b), C) /\ Assembled(L, <<>>) = JoinStep(A, C)
  <2>1. JoinStep(A, <<>>) = A
    BY JoinNothing
  <2> QED  BY <1>3, <1>4, <2>1, Zenon
<1>6. /\ ~Scanned(A).in /\ Calm(Scanned(Assembled(L, b)), V)
  <2>1. <<"me">> \in Decode(JoinStep(JoinStep(A, b), C))
    BY <1>5, Zenon
  <2>2. ~Scanned(A).in /\ Calm(Scanned(JoinStep(JoinStep(A, b), C)), V)
    BY <1>3, <2>1, EditCalm
  <2> QED  BY <1>5, <2>2, Zenon
<1>7. Clear(L)
  BY <1>1, <1>6, ClearIfGuarded
<1>8. NonBlank(Assembled(L, <<>>)) = Others(L)
  <2>1. ~Scanned(L).in
    BY DEF Valid
  <2> QED  BY <1>1, <1>7, <2>1, RemovalKeeps
<1>9. /\ A \in Seq(Apart(Line(V))) /\ C \in Seq(Apart(Line(V))) /\ A \in Seq(Line(V)) /\ C \in Seq(Line(V))
  BY <1>3, FileLineIs, SeqSub
<1>10. /\ JoinStep(JoinStep(A, b), C) \in Seq(Line(V))
       /\ Others(JoinStep(JoinStep(A, b), C)) = NonBlank(A) \o NonBlank(C)
  BY <1>3, <1>6, <1>9, ReadEdit
<1>11. NonBlank(JoinStep(A, C)) = NonBlank(A) \o NonBlank(C)
  BY <1>9, NonBlankJoin
<1> QED  BY <1>5, <1>7, <1>8, <1>10, <1>11, Zenon

LEMMA RemoveKeeps ==
  ASSUME NEW V, NEW L \in Seq(FileLines(V)), Valid(L), OwnPlain(L),
         guardTOMLEdit(L, Assembled(L, <<>>))
  PROVE  Others(Assembled(L, <<>>)) = Others(L) /\ Assembled(L, <<>>) \in Seq(Line(V))
<1>1. FileLines(V) \in SUBSET Line(V) /\ Blank \in FileLines(V) /\ L \in Seq(Line(V))
  BY FileLineIs, SeqSub
<1>2. PICK A, C : Shape(L, A, C, FileLines(V), V)
  BY <1>1, AssembledShape
<1>3. /\ A \in Seq(Apart(FileLines(V))) /\ C \in Seq(Apart(FileLines(V)))
      /\ \A x \in Seq(Line(V)) : Assembled(L, x) = JoinStep(JoinStep(A, x), C)
  BY <1>2, Zenon DEF Shape
<1>4. <<>> \in Seq(Line(V))
  OBVIOUS
<1>5. PICK e : e = Assembled(L, <<>>)
  OBVIOUS
<1>6. e \in Seq(Apart(FileLines(V)))
  <2>1. JoinStep(A, <<>>) = A
    BY JoinNothing
  <2>2. e = JoinStep(A, C)
    BY <1>3, <1>4, <1>5, <2>1, Zenon
  <2>3. Blank \in Apart(FileLines(V))
    BY <1>1, BlankApart
  <2> QED  BY <1>3, <2>2, <2>3, JoinIn
<1>7. e \in Seq(Apart(Line(V))) /\ e \in Seq(Line(V))
  BY <1>6, FileLineIs, SeqSub
<1>8. Calm(Scanned(e), V)
  <2>1. <<>> \in Seq(Line(V)) /\ <<>> \o e = e /\ Calm(Scanned(<<>>), V)
    BY <1>7, CalmStart, ScannedNone, ConcatEmptySeq
  <2>2. Calm(Scanned(<<>> \o e), V)
    BY <1>6, <2>1, CalmText
  <2> QED  BY <2>1, <2>2, Zenon
<1>9. guardTOMLEdit(L, e)
  BY <1>5, Zenon
<1>10. Clear(L) /\ ~Scanned(L).in
  BY <1>1, <1>8, <1>9, ClearIfGuarded DEF Valid
<1>11. NonBlank(Assembled(L, <<>>)) = Others(L)
  BY <1>1, <1>10, RemovalKeeps
<1>12. Others(e) = NonBlank(e)
  BY <1>7, ForeignOthers
<1> QED  BY <1>5, <1>7, <1>11, <1>12, Zenon

(* ---- line endings ---- *)

\* What a value sets.
InlineAt(st, k) == st.table = "mcp" /\ k = "me"
TableOf(st, k) == IF InlineAt(st, k) THEN "me" ELSE st.table
KeyOf(st, k) == IF InlineAt(st, k) THEN "inline" ELSE k

LEMMA SetInlineOk ==
  ASSUME NEW V, NEW st \in State(V), NEW v \in Value(V), st.table = "mcp"
  PROVE  Set(st, "me", v).ok <=>
           st.ok /\ ~Defined(st, "me", "inline") /\ \A m \in Mine : <<m>> \notin st.doc
<1> DEFINE d == st.doc \cup {<<"me", "inline", v>>}
           o == st.ok /\ ~(Defined(st, "me", "inline") \/ \E m \in Mine : <<m>> \in st.doc)
<1>1. Set(st, "me", v) = [st EXCEPT !.doc = d, !.ok = o, !.in = FALSE, !.text = <<>>]
  BY DEF Set
<1>2. d \in SUBSET Facts(V)
  <2>1. <<"me", "inline", v>> \in Facts(V)
    <3>1. "me" \in Name /\ "inline" \in Name
      BY DEF Name
    <3> QED  BY <3>1 DEF Facts
  <2> QED  BY <2>1, StateFields
<1>3. o \in BOOLEAN
  OBVIOUS
<1>5. o <=> st.ok /\ ~Defined(st, "me", "inline") /\ \A m \in Mine : <<m>> \notin st.doc
  OBVIOUS
<1> HIDE DEF d, o
<1>4. Set(st, "me", v).ok <=> o
  BY <1>1, <1>2, <1>3, SetChanged, Zenon
<1> QED  BY <1>4, <1>5, Zenon

LEMMA SetAny ==
  ASSUME NEW V, NEW st \in State(V), NEW k \in Name, NEW v \in Value(V)
  PROVE  /\ Is(Set(st, k, v), V, st.table, <<>>, st.doc \cup {<<TableOf(st, k), KeyOf(st, k), v>>})
         /\ ~Set(st, k, v).in
         /\ Set(st, k, v).ok <=>
              /\ st.ok /\ ~Defined(st, TableOf(st, k), KeyOf(st, k))
              /\ InlineAt(st, k) => \A m \in Mine : <<m>> \notin st.doc
<1>1. CASE InlineAt(st, k)
  <2>1. st.table = "mcp" /\ k = "me" /\ TableOf(st, k) = "me" /\ KeyOf(st, k) = "inline"
    BY <1>1 DEF InlineAt, TableOf, KeyOf
  <2>2. /\ Is(Set(st, "me", v), V, st.table, <<>>, st.doc \cup {<<"me", "inline", v>>})
        /\ ~Set(st, "me", v).in
    BY <2>1, SetInline
  <2>3. Set(st, "me", v).ok <=>
           st.ok /\ ~Defined(st, "me", "inline") /\ \A m \in Mine : <<m>> \notin st.doc
    BY <2>1, SetInlineOk
  <2> QED  BY <1>1, <2>1, <2>2, <2>3, Zenon
<1>2. CASE ~InlineAt(st, k)
  <2>1. TableOf(st, k) = st.table /\ KeyOf(st, k) = k
    BY <1>2 DEF TableOf, KeyOf
  <2>2. ~(st.table = "mcp" /\ k = "me")
    BY <1>2 DEF InlineAt
  <2>3. /\ Is(Set(st, k, v), V, st.table, <<>>, st.doc \cup {<<st.table, k, v>>})
        /\ ~Set(st, k, v).in
        /\ Set(st, k, v).ok <=> (st.ok /\ ~Defined(st, st.table, k))
    BY <2>2, SetIs
  <2> QED  BY <1>2, <2>1, <2>3, Zenon
<1> QED  BY <1>1, <1>2

\* Two states that differ in the text of strings.
Like(a, b) ==
  /\ a.table = b.table /\ a.in = b.in /\ a.ok = b.ok
  /\ \A t : <<t>> \in a.doc <=> <<t>> \in b.doc
  /\ \A t, k : Defined(a, t, k) <=> Defined(b, t, k)
  /\ \A t, k, v : k # "text" => (<<t, k, v>> \in a.doc <=> <<t, k, v>> \in b.doc)

\* Two lines that differ in how they end.
SameLine(l, m) ==
  /\ l.kind = m.kind
  /\ l.kind = "header" => l.table = m.table
  /\ l.kind = "key" => l.key = m.key /\ l.value = m.value

LEMMA DefinedTable ==
  ASSUME NEW V, NEW st \in State(V), NEW n \in State(V), NEW t, n.doc = st.doc \cup {<<t>>}
  PROVE  \A x, y : Defined(n, x, y) <=> Defined(st, x, y)
<1> TAKE x, y
<1>1. Defined(n, x, y) <=> \E z \in Value(V) : <<x, y, z>> \in n.doc
  BY DefinedIs
<1>2. Defined(st, x, y) <=> \E z \in Value(V) : <<x, y, z>> \in st.doc
  BY DefinedIs
<1>3. \A z : <<x, y, z>> \in n.doc <=> <<x, y, z>> \in st.doc
  BY FactApart
<1> QED  BY <1>1, <1>2, <1>3, Zenon

LEMMA DefinedSame ==
  ASSUME NEW V, NEW st \in State(V), NEW n \in State(V), n.doc = st.doc
  PROVE  \A x, y : Defined(n, x, y) <=> Defined(st, x, y)
BY DEF Defined

\* A state after a value.
LEMMA SetMore ==
  ASSUME NEW V, NEW st \in State(V), NEW k \in Name, NEW v \in Value(V), NEW n, n = Set(st, k, v),
         NEW t, t = TableOf(st, k), NEW c, c = KeyOf(st, k), NEW i, i = InlineAt(st, k)
  PROVE  /\ n \in State(V) /\ n.table = st.table /\ ~n.in /\ n.text = <<>>
         /\ n.doc = st.doc \cup {<<t, c, v>>}
         /\ n.ok <=> st.ok /\ ~Defined(st, t, c) /\ (i => \A m \in Mine : <<m>> \notin st.doc)
         /\ \A x, y : Defined(n, x, y) <=> Defined(st, x, y) \/ (x = t /\ y = c)
<1>1. /\ Is(Set(st, k, v), V, st.table, <<>>, st.doc \cup {<<TableOf(st, k), KeyOf(st, k), v>>})
      /\ ~Set(st, k, v).in
      /\ Set(st, k, v).ok <=>
            /\ st.ok /\ ~Defined(st, TableOf(st, k), KeyOf(st, k))
            /\ InlineAt(st, k) => \A m \in Mine : <<m>> \notin st.doc
  BY SetAny
<1>2. /\ n \in State(V) /\ n.table = st.table /\ ~n.in /\ n.text = <<>>
      /\ n.doc = st.doc \cup {<<t, c, v>>}
      /\ n.ok <=> st.ok /\ ~Defined(st, t, c) /\ (i => \A m \in Mine : <<m>> \notin st.doc)
  BY <1>1, Zenon DEF Is
<1>3. \A x, y : Defined(n, x, y) <=> Defined(st, x, y) \/ (x = t /\ y = c)
  <2>1. n \in State(V) /\ n.doc = st.doc \cup {<<t, c, v>>}
    BY <1>2
  <2> TAKE x, y
  <2>2. Defined(n, x, y) <=> \E z \in Value(V) : <<x, y, z>> \in n.doc
    BY <2>1, DefinedIs
  <2>3. Defined(st, x, y) <=> \E z \in Value(V) : <<x, y, z>> \in st.doc
    BY DefinedIs
  <2>4. \A z : <<x, y, z>> \in n.doc <=> <<x, y, z>> \in st.doc \/ (x = t /\ y = c /\ z = v)
    BY <2>1, FactApart
  <2> QED  BY <2>2, <2>3, <2>4, Zenon
<1> QED  BY <1>2, <1>3

LEMMA LikeSet ==
  ASSUME NEW V, NEW a \in State(V), NEW b \in State(V), Like(a, b),
         NEW k \in Name, NEW v \in Value(V), NEW u \in Value(V), k # "text" => v = u,
         NEW p, NEW q, p = Set(a, k, v), q = Set(b, k, u)
  PROVE  Like(p, q)
<1>1. /\ a.table = b.table /\ a.in = b.in /\ a.ok = b.ok
      /\ \A t : <<t>> \in a.doc <=> <<t>> \in b.doc
      /\ \A t, x : Defined(a, t, x) <=> Defined(b, t, x)
      /\ \A t, x, y : x # "text" => (<<t, x, y>> \in a.doc <=> <<t, x, y>> \in b.doc)
  BY Zenon DEF Like
<1>2. PICK t, c, i : t = TableOf(a, k) /\ c = KeyOf(a, k) /\ i = InlineAt(a, k)
  OBVIOUS
<1>3. t = TableOf(b, k) /\ c = KeyOf(b, k) /\ i = InlineAt(b, k)
  BY <1>1, <1>2 DEF TableOf, KeyOf, InlineAt
<1>4. /\ p \in State(V) /\ p.table = a.table /\ ~p.in /\ p.doc = a.doc \cup {<<t, c, v>>}
      /\ p.ok <=> a.ok /\ ~Defined(a, t, c) /\ (i => \A m \in Mine : <<m>> \notin a.doc)
      /\ \A x, y : Defined(p, x, y) <=> Defined(a, x, y) \/ (x = t /\ y = c)
  BY <1>2, SetMore
<1>5. /\ q \in State(V) /\ q.table = b.table /\ ~q.in /\ q.doc = b.doc \cup {<<t, c, u>>}
      /\ q.ok <=> b.ok /\ ~Defined(b, t, c) /\ (i => \A m \in Mine : <<m>> \notin b.doc)
      /\ \A x, y : Defined(q, x, y) <=> Defined(b, x, y) \/ (x = t /\ y = c)
  BY <1>3, SetMore
<1>6. p.in \in BOOLEAN /\ q.in \in BOOLEAN /\ p.ok \in BOOLEAN /\ q.ok \in BOOLEAN
  BY <1>4, <1>5, StateFields
<1>7. p.table = q.table /\ p.in = q.in /\ p.ok = q.ok
  <2>1. p.ok <=> q.ok
    BY <1>1, <1>4, <1>5, Zenon
  <2> QED  BY <1>1, <1>4, <1>5, <1>6, <2>1
<1>8. \A x : <<x>> \in p.doc <=> <<x>> \in q.doc
  <2>1. \A x : <<x>> # <<t, c, v>> /\ <<x>> # <<t, c, u>>
    BY FactApart
  <2>2. \A x : (<<x>> \in p.doc <=> <<x>> \in a.doc) /\ (<<x>> \in q.doc <=> <<x>> \in b.doc)
    BY <1>4, <1>5, <2>1
  <2> QED  BY <1>1, <2>2, Zenon
<1>9. \A x, y : Defined(p, x, y) <=> Defined(q, x, y)
  <2> QED  BY <1>1, <1>4, <1>5, Zenon
<1>10. \A x, y, z : y # "text" => (<<x, y, z>> \in p.doc <=> <<x, y, z>> \in q.doc)
  <2> SUFFICES ASSUME NEW x, NEW y, NEW z, y # "text"
               PROVE  <<x, y, z>> \in p.doc <=> <<x, y, z>> \in q.doc
    OBVIOUS
  <2>1. <<x, y, z>> \in p.doc <=> <<x, y, z>> \in a.doc \/ (x = t /\ y = c /\ z = v)
    BY <1>4, FactApart
  <2>2. <<x, y, z>> \in q.doc <=> <<x, y, z>> \in b.doc \/ (x = t /\ y = c /\ z = u)
    BY <1>5, FactApart
  <2>3. c = "text" \/ v = u
    <3>1. k = "text" => c = "text"
      BY <1>2 DEF KeyOf, InlineAt
    <3> QED  BY <3>1
  <2> QED  BY <1>1, <2>1, <2>2, <2>3
<1> QED  BY <1>7, <1>8, <1>9, <1>10, Zenon DEF Like

LEMMA HeaderStep ==
  ASSUME NEW V, NEW st \in State(V), NEW l \in Line(V), ~st.in, l.kind = "header",
         NEW t, t = l.table, NEW p, p = Scan(st, l)
  PROVE  /\ p \in State(V) /\ p.table = t /\ p.doc = st.doc \cup {<<t>>} /\ ~p.in /\ p.text = st.text
         /\ p.ok <=> (st.ok /\ ~(<<t>> \in st.doc \/ (t \in Mine /\ Defined(st, "me", "inline"))))
<1>1. /\ Is(Scan(st, l), V, l.table, st.text, st.doc \cup {<<l.table>>})
      /\ ~Scan(st, l).in
      /\ Scan(st, l).ok <=> (st.ok /\ ~(<<l.table>> \in st.doc
                                  \/ (l.table \in Mine /\ Defined(st, "me", "inline"))))
  BY ScanHeader
<1> QED  BY <1>1 DEF Is

LEMMA LikeStep ==
  ASSUME NEW V, NEW a \in State(V), NEW b \in State(V), Like(a, b),
         NEW l \in Line(V), NEW m \in Line(V), SameLine(l, m),
         NEW p, NEW q, p = Scan(a, l), q = Scan(b, m)
  PROVE  Like(p, q)
<1>1. /\ a.table = b.table /\ a.in = b.in /\ a.ok = b.ok
      /\ \A t : <<t>> \in a.doc <=> <<t>> \in b.doc
      /\ \A t, x : Defined(a, t, x) <=> Defined(b, t, x)
      /\ \A t, x, y : x # "text" => (<<t, x, y>> \in a.doc <=> <<t, x, y>> \in b.doc)
  BY Zenon DEF Like
<1>2. /\ l.kind = m.kind
      /\ l.kind = "header" => l.table = m.table
      /\ l.kind = "key" => l.key = m.key /\ l.value = m.value
  BY DEF SameLine
<1>3. /\ p \in State(V) /\ q \in State(V)
      /\ p.in \in BOOLEAN /\ q.in \in BOOLEAN /\ p.ok \in BOOLEAN /\ q.ok \in BOOLEAN
      /\ a.in \in BOOLEAN /\ b.in \in BOOLEAN /\ a.ok \in BOOLEAN /\ b.ok \in BOOLEAN
  <2>1. p \in State(V) /\ q \in State(V)
    BY ScanType
  <2> QED  BY <2>1, StateFields
<1> DEFINE Calm2 == p.table = a.table /\ q.table = b.table /\ p.doc = a.doc /\ q.doc = b.doc
                    /\ p.in = q.in /\ p.ok = q.ok
<1>4. ASSUME Calm2 PROVE Like(p, q)
  <2>1. \A x, y : Defined(p, x, y) <=> Defined(a, x, y)
    BY <1>3, <1>4, DefinedSame
  <2>2. \A x, y : Defined(q, x, y) <=> Defined(b, x, y)
    BY <1>3, <1>4, DefinedSame
  <2>3. \A x, y : Defined(p, x, y) <=> Defined(q, x, y)
    BY <1>1, <2>1, <2>2, Zenon
  <2>4. p.table = q.table /\ p.in = q.in /\ p.ok = q.ok
    BY <1>1, <1>4
  <2>5. \A t : <<t>> \in p.doc <=> <<t>> \in q.doc
    BY <1>1, <1>4, Zenon
  <2>6. \A t, x, y : x # "text" => (<<t, x, y>> \in p.doc <=> <<t, x, y>> \in q.doc)
    BY <1>1, <1>4, Zenon
  <2> QED  BY <2>3, <2>4, <2>5, <2>6, Zenon DEF Like
<1>5. CASE a.in /\ l.kind # "close"
  <2>1. Is(p, V, a.table, Append(a.text, l), a.doc) /\ p.in /\ (p.ok <=> a.ok)
    BY <1>5, ScanText
  <2>2. Is(q, V, b.table, Append(b.text, m), b.doc) /\ q.in /\ (q.ok <=> b.ok)
    BY <1>1, <1>2, <1>5, ScanText
  <2>3. Calm2
    BY <1>1, <1>3, <2>1, <2>2 DEF Is
  <2> QED  BY <1>4, <2>3
<1>6. CASE a.in /\ l.kind = "close"
  <2>1. a.text \in Value(V) /\ b.text \in Value(V) /\ "text" \in Name
    BY StateFields DEF Value, Name
  <2>2. p = Set(a, "text", a.text) /\ q = Set(b, "text", b.text)
    BY <1>1, <1>2, <1>6 DEF Scan
  <2> QED  BY <2>1, <2>2, LikeSet
<1>7. CASE ~a.in /\ l.kind = "header"
  <2>1. PICK t : t = l.table
    OBVIOUS
  <2>2. /\ p \in State(V) /\ p.table = t /\ p.doc = a.doc \cup {<<t>>} /\ ~p.in
        /\ p.ok <=> (a.ok /\ ~(<<t>> \in a.doc \/ (t \in Mine /\ Defined(a, "me", "inline"))))
    BY <1>7, <2>1, HeaderStep
  <2>3. /\ q \in State(V) /\ q.table = t /\ q.doc = b.doc \cup {<<t>>} /\ ~q.in
        /\ q.ok <=> (b.ok /\ ~(<<t>> \in b.doc \/ (t \in Mine /\ Defined(b, "me", "inline"))))
    <3>1. ~b.in /\ m.kind = "header" /\ m.table = t
      BY <1>1, <1>2, <1>7, <2>1
    <3> QED  BY <3>1, HeaderStep
  <2>4. p.ok <=> q.ok
    BY <1>1, <2>2, <2>3, Zenon
  <2>5. p.table = q.table /\ p.in = q.in /\ p.ok = q.ok /\ p.doc = a.doc \cup {<<t>>} /\ q.doc = b.doc \cup {<<t>>}
    BY <1>3, <2>2, <2>3, <2>4
  <2>6. \A x, y : Defined(p, x, y) <=> Defined(a, x, y)
    BY <1>3, <2>5, DefinedTable
  <2>7. \A x, y : Defined(q, x, y) <=> Defined(b, x, y)
    BY <1>3, <2>5, DefinedTable
  <2>8. \A x, y : Defined(p, x, y) <=> Defined(q, x, y)
    BY <1>1, <2>6, <2>7, Zenon
  <2>9. \A x : <<x>> \in p.doc <=> <<x>> \in q.doc
    BY <1>1, <2>5
  <2>10. \A x, y, z : y # "text" => (<<x, y, z>> \in p.doc <=> <<x, y, z>> \in q.doc)
    <3>1. \A x, y, z : <<x, y, z>> # <<t>>
      BY FactApart
    <3>2. \A x, y, z : (<<x, y, z>> \in p.doc <=> <<x, y, z>> \in a.doc)
                       /\ (<<x, y, z>> \in q.doc <=> <<x, y, z>> \in b.doc)
      BY <2>5, <3>1
    <3> QED  BY <1>1, <3>2, Zenon
  <2> QED  BY <2>5, <2>8, <2>9, <2>10, Zenon DEF Like
<1>8. CASE ~a.in /\ l.kind = "key"
  <2>1. p = Set(a, l.key, l.value) /\ l.key \in Name /\ l.value \in Value(V)
    BY <1>8, ScanKey
  <2>2. q = Set(b, m.key, m.value)
    BY <1>1, <1>2, <1>8, ScanKey
  <2>3. q = Set(b, l.key, l.value)
    BY <1>2, <1>8, <2>2
  <2> QED  BY <2>1, <2>3, LikeSet
<1>9. CASE ~a.in /\ l.kind = "open"
  <2>1. Is(p, V, a.table, a.text, a.doc) /\ p.in /\ (p.ok <=> a.ok)
    BY <1>9, ScanOpen
  <2>2. Is(q, V, b.table, b.text, b.doc) /\ q.in /\ (q.ok <=> b.ok)
    BY <1>1, <1>2, <1>9, ScanOpen
  <2>3. Calm2
    BY <1>1, <1>3, <2>1, <2>2 DEF Is
  <2> QED  BY <1>4, <2>3
<1>10. CASE ~a.in /\ l.kind = "close"
  <2>1. Is(p, V, a.table, a.text, a.doc) /\ ~p.in /\ ~p.ok
    BY <1>10, ScanStray
  <2>2. Is(q, V, b.table, b.text, b.doc) /\ ~q.in /\ ~q.ok
    BY <1>1, <1>2, <1>10, ScanStray
  <2>3. Calm2
    BY <1>1, <1>3, <2>1, <2>2 DEF Is
  <2> QED  BY <1>4, <2>3
<1>11. CASE ~a.in /\ l.kind \in {"comment", "blank"}
  <2>1. p = a /\ q = b
    BY <1>1, <1>2, <1>11, ScanRest
  <2> QED  BY <2>1
<1>12. l.kind \in {"header", "key", "open", "close", "comment", "blank"}
  BY LineKinds
<1> QED  BY <1>3, <1>5, <1>6, <1>7, <1>8, <1>9, <1>10, <1>11, <1>12

WithEol(l, e) == [l EXCEPT !.eol = e]
Endings(s, e) == [i \in DOMAIN s |-> WithEol(s[i], e)]

LEMMA EndingsIs == \A s : LF(s) = Endings(s, "lf") /\ CRLF(s) = Endings(s, "crlf")
BY DEF LF, CRLF, Endings, WithEol

LEMMA EndingType ==
  ASSUME NEW V, NEW l \in Line(V), NEW e \in Eols
  PROVE  /\ WithEol(l, e) \in Line(V) /\ WithEol(l, e).eol = e /\ SameLine(l, WithEol(l, e))
         /\ WithEol(l, e).kind = l.kind
         /\ l.eol = e => WithEol(l, e) = l
<1>1. CASE l \in [kind : {"header"}, table : Name, eol : Eols]
  BY <1>1 DEF WithEol, Line, SameLine
<1>2. CASE l \in [kind : {"key"}, key : Name, value : V, eol : Eols]
  BY <1>2 DEF WithEol, Line, SameLine
<1>3. CASE l \in [kind : {"open"}, key : {"text"}, eol : Eols]
  BY <1>3 DEF WithEol, Line, SameLine
<1>4. CASE l \in [kind : {"close", "comment", "blank"}, eol : Eols]
  BY <1>4 DEF WithEol, Line, SameLine
<1> QED  BY <1>1, <1>2, <1>3, <1>4 DEF Line

LEMMA EndingTwice == \A l, d, e : WithEol(WithEol(l, d), e) = WithEol(l, e)
BY DEF WithEol

LEMMA EndingsType ==
  ASSUME NEW V, NEW s \in Seq(Line(V)), NEW e \in Eols
  PROVE  /\ Endings(s, e) \in Seq(Line(V)) /\ Len(Endings(s, e)) = Len(s)
         /\ DOMAIN Endings(s, e) = DOMAIN s /\ DOMAIN s = 1..Len(s)
         /\ \A i \in 1..Len(s) : Endings(s, e)[i] = WithEol(s[i], e) /\ Endings(s, e)[i].eol = e
<1>1. \A i \in 1..Len(s) : s[i] \in Line(V)
  OBVIOUS
<1>2. \A i \in 1..Len(s) : WithEol(s[i], e) \in Line(V) /\ WithEol(s[i], e).eol = e
  BY <1>1, EndingType
<1>3. Endings(s, e) = [i \in 1..Len(s) |-> WithEol(s[i], e)] /\ DOMAIN s = 1..Len(s)
  BY DEF Endings
<1>4. Endings(s, e) \in [1..Len(s) -> Line(V)]
  BY <1>2, <1>3
<1>5. Endings(s, e) \in Seq(Line(V)) /\ Len(Endings(s, e)) = Len(s)
  BY <1>4
<1> QED  BY <1>2, <1>3, <1>5

LEMMA EndingsAppend ==
  ASSUME NEW V, NEW s \in Seq(Line(V)), NEW l \in Line(V), NEW e \in Eols
  PROVE  Endings(Append(s, l), e) = Append(Endings(s, e), WithEol(l, e))
<1>1. /\ Append(s, l) \in Seq(Line(V)) /\ Len(Append(s, l)) = Len(s) + 1 /\ Len(s) \in Nat
      /\ Append(s, l)[Len(s) + 1] = l /\ \A i \in 1..Len(s) : Append(s, l)[i] = s[i]
  BY AppendProperties
<1>2. PICK p, q : p = Endings(Append(s, l), e) /\ q = Endings(s, e)
  OBVIOUS
<1>3. /\ p \in Seq(Line(V)) /\ Len(p) = Len(s) + 1
      /\ \A i \in 1..Len(s) + 1 : p[i] = WithEol(Append(s, l)[i], e)
  <2>1. PICK m : m = Append(s, l)
    OBVIOUS
  <2>2. m \in Seq(Line(V)) /\ Len(m) = Len(s) + 1
    BY <1>1, <2>1
  <2>3. /\ Endings(m, e) \in Seq(Line(V)) /\ Len(Endings(m, e)) = Len(m)
        /\ \A i \in 1..Len(m) : Endings(m, e)[i] = WithEol(m[i], e)
    BY <2>2, EndingsType
  <2> QED  BY <1>2, <2>1, <2>2, <2>3
<1>4. /\ q \in Seq(Line(V)) /\ Len(q) = Len(s) /\ \A i \in 1..Len(s) : q[i] = WithEol(s[i], e)
  BY <1>2, EndingsType
<1>5. WithEol(l, e) \in Line(V)
  BY EndingType
<1>6. PICK k : k = WithEol(l, e)
  OBVIOUS
<1>7. /\ Append(q, k) \in Seq(Line(V)) /\ Len(Append(q, k)) = Len(s) + 1
      /\ Append(q, k)[Len(s) + 1] = k /\ \A i \in 1..Len(s) : Append(q, k)[i] = q[i]
  BY <1>1, <1>4, <1>5, <1>6, AppendProperties
<1>8. p[Len(s) + 1] = k
  BY <1>1, <1>3, <1>6
<1>9. \A i \in 1..Len(s) : p[i] = q[i]
  <2>1. \A i \in 1..Len(s) : i \in 1..Len(s) + 1
    BY <1>1
  <2> QED  BY <1>1, <1>3, <1>4, <2>1
<1>10. \A i \in 1..Len(s) + 1 : p[i] = Append(q, k)[i]
  <2>1. \A i \in 1..Len(s) + 1 : i \in 1..Len(s) \/ i = Len(s) + 1
    BY <1>1
  <2> QED  BY <1>7, <1>8, <1>9, <2>1
<1>11. p = Append(q, k)
  BY <1>1, <1>3, <1>7, <1>10
<1> QED  BY <1>2, <1>6, <1>11

\* How lines end makes no difference but in strings.
LEMMA LikeEndings ==
  ASSUME NEW V, NEW s \in Seq(Line(V)), NEW e \in Eols
  PROVE  Like(Scanned(s), Scanned(Endings(s, e)))
<1> DEFINE G == {x \in Seq(Line(V)) : Like(Scanned(x), Scanned(Endings(x, e)))}
<1>1. <<>> \in G
  <2>1. Endings(<<>>, e) = <<>>
    BY DEF Endings
  <2>2. Like(Scan0, Scan0)
    BY DEF Like
  <2> QED  BY <2>1, <2>2, ScannedNone
<1>2. ASSUME NEW x \in Seq(Line(V)), NEW l \in Line(V), x \in G PROVE Append(x, l) \in G
  <2>1. Append(x, l) \in Seq(Line(V))
    BY AppendProperties
  <2>2. PICK y, m : y = Endings(x, e) /\ m = WithEol(l, e)
    OBVIOUS
  <2>3. y \in Seq(Line(V)) /\ m \in Line(V) /\ SameLine(l, m)
    BY <2>2, EndingsType, EndingType
  <2>4. Scanned(Append(x, l)) = Scan(Scanned(x), l) /\ Scanned(x) \in State(V)
    BY ScannedAppend
  <2>5. Scanned(Append(y, m)) = Scan(Scanned(y), m) /\ Scanned(y) \in State(V)
    BY <2>3, ScannedAppend
  <2>6. Like(Scanned(x), Scanned(y))
    BY <1>2, <2>2
  <2>7. Like(Scanned(Append(x, l)), Scanned(Append(y, m)))
    BY <2>3, <2>4, <2>5, <2>6, LikeStep
  <2>8. Endings(Append(x, l), e) = Append(y, m)
    BY <2>2, EndingsAppend
  <2> QED  BY <2>1, <2>7, <2>8
<1> QED
  <2> HIDE DEF G
  <2>1. s \in G
    BY <1>1, <1>2, SeqInducts
  <2> QED  BY <2>1 DEF G

\* Lines that all end alike.
EndsIn(s, e) == \A i \in DOMAIN s : s[i].eol = e

LEMMA EndingsSame ==
  ASSUME NEW V, NEW s \in Seq(Line(V)), NEW e \in Eols, EndsIn(s, e)
  PROVE  Endings(s, e) = s
<1>1. /\ Endings(s, e) \in Seq(Line(V)) /\ Len(Endings(s, e)) = Len(s)
      /\ DOMAIN s = 1..Len(s)
      /\ \A i \in 1..Len(s) : Endings(s, e)[i] = WithEol(s[i], e)
  BY EndingsType
<1>2. \A i \in 1..Len(s) : s[i] \in Line(V) /\ s[i].eol = e
  BY <1>1 DEF EndsIn
<1>3. \A i \in 1..Len(s) : WithEol(s[i], e) = s[i]
  BY <1>2, EndingType
<1> QED  BY <1>1, <1>3

LEMMA EndingsTwice ==
  ASSUME NEW V, NEW s \in Seq(Line(V)), NEW d \in Eols, NEW e \in Eols
  PROVE  Endings(Endings(s, d), e) = Endings(s, e) /\ EndsIn(Endings(s, e), e)
<1>1. PICK y : y = Endings(s, d)
  OBVIOUS
<1>2. /\ y \in Seq(Line(V)) /\ Len(y) = Len(s) /\ DOMAIN s = 1..Len(s)
      /\ \A i \in 1..Len(s) : y[i] = WithEol(s[i], d)
  BY <1>1, EndingsType
<1>3. /\ Endings(y, e) \in Seq(Line(V)) /\ Len(Endings(y, e)) = Len(s)
      /\ \A i \in 1..Len(s) : Endings(y, e)[i] = WithEol(y[i], e)
  BY <1>2, EndingsType
<1>4. /\ Endings(s, e) \in Seq(Line(V)) /\ Len(Endings(s, e)) = Len(s)
      /\ DOMAIN Endings(s, e) = 1..Len(s)
      /\ \A i \in 1..Len(s) : Endings(s, e)[i] = WithEol(s[i], e) /\ Endings(s, e)[i].eol = e
  BY <1>2, EndingsType
<1>5. \A i \in 1..Len(s) : Endings(y, e)[i] = Endings(s, e)[i]
  BY <1>2, <1>3, <1>4, EndingTwice
<1>6. Endings(y, e) = Endings(s, e)
  BY <1>3, <1>4, <1>5
<1>7. EndsIn(Endings(s, e), e)
  BY <1>4 DEF EndsIn
<1> QED  BY <1>1, <1>6, <1>7

\* What a text and the same text with other line endings say.
LEMMA LikeValid ==
  ASSUME NEW V, NEW s \in Seq(Line(V)), NEW e \in Eols
  PROVE  /\ Valid(Endings(s, e)) <=> Valid(s)
         /\ Entry(Decode(Endings(s, e))) = {} <=> Entry(Decode(s)) = {}
         /\ \A t, k, v : k # "text" => (<<t, k, v>> \in Decode(Endings(s, e)) <=> <<t, k, v>> \in Decode(s))
<1>1. PICK a, b : a = Scanned(s) /\ b = Scanned(Endings(s, e))
  OBVIOUS
<1>2. /\ a.in = b.in /\ a.ok = b.ok
      /\ \A t : <<t>> \in a.doc <=> <<t>> \in b.doc
      /\ \A t, k : Defined(a, t, k) <=> Defined(b, t, k)
      /\ \A t, k, v : k # "text" => (<<t, k, v>> \in a.doc <=> <<t, k, v>> \in b.doc)
  <2>1. Like(a, b)
    BY <1>1, LikeEndings
  <2> QED  BY <2>1, Zenon DEF Like
<1>3. a \in State(V) /\ b \in State(V) /\ a.doc \subseteq Facts(V) /\ b.doc \subseteq Facts(V)
  <2>1. Endings(s, e) \in Seq(Line(V))
    BY EndingsType
  <2>2. a \in State(V) /\ b \in State(V)
    BY <1>1, <2>1, ScannedType
  <2> QED  BY <2>2, StateFields
<1>4. Valid(Endings(s, e)) <=> Valid(s)
  BY <1>1, <1>2 DEF Valid
<1>5. ASSUME NEW st \in State(V), st.doc \subseteq Facts(V)
      PROVE  Entry(st.doc) # {} <=>
               \E t \in Mine : <<t>> \in st.doc \/ \E k : Defined(st, t, k)
  <2>1. ASSUME NEW f \in st.doc, f[1] \in Mine
        PROVE  \E t \in Mine : <<t>> \in st.doc \/ \E k : Defined(st, t, k)
    <3>1. f \in Facts(V)
      BY <1>5, <2>1
    <3>2. CASE \E t \in Name : f = <<t>> /\ Len(f) = 1 /\ f[1] = t
      BY <2>1, <3>2
    <3>3. CASE \E t \in Name, k \in Name, v \in Value(V) :
                  f = <<t, k, v>> /\ Len(f) = 3 /\ f[1] = t /\ f[2] = k /\ f[3] = v
      <4>1. PICK t \in Name, k \in Name, v \in Value(V) : f = <<t, k, v>> /\ f[1] = t
        BY <3>3
      <4>2. t \in Mine /\ <<t, k, v>> \in st.doc
        BY <2>1, <4>1
      <4>3. Defined(st, t, k)
        BY <4>2, DefinedIs
      <4> QED  BY <4>2, <4>3
    <3> QED  BY <3>1, <3>2, <3>3, FactShapes
  <2>2. ASSUME NEW t \in Mine, <<t>> \in st.doc PROVE Entry(st.doc) # {}
    <3>1. <<t>>[1] = t
      OBVIOUS
    <3> QED  BY <2>2, <3>1 DEF Entry
  <2>3. ASSUME NEW t \in Mine, NEW k, Defined(st, t, k) PROVE Entry(st.doc) # {}
    <3>1. PICK v \in Value(V) : <<t, k, v>> \in st.doc
      BY <2>3, DefinedIs
    <3>2. <<t, k, v>>[1] = t
      OBVIOUS
    <3> QED  BY <3>1, <3>2 DEF Entry
  <2>4. Entry(st.doc) # {} => \E f \in st.doc : f[1] \in Mine
    BY DEF Entry
  <2> QED  BY <2>1, <2>2, <2>3, <2>4
<1>6. Entry(b.doc) = {} <=> Entry(a.doc) = {}
  <2>1. Entry(a.doc) # {} <=> \E t \in Mine : <<t>> \in a.doc \/ \E k : Defined(a, t, k)
    BY <1>3, <1>5
  <2>2. Entry(b.doc) # {} <=> \E t \in Mine : <<t>> \in b.doc \/ \E k : Defined(b, t, k)
    BY <1>3, <1>5
  <2> QED  BY <1>2, <2>1, <2>2
<1> QED  BY <1>1, <1>2, <1>4, <1>6 DEF Decode

(* ---- the server as it is written ---- *)

\* A step of the decoder adds at most one fact.
Grown(a, b) == \E x : b.doc = a.doc \/ b.doc = a.doc \cup {x}
LEMMA ScanGrows ==
  ASSUME NEW V, NEW st \in State(V), NEW l \in Line(V)
  PROVE  Grown(st, Scan(st, l))
<1> SUFFICES \E x : Scan(st, l).doc = st.doc \/ Scan(st, l).doc = st.doc \cup {x}
  BY DEF Grown
<1>1. l.kind \in {"header", "key", "open", "close", "comment", "blank"}
  BY LineKinds
<1>2. CASE st.in /\ l.kind # "close"
  <2>1. Is(Scan(st, l), V, st.table, Append(st.text, l), st.doc)
    BY <1>2, ScanText
  <2> QED  BY <2>1 DEF Is
<1>3. CASE st.in /\ l.kind = "close"
  <2>1. Is(Scan(st, l), V, st.table, <<>>, st.doc \cup {<<st.table, "text", st.text>>})
    BY <1>3, ScanClose
  <2> QED  BY <2>1 DEF Is
<1>4. CASE ~st.in /\ l.kind = "header"
  <2>1. Scan(st, l).doc = st.doc \cup {<<l.table>>}
    BY <1>4, ScanHeader DEF Is
  <2> QED  BY <2>1
<1>5. CASE ~st.in /\ l.kind = "key"
  <2>1. Scan(st, l) = Set(st, l.key, l.value) /\ l.key \in Name /\ l.value \in Value(V)
    BY <1>5, ScanKey
  <2>2. PICK k, v : k = l.key /\ v = l.value
    OBVIOUS
  <2>3. Set(st, k, v).doc = st.doc \cup {<<TableOf(st, k), KeyOf(st, k), v>>}
    BY <2>1, <2>2, SetAny DEF Is
  <2>4. Scan(st, l).doc = st.doc \cup {<<TableOf(st, k), KeyOf(st, k), v>>}
    BY <2>1, <2>2, <2>3
  <2> QED  BY <2>4
<1>6. CASE ~st.in /\ l.kind = "open"
  <2>1. Is(Scan(st, l), V, st.table, st.text, st.doc)
    BY <1>6, ScanOpen
  <2> QED  BY <2>1 DEF Is
<1>7. CASE ~st.in /\ l.kind = "close"
  <2>1. Is(Scan(st, l), V, st.table, st.text, st.doc)
    BY <1>7, ScanStray
  <2> QED  BY <2>1 DEF Is
<1>8. CASE ~st.in /\ l.kind \in {"comment", "blank"}
  BY <1>8, ScanRest
<1> QED  BY <1>1, <1>2, <1>3, <1>4, <1>5, <1>6, <1>7, <1>8

LEMMA DocFinite ==
  ASSUME NEW V, NEW s \in Seq(Line(V))
  PROVE  IsFiniteSet(Decode(s))
<1> DEFINE G == {x \in Seq(Line(V)) : IsFiniteSet(Decode(x))}
<1>1. <<>> \in G
  <2>1. Decode(<<>>) = {}
    BY ScannedNone DEF Decode, Scan0
  <2> QED  BY <2>1, FS_EmptySet
<1>2. ASSUME NEW x \in Seq(Line(V)), NEW l \in Line(V), x \in G PROVE Append(x, l) \in G
  <2>1. Scanned(Append(x, l)) = Scan(Scanned(x), l) /\ Scanned(x) \in State(V)
    BY ScannedAppend
  <2>7. PICK st \in State(V) : st = Scanned(x)
    BY <2>1
  <2>9. Grown(st, Scan(st, l))
    BY ScanGrows
  <2>8. PICK e : Scan(st, l).doc = st.doc \/ Scan(st, l).doc = st.doc \cup {e}
    BY <2>9 DEF Grown
  <2>5. Scan(Scanned(x), l).doc = Scanned(x).doc \/ Scan(Scanned(x), l).doc = Scanned(x).doc \cup {e}
    BY <2>7, <2>8, Zenon
  <2>2. Decode(Append(x, l)) = Decode(x) \/ Decode(Append(x, l)) = Decode(x) \cup {e}
    BY <2>1, <2>5 DEF Decode
  <2>3. IsFiniteSet(Decode(x))
    BY <1>2
  <2>4. IsFiniteSet(Decode(x) \cup {e})
    BY <2>3, FS_AddElement
  <2>6. Append(x, l) \in Seq(Line(V))
    OBVIOUS
  <2> QED  BY <2>2, <2>3, <2>4, <2>6
<1> HIDE DEF G
<1>3. Seq(Line(V)) \subseteq G
  BY <1>1, <1>2, SeqInducts
<1> QED  BY <1>3 DEF G

\* The elements of a finite set in some order, each once.
Once(q) == \A i, j \in DOMAIN q : q[i] = q[j] => i = j
LEMMA SetToSeqIs ==
  ASSUME NEW S, IsFiniteSet(S), NEW q, q = SetToSeq(S)
  PROVE  /\ q \in Seq(S) /\ Once(q)
         /\ \A e \in S : \E i \in DOMAIN q : q[i] = e
<1> DEFINE n == Cardinality(S)
<1>1. n \in Nat /\ ExistsBijection(1..n, S)
  BY FS_CardinalityType
<1>2. PICK f : f \in Bijection(1..n, S)
  BY <1>1 DEF ExistsBijection
<1>3. f \in [1..n -> S] /\ IsInjective(f)
  BY <1>2 DEF Bijection, Injection
<1>4. q \in [1..n -> S] /\ IsInjective(q)
  BY <1>3 DEF SetToSeq
<1>5. q \in Injection(1..n, S)
  BY <1>4 DEF Injection
<1>6. Cardinality(S) = n
  OBVIOUS
<1>7. IsFiniteSet(1..n) /\ Cardinality(1..n) = n
  BY <1>1, FS_Interval
<1> HIDE DEF n
<1>8. q \in Surjection(1..n, S)
  BY <1>5, <1>6, <1>7, FS_Injection
<1>9. \A e \in S : \E i \in 1..n : q[i] = e
  BY <1>8 DEF Surjection
<1>10. q \in Seq(S)
  BY <1>1, <1>4
<1>11. DOMAIN q = 1..n
  BY <1>4
<1> QED  BY <1>4, <1>9, <1>10, <1>11 DEF IsInjective, Once

\* The lines that facts are written as.
Lines(q) == [i \in DOMAIN q |-> Key(q[i][2], q[i][3])]
Triples(V) == Name \X Name \X Value(V)
LEMMA KeyIs ==
  ASSUME NEW V, NEW n \in Name, NEW v \in Value(V)
  PROVE  /\ Key(n, v) \in Line(Value(V)) /\ Key(n, v) \in Writes(Value(V))
         /\ Key(n, v).kind = "key" /\ Key(n, v).key = n /\ Key(n, v).value = v
         /\ Key(n, v).eol = "lf"
<1>1. Key(n, v) \in [kind : {"key"}, key : Name, value : Value(V), eol : Eols]
  BY DEF Key, Eols
<1>2. Key(n, v).kind = "key" /\ Key(n, v).key = n /\ Key(n, v).value = v /\ Key(n, v).eol = "lf"
  BY DEF Key
<1> QED  BY <1>1, <1>2 DEF Line, Writes, Written
LEMMA LinesType ==
  ASSUME NEW V, NEW q \in Seq(Triples(V))
  PROVE  /\ Lines(q) \in Seq(Writes(Value(V))) /\ Len(Lines(q)) = Len(q)
         /\ \A i \in 1..Len(q) : Lines(q)[i] = Key(q[i][2], q[i][3])
<1>1. DOMAIN q = 1..Len(q) /\ Len(q) \in Nat
  OBVIOUS
<1>2. \A i \in 1..Len(q) : Key(q[i][2], q[i][3]) \in Writes(Value(V))
  <2>1. ASSUME NEW i \in 1..Len(q) PROVE Key(q[i][2], q[i][3]) \in Writes(Value(V))
    <3>1. q[i] \in Triples(V)
      OBVIOUS
    <3>2. q[i][2] \in Name /\ q[i][3] \in Value(V)
      BY <3>1 DEF Triples
    <3> QED  BY <3>2, KeyIs
  <2> QED  BY <2>1
<1>3. Lines(q) \in [1..Len(q) -> Writes(Value(V))]
  BY <1>1, <1>2 DEF Lines
<1>4. \A i \in 1..Len(q) : Lines(q)[i] = Key(q[i][2], q[i][3])
  BY <1>1 DEF Lines
<1> QED  BY <1>1, <1>3, <1>4
LEMMA KeysIs ==
  ASSUME NEW V, NEW F, F \subseteq Triples(V), IsFiniteSet(F)
  PROVE  \E q \in Seq(Triples(V)) :
           /\ Keys(F) = Lines(q) /\ Once(q) /\ q \in Seq(F)
           /\ \A e \in F : \E i \in DOMAIN q : q[i] = e
<1>1. PICK q : q = SetToSeq(F)
  OBVIOUS
<1>2. q \in Seq(F) /\ Once(q) /\ \A e \in F : \E i \in DOMAIN q : q[i] = e
  BY <1>1, SetToSeqIs
<1>3. F \in SUBSET Triples(V)
  OBVIOUS
<1>4. q \in Seq(Triples(V))
  BY <1>2, <1>3, SeqSub
<1>5. Keys(F) = Lines(q)
  BY <1>1 DEF Keys, Lines
<1> QED  BY <1>2, <1>4, <1>5

\* The facts of one of the server's tables.
Servers(V) == {F \in SUBSET Facts(V) : IsFiniteSet(F) /\ \A f \in F : f[1] \in Mine}
FactsOf(F, t) == {f \in F : Len(f) = 3 /\ f[1] = t}
CommandOf(F, t) == {f \in FactsOf(F, t) : f[2] = "command"}
LEMMA FactsOfIs ==
  ASSUME NEW V, NEW F \in Servers(V), NEW t
  PROVE  /\ FactsOf(F, t) \subseteq Triples(V) /\ IsFiniteSet(FactsOf(F, t))
         /\ \A f \in FactsOf(F, t) : f \in F /\ f[1] = t /\ f = <<t, f[2], f[3]>>
         /\ CommandOf(F, t) \subseteq Triples(V) /\ IsFiniteSet(CommandOf(F, t))
         /\ FactsOf(F, t) \ CommandOf(F, t) \subseteq Triples(V)
         /\ IsFiniteSet(FactsOf(F, t) \ CommandOf(F, t))
<1>1. F \subseteq Facts(V) /\ IsFiniteSet(F)
  BY DEF Servers
<1>2. ASSUME NEW f \in FactsOf(F, t)
      PROVE  f \in Triples(V) /\ f \in F /\ f[1] = t /\ f = <<t, f[2], f[3]>>
  <2>1. f \in F /\ Len(f) = 3 /\ f[1] = t /\ f \in Facts(V)
    BY <1>1, <1>2 DEF FactsOf
  <2>2. \/ \E u \in Name : f = <<u>> /\ Len(f) = 1 /\ f[1] = u
        \/ \E u \in Name, k \in Name, v \in Value(V) :
              f = <<u, k, v>> /\ Len(f) = 3 /\ f[1] = u /\ f[2] = k /\ f[3] = v
    BY <2>1, FactShapes
  <2>3. PICK u \in Name, k \in Name, v \in Value(V) :
              f = <<u, k, v>> /\ f[1] = u /\ f[2] = k /\ f[3] = v
    BY <2>1, <2>2
  <2>4. f \in Triples(V)
    BY <2>3 DEF Triples
  <2> QED  BY <2>1, <2>3, <2>4
<1>3. FactsOf(F, t) \subseteq F /\ CommandOf(F, t) \subseteq FactsOf(F, t)
  BY DEF FactsOf, CommandOf
<1>4. /\ IsFiniteSet(FactsOf(F, t)) /\ IsFiniteSet(CommandOf(F, t))
      /\ IsFiniteSet(FactsOf(F, t) \ CommandOf(F, t))
  <2>1. IsFiniteSet(FactsOf(F, t))
    BY <1>1, <1>3, FS_Subset
  <2>2. IsFiniteSet(CommandOf(F, t))
    BY <2>1, <1>3, FS_Subset
  <2>3. FactsOf(F, t) \ CommandOf(F, t) \subseteq FactsOf(F, t)
    OBVIOUS
  <2>4. IsFiniteSet(FactsOf(F, t) \ CommandOf(F, t))
    BY <2>1, <2>3, FS_Subset
  <2> QED  BY <2>1, <2>2, <2>4
<1> QED  BY <1>2, <1>3, <1>4

\* A table of the server is a header and two runs of keys.
TableBy(T, F, t, p, q, V) ==
  /\ p \in Seq(Triples(V)) /\ q \in Seq(Triples(V)) /\ Once(p) /\ Once(q)
  /\ p \in Seq(CommandOf(F, t)) /\ q \in Seq(FactsOf(F, t) \ CommandOf(F, t))
  /\ \A e \in CommandOf(F, t) : \E i \in DOMAIN p : p[i] = e
  /\ \A e \in FactsOf(F, t) \ CommandOf(F, t) : \E i \in DOMAIN q : q[i] = e
  /\ T = (<<Header(t)>> \o Lines(p)) \o Lines(q)
LEMMA TableIs ==
  ASSUME NEW V, NEW F \in Servers(V), NEW t
  PROVE  \E p, q : TableBy(Table(F, t), F, t, p, q, V)
<1>1. PICK C, R : C = CommandOf(F, t) /\ R = FactsOf(F, t) \ CommandOf(F, t)
  OBVIOUS
<1>2. C \subseteq Triples(V) /\ IsFiniteSet(C) /\ R \subseteq Triples(V) /\ IsFiniteSet(R)
  BY <1>1, FactsOfIs
<1>3. PICK p \in Seq(Triples(V)) : /\ Keys(C) = Lines(p) /\ Once(p) /\ p \in Seq(C)
                                   /\ \A e \in C : \E i \in DOMAIN p : p[i] = e
  BY <1>2, KeysIs
<1>4. PICK q \in Seq(Triples(V)) : /\ Keys(R) = Lines(q) /\ Once(q) /\ q \in Seq(R)
                                   /\ \A e \in R : \E i \in DOMAIN q : q[i] = e
  BY <1>2, KeysIs
<1>5. Table(F, t) = (<<Header(t)>> \o Keys(C)) \o Keys(R)
  <2>1. Table(F, t) = (<<Header(t)>> \o Keys(CommandOf(F, t))) \o Keys(FactsOf(F, t) \ CommandOf(F, t))
    BY Zenon DEF Table, FactsOf, CommandOf
  <2> QED  BY <2>1, <1>1
<1> QED  BY <1>1, <1>3, <1>4, <1>5, Zenon DEF TableBy

LEMMA HeaderWrites ==
  ASSUME NEW V, NEW t \in Mine
  PROVE  Header(t) \in Line(V) /\ Header(t) \in Writes(V) /\ Target(Header(t)) /\ t \in Name
         /\ Header(t).kind = "header" /\ Header(t).table = t /\ Header(t).eol = "lf"
<1>1. t \in Name
  BY DEF Mine, Name
<1>2. Header(t) \in [kind : {"header"}, table : Name, eol : Eols]
  BY <1>1 DEF Header, Eols
<1>3. Header(t).kind = "header" /\ Header(t).table = t /\ Header(t).eol = "lf"
  BY DEF Header
<1> QED  BY <1>1, <1>2, <1>3 DEF Line, Target, IsHeader, Writes, Written
LEMMA TableWrites ==
  ASSUME NEW V, NEW F \in Servers(V), NEW t \in Mine
  PROVE  \E r \in Seq(Writes(Value(V))) : Table(F, t) = <<Header(t)>> \o r
<1>1. PICK p, q : TableBy(Table(F, t), F, t, p, q, V)
  BY TableIs
<1>2. p \in Seq(Triples(V)) /\ q \in Seq(Triples(V)) /\ Table(F, t) = (<<Header(t)>> \o Lines(p)) \o Lines(q)
  BY <1>1, Zenon DEF TableBy
<1>3. PICK a \in Seq(Writes(Value(V))), b \in Seq(Writes(Value(V))) : a = Lines(p) /\ b = Lines(q)
  BY <1>2, LinesType
<1>4. Header(t) \in Writes(Value(V))
  BY HeaderWrites
<1>5. <<Header(t)>> \in Seq(Writes(Value(V)))
  BY <1>4
<1>6. <<Header(t)>> \o (a \o b) = (<<Header(t)>> \o a) \o b
  BY <1>5, CatAssoc
<1>7. a \o b \in Seq(Writes(Value(V)))
  BY CatType
<1>8. Table(F, t) = (<<Header(t)>> \o a) \o b
  BY <1>2, <1>3, Zenon
<1> QED  BY <1>6, <1>7, <1>8
\* The server is written as a header and what may follow it.
LEMMA RenderBlock ==
  ASSUME NEW V, NEW F \in Servers(V)
  PROVE  Block(renderTOMLServer(F), Value(V)) /\ renderTOMLServer(F) \in Seq(Writes(Value(V)))
<1> DEFINE W == Value(V)
<1>1. "me" \in Mine /\ "me.sub" \in Mine
  BY DEF Mine
<1>2. PICK r \in Seq(Writes(W)) : Table(F, "me") = <<Header("me")>> \o r
  BY <1>1, TableWrites
<1>3. PICK s \in Seq(Writes(W)) : Table(F, "me.sub") = <<Header("me.sub")>> \o s
  BY <1>1, TableWrites
<1>4. Header("me") \in Writes(W) /\ Header("me.sub") \in Writes(W)
  BY <1>1, HeaderWrites
<1>5. Blank \in Writes(W)
  <2>1. Blank \in Line(W)
    BY BlankIsLine
  <2> QED  BY <2>1 DEF Writes, Written, Blank
<1> HIDE DEF W
<1>6. /\ <<Header("me")>> \in Seq(Writes(W)) /\ <<Header("me.sub")>> \in Seq(Writes(W))
      /\ <<Blank>> \in Seq(Writes(W))
  BY <1>4, <1>5
<1>7. PICK u \in Seq(Writes(W)) : u = <<Header("me.sub")>> \o s
  BY <1>6, CatType
<1>8. PICK x \in Seq(Writes(W)) : x = <<Blank>> \o u
  BY <1>6, CatType
<1>9. PICK e \in Seq(Writes(W)) : e = IF \E f \in F : f[1] = "me.sub" THEN x ELSE <<>>
  <2>1. <<>> \in Seq(Writes(W))
    OBVIOUS
  <2> QED  BY <2>1
<1>10. renderTOMLServer(F) = (<<Header("me")>> \o r) \o e
  <2>1. renderTOMLServer(F) = Table(F, "me") \o (IF \E f \in F : f[1] = "me.sub"
                         THEN <<Blank>> \o Table(F, "me.sub") ELSE <<>>)
    BY Zenon DEF renderTOMLServer
  <2> QED  BY <1>2, <1>3, <1>7, <1>8, <1>9, <2>1, Zenon
<1>11. <<Header("me")>> \o (r \o e) = (<<Header("me")>> \o r) \o e
  BY <1>6, CatAssoc
<1>12. r \o e \in Seq(Writes(W))
  BY CatType
<1>13. renderTOMLServer(F) = <<Header("me")>> \o (r \o e)
  BY <1>10, <1>11, Zenon
<1>14. Block(renderTOMLServer(F), W)
  BY <1>12, <1>13 DEF Block
<1>15. renderTOMLServer(F) \in Seq(Writes(W))
  BY <1>6, <1>12, <1>13, CatType
<1> QED  BY <1>14, <1>15 DEF W

\* The entry of a text, and the entry as an edit writes it.
LEMMA EntryIs ==
  ASSUME NEW V, NEW s \in Seq(Line(V))
  PROVE  Entry(Decode(s)) \in Servers(V) /\ Decode(s) \subseteq Facts(V)
<1>1. IsFiniteSet(Decode(s))
  BY DocFinite
<1>2. Scanned(s) \in State(V)
  BY ScannedType
<1>3. Decode(s) \subseteq Facts(V)
  BY <1>2, StateFields DEF Decode
<1>4. Entry(Decode(s)) \subseteq Decode(s) /\ \A f \in Entry(Decode(s)) : f[1] \in Mine
  BY DEF Entry
<1>5. IsFiniteSet(Entry(Decode(s)))
  BY <1>1, <1>4, FS_Subset
<1> QED  BY <1>3, <1>4, <1>5 DEF Servers
LEMMA OverlaidIs ==
  ASSUME NEW V, NEW F \in Servers(V), NEW v \in V
  PROVE  /\ Overlaid(F, v) \in Servers(V)
         /\ <<"me">> \in Overlaid(F, v) /\ <<"me", "command", v>> \in Overlaid(F, v)
<1>1. /\ IsFiniteSet(F) /\ F \subseteq Facts(V) /\ \A f \in F : f[1] \in Mine
  BY DEF Servers
<1>2. PICK R : R = {f \in F : Len(f) = 1 \/ f[1] # "me" \/ f[2] # "command"}
  OBVIOUS
<1>3. R \subseteq F
  BY <1>2
<1>4. IsFiniteSet(R)
  BY <1>1, <1>3, FS_Subset
<1>5. PICK x, y : x = <<"me">> /\ y = <<"me", "command", v>>
  OBVIOUS
<1>6. Overlaid(F, v) = (R \cup {x}) \cup {y}
  BY <1>2, <1>5 DEF Overlaid
<1>7. IsFiniteSet(R \cup {x})
  BY <1>4, FS_AddElement
<1>8. IsFiniteSet((R \cup {x}) \cup {y})
  BY <1>7, FS_AddElement
<1>9. x \in Facts(V) /\ y \in Facts(V) /\ x[1] = "me" /\ y[1] = "me"
  <2>1. "me" \in Name /\ "command" \in Name /\ v \in Value(V)
    BY DEF Name, Value
  <2> QED  BY <1>5, <2>1 DEF Facts
<1>10. "me" \in Mine
  BY DEF Mine
<1>11. Overlaid(F, v) \in Servers(V)
  BY <1>1, <1>3, <1>6, <1>8, <1>9, <1>10 DEF Servers
<1>12. x \in Overlaid(F, v) /\ y \in Overlaid(F, v)
  BY <1>6
<1> QED  BY <1>5, <1>11, <1>12

(* ---- accepted edits ---- *)

LEMMA WiderLines ==
  ASSUME NEW V
  PROVE  /\ Line(V) \subseteq Line(Value(V)) /\ FileLines(V) \subseteq FileLines(Value(V))
         /\ V \subseteq Value(V)
<1>1. V \subseteq Value(V)
  BY DEF Value
<1>2. [kind : {"key"}, key : Name, value : V, eol : Eols]
        \subseteq [kind : {"key"}, key : Name, value : Value(V), eol : Eols]
  BY <1>1
<1>3. Line(V) \subseteq Line(Value(V))
  BY <1>2 DEF Line
<1> QED  BY <1>1, <1>3 DEF FileLines
\* The lines that end in a line feed.
LfLines(V) == {l \in Line(V) : l.eol = "lf"}
LEMMA LfText ==
  ASSUME NEW V, NEW s \in Seq(Line(V))
  PROVE  EndsIn(s, "lf") <=> s \in Seq(LfLines(V))
<1>1. DOMAIN s = 1..Len(s) /\ Len(s) \in Nat /\ \A i \in 1..Len(s) : s[i] \in Line(V)
  OBVIOUS
<1>2. ASSUME EndsIn(s, "lf") PROVE s \in Seq(LfLines(V))
  <2>1. \A i \in 1..Len(s) : s[i] \in LfLines(V)
    BY <1>1, <1>2 DEF EndsIn, LfLines
  <2>2. s \in [1..Len(s) -> LfLines(V)]
    BY <1>1, <2>1
  <2> QED  BY <1>1, <2>2
<1>3. ASSUME s \in Seq(LfLines(V)) PROVE EndsIn(s, "lf")
  <2>1. \A i \in 1..Len(s) : s[i] \in LfLines(V)
    BY <1>3
  <2> QED  BY <1>1, <2>1 DEF EndsIn, LfLines
<1> QED  BY <1>2, <1>3
LEMMA EditLf ==
  ASSUME NEW V, NEW L \in Seq(LfLines(V)), NEW b \in Seq(LfLines(V))
  PROVE  Assembled(L, b) \in Seq(LfLines(V))
<1>1. LfLines(V) \in SUBSET Line(V) /\ Blank \in LfLines(V)
  <2>1. Blank \in Line(V) /\ Blank.eol = "lf"
    BY BlankIsLine DEF Blank
  <2> QED  BY <2>1 DEF LfLines
<1>2. PICK A, C : Shape(L, A, C, LfLines(V), V)
  BY <1>1, AssembledShape
<1>3. /\ A \in Seq(Apart(LfLines(V))) /\ C \in Seq(Apart(LfLines(V)))
      /\ \A x \in Seq(Line(V)) : Assembled(L, x) = JoinStep(JoinStep(A, x), C)
  BY <1>2, Zenon DEF Shape
<1>4. Apart(LfLines(V)) \in SUBSET LfLines(V)
  BY DEF Apart
<1>5. A \in Seq(LfLines(V)) /\ C \in Seq(LfLines(V))
  BY <1>3, <1>4, SeqSub
<1>6. JoinStep(A, b) \in Seq(LfLines(V))
  BY <1>1, <1>5, JoinIn
<1>7. JoinStep(JoinStep(A, b), C) \in Seq(LfLines(V))
  BY <1>1, <1>5, <1>6, JoinIn
<1>8. b \in Seq(Line(V))
  BY <1>1, SeqSub
<1> QED  BY <1>3, <1>7, <1>8
LEMMA WrittenLf ==
  ASSUME NEW V
  PROVE  Seq(Writes(V)) \subseteq Seq(LfLines(V)) /\ Seq(LfLines(V)) \subseteq Seq(Line(V))
<1>1. Writes(V) \in SUBSET LfLines(V) /\ LfLines(V) \in SUBSET Line(V)
  BY DEF Writes, LfLines
<1> QED  BY <1>1, SeqSub
\* A file, its lines as the editor sees them, and the lines the edited text may have.
LEMMA FileText ==
  ASSUME NEW V, NEW f \in Seq(FileLines(V)), NEW L, L = LF(f)
  PROVE  /\ f \in Seq(Line(V)) /\ f \in Seq(Line(Value(V))) /\ L \in Seq(FileLines(Value(V))) /\ L \in Seq(Line(V))
         /\ L \in Seq(LfLines(Value(V))) /\ LF(L) = L /\ L = Endings(f, "lf")
<1>1. FileLines(V) \in SUBSET Line(V) /\ Line(V) \in SUBSET Line(Value(V))
  BY WiderLines DEF FileLines
<1>2. f \in Seq(Line(V))
  BY <1>1, SeqSub
<1>3. f \in Seq(Line(Value(V)))
  BY <1>1, <1>2, SeqSub
<1>4. "lf" \in Eols
  BY DEF Eols
<1>5. L = Endings(f, "lf")
  BY EndingsIs
<1>6. /\ L \in Seq(Line(V)) /\ Len(L) = Len(f)
      /\ \A i \in 1..Len(f) : L[i] = WithEol(f[i], "lf") /\ L[i].eol = "lf"
  BY <1>2, <1>4, <1>5, EndingsType
<1>7. L \in Seq(FileLines(V))
  <2>1. \A i \in 1..Len(f) : L[i] \in FileLines(V)
    <3>1. ASSUME NEW i \in 1..Len(f) PROVE L[i] \in FileLines(V)
      <4>1. f[i] \in FileLines(V) /\ f[i] \in Line(V)
        BY <1>2
      <4>2. L[i] = WithEol(f[i], "lf")
        BY <1>6
      <4>3. WithEol(f[i], "lf") \in Line(V) /\ SameLine(f[i], WithEol(f[i], "lf"))
        BY <1>4, <4>1, EndingType
      <4>4. L[i] \in Line(V) /\ (L[i].kind = "key" => L[i].key \notin {"text", "inline"})
        BY <4>1, <4>2, <4>3 DEF SameLine, FileLines
      <4> QED  BY <4>4 DEF FileLines
    <3> QED  BY <3>1
  <2>2. L \in [1..Len(L) -> FileLines(V)] /\ Len(L) \in Nat
    BY <1>6, <2>1
  <2> QED  BY <2>2
<1>8. FileLines(V) \in SUBSET FileLines(Value(V))
  BY WiderLines
<1>9. L \in Seq(FileLines(Value(V)))
  BY <1>7, <1>8, SeqSub
<1>10. EndsIn(L, "lf") /\ LF(L) = L
  <2>1. EndsIn(L, "lf") /\ Endings(L, "lf") = L
    BY <1>2, <1>4, <1>5, EndingsTwice
  <2> QED  BY <2>1, EndingsIs
<1>11. L \in Seq(Line(Value(V)))
  BY <1>6, <1>1, SeqSub
<1>12. L \in Seq(LfLines(Value(V)))
  BY <1>10, <1>11, LfText
<1> QED  BY <1>2, <1>3, <1>5, <1>6, <1>9, <1>10, <1>12
\* Writing a text back with the file's line endings changes no line but for how it ends.
Rewritten(out, e, V) ==
  /\ LF(out) = e /\ out \in Seq(Line(V))
  /\ (Valid(out) <=> Valid(e)) /\ (Entry(Decode(out)) = {} <=> Entry(Decode(e)) = {})
  /\ \A t, k, v : k # "text" => (<<t, k, v>> \in Decode(out) <=> <<t, k, v>> \in Decode(e))
LEMMA RewrittenOut ==
  ASSUME NEW V, NEW e \in Seq(LfLines(V)), NEW out, out = e \/ out = CRLF(e)
  PROVE  Rewritten(out, e, V)
<1>1. e \in Seq(Line(V)) /\ EndsIn(e, "lf")
  BY WrittenLf, LfText
<1>2. "lf" \in Eols /\ "crlf" \in Eols
  BY DEF Eols
<1>3. LF(e) = e /\ CRLF(e) = Endings(e, "crlf")
  <2>1. Endings(e, "lf") = e
    BY <1>1, <1>2, EndingsSame
  <2> QED  BY <2>1, EndingsIs
<1>4. CASE out = e
  BY <1>1, <1>3, <1>4 DEF Rewritten
<1>5. CASE out = CRLF(e)
  <2>1. out = Endings(e, "crlf")
    BY <1>3, <1>5
  <2>2. LF(out) = e
    <3>1. Endings(Endings(e, "crlf"), "lf") = Endings(e, "lf")
      BY <1>1, <1>2, EndingsTwice
    <3>2. LF(out) = Endings(out, "lf") /\ Endings(e, "lf") = LF(e)
      BY EndingsIs
    <3> QED  BY <1>3, <2>1, <3>1, <3>2, Zenon
  <2>3. Endings(e, "crlf") \in Seq(Line(V))
    BY <1>1, <1>2, EndingsType
  <2>4. /\ Valid(Endings(e, "crlf")) <=> Valid(e)
        /\ Entry(Decode(Endings(e, "crlf"))) = {} <=> Entry(Decode(e)) = {}
        /\ \A t, k, v : k # "text" => (<<t, k, v>> \in Decode(Endings(e, "crlf")) <=> <<t, k, v>> \in Decode(e))
    BY <1>1, <1>2, LikeValid
  <2> QED  BY <2>1, <2>2, <2>3, <2>4 DEF Rewritten
<1> QED  BY <1>4, <1>5
LEMMA RestoredIs ==
  ASSUME NEW f, NEW e, NEW out, out = restoreLineEndings(f, e), out # Refused
  PROVE  out = e \/ out = CRLF(e)
BY DEF restoreLineEndings

\* What an edit needs to be accepted, and what it then writes.
Upserts(L, a, b, e, v) ==
  /\ a = Overlaid(Entry(Decode(L)), v) /\ b = renderTOMLServer(a) /\ e = Assembled(L, b)
Accepts(L, a, e) ==
  /\ Valid(L) /\ (Entry(Decode(L)) # {} => HasTarget(L))
  /\ guardTOMLEdit(L, e) /\ Entry(Decode(e)) = a
LEMMA UpsertIs ==
  ASSUME NEW f, NEW v, NEW L, L = LF(f), NEW a, NEW b, NEW e, Upserts(L, a, b, e, v)
  PROVE  upsertTOMLServer(f, v) = IF Accepts(L, a, e) THEN restoreLineEndings(f, e) ELSE Refused
<1>1. upsertTOMLServer(f, v) =
        IF /\ Valid(LF(f))
           /\ Entry(Decode(LF(f))) # {} => HasTarget(LF(f))
           /\ guardTOMLEdit(LF(f), Assembled(LF(f), renderTOMLServer(Overlaid(Entry(Decode(LF(f))), v))))
           /\ Entry(Decode(Assembled(LF(f), renderTOMLServer(Overlaid(Entry(Decode(LF(f))), v)))))
                = Overlaid(Entry(Decode(LF(f))), v)
        THEN restoreLineEndings(f, Assembled(LF(f), renderTOMLServer(Overlaid(Entry(Decode(LF(f))), v))))
        ELSE Refused
  BY Zenon DEF upsertTOMLServer
<1>2. /\ a = Overlaid(Entry(Decode(LF(f))), v) /\ b = renderTOMLServer(Overlaid(Entry(Decode(LF(f))), v))
      /\ e = Assembled(LF(f), renderTOMLServer(Overlaid(Entry(Decode(LF(f))), v)))
  BY Zenon DEF Upserts
<1>3. upsertTOMLServer(f, v) =
        IF /\ Valid(L)
           /\ Entry(Decode(L)) # {} => HasTarget(L)
           /\ guardTOMLEdit(L, e)
           /\ Entry(Decode(e)) = a
        THEN restoreLineEndings(f, e)
        ELSE Refused
  BY <1>1, <1>2, Zenon
<1> QED  BY <1>3, Zenon DEF Accepts
Removes(L, e) ==
  /\ Valid(L) /\ Entry(Decode(L)) # {} /\ HasTarget(L)
  /\ guardTOMLEdit(L, e) /\ Entry(Decode(e)) = {}
LEMMA RemoveIs ==
  ASSUME NEW f, NEW L, L = LF(f), NEW e, e = Assembled(L, <<>>)
  PROVE  removeTOMLServer(f) = IF Valid(L) /\ Entry(Decode(L)) = {} THEN f
                               ELSE IF Removes(L, e) THEN restoreLineEndings(f, e)
                               ELSE Refused
<1>1. CASE Valid(L) /\ Entry(Decode(L)) = {}
  BY <1>1 DEF removeTOMLServer
<1>2. CASE Removes(L, e)
  BY <1>2 DEF removeTOMLServer, Removes
<1>3. CASE ~Removes(L, e) /\ ~(Valid(L) /\ Entry(Decode(L)) = {})
  BY <1>3 DEF removeTOMLServer, Removes
<1> QED  BY <1>1, <1>2, <1>3 DEF Removes
\* The edit of a file, piece by piece.
LEMMA UpsertParts ==
  ASSUME NEW V, NEW v \in V, NEW f \in Seq(FileLines(V)), NEW L, L = LF(f)
  PROVE  \E a, b, e : /\ Upserts(L, a, b, e, v) /\ a \in Servers(V) /\ Block(b, Value(V))
                      /\ b \in Seq(Writes(Value(V)))
                      /\ <<"me">> \in a /\ <<"me", "command", v>> \in a
                      /\ e \in Seq(LfLines(Value(V)))
<1>1. L \in Seq(Line(V)) /\ L \in Seq(LfLines(Value(V)))
  BY FileText
<1>2. PICK S \in Servers(V) : S = Entry(Decode(L))
  BY <1>1, EntryIs
<1>3. PICK a : a = Overlaid(S, v)
  OBVIOUS
<1>4. a \in Servers(V) /\ <<"me">> \in a /\ <<"me", "command", v>> \in a
  BY <1>3, OverlaidIs
<1>5. PICK b : b = renderTOMLServer(a)
  OBVIOUS
<1>6. Block(b, Value(V)) /\ b \in Seq(Writes(Value(V)))
  BY <1>4, <1>5, RenderBlock
<1>7. PICK e : e = Assembled(L, b)
  OBVIOUS
<1>8. b \in Seq(LfLines(Value(V)))
  BY <1>6, WrittenLf
<1>9. e \in Seq(LfLines(Value(V)))
  BY <1>1, <1>7, <1>8, EditLf
<1>10. Upserts(L, a, b, e, v)
  BY <1>2, <1>3, <1>5, <1>7, Zenon DEF Upserts
<1> QED  BY <1>4, <1>6, <1>9, <1>10
LEMMA EntryHas ==
  ASSUME NEW e, NEW a, Entry(Decode(e)) = a, NEW x \in a PROVE x \in Decode(e)
BY DEF Entry

\* An accepted edit of a file in which no line of a string of the server's looks like
\* a header leaves every line that is not the server's, in order; the edited
\* file can be read, and holds the command (upsertTOMLServer).
THEOREM UpsertExact ==
  ASSUME NEW V, NEW v \in V, NEW f \in Seq(FileLines(V)), OwnPlain(LF(f)),
         NEW out, out = upsertTOMLServer(f, v), out # Refused
  PROVE  Others(LF(out)) = Others(LF(f)) /\ Valid(out) /\ <<"me", "command", v>> \in Decode(out)
<1>1. PICK L : L = LF(f)
  OBVIOUS
<1>2. PICK a, b, e : /\ Upserts(L, a, b, e, v) /\ a \in Servers(V) /\ Block(b, Value(V))
                     /\ <<"me">> \in a /\ <<"me", "command", v>> \in a
                     /\ e \in Seq(LfLines(Value(V)))
  BY <1>1, UpsertParts
<1>3. out = IF Accepts(L, a, e) THEN restoreLineEndings(f, e) ELSE Refused
  BY <1>1, <1>2, UpsertIs
<1>4. Accepts(L, a, e) /\ out = restoreLineEndings(f, e)
  BY <1>3
<1>5. out = e \/ out = CRLF(e)
  BY <1>4, RestoredIs
<1>6. Rewritten(out, e, Value(V))
  BY <1>2, <1>5, RewrittenOut
<1>7. Valid(L) /\ guardTOMLEdit(L, e) /\ Entry(Decode(e)) = a
  BY <1>4, Zenon DEF Accepts
<1>8. e = Assembled(L, b)
  BY <1>2, Zenon DEF Upserts
<1>9. <<"me">> \in Decode(e) /\ <<"me", "command", v>> \in Decode(e)
  BY <1>2, <1>7, EntryHas
<1>10. Others(e) = Others(L)
  <2>1. L \in Seq(FileLines(Value(V)))
    BY <1>1, FileText
  <2> QED  BY <1>1, <1>2, <1>7, <1>8, <1>9, <2>1, UpsertKeeps
<1>11. LF(out) = e /\ (Valid(out) <=> Valid(e))
       /\ \A t, k, w : k # "text" => (<<t, k, w>> \in Decode(out) <=> <<t, k, w>> \in Decode(e))
  BY <1>6, Zenon DEF Rewritten
<1>12. Valid(out)
  BY <1>7, <1>11 DEF guardTOMLEdit
<1>13. <<"me", "command", v>> \in Decode(out)
  BY <1>9, <1>11
<1>14. Others(LF(out)) = Others(LF(f))
  BY <1>1, <1>10, <1>11, Zenon
<1> QED  BY <1>12, <1>13, <1>14

\* The same of a removal, which leaves no entry (removeTOMLServer).
THEOREM RemoveExact ==
  ASSUME NEW V, NEW f \in Seq(FileLines(V)), OwnPlain(LF(f)),
         NEW out, out = removeTOMLServer(f), out # Refused
  PROVE  Others(LF(out)) = Others(LF(f)) /\ Valid(out) /\ Entry(Decode(out)) = {}
<1>1. PICK L : L = LF(f)
  OBVIOUS
<1>2. PICK e : e = Assembled(L, <<>>)
  OBVIOUS
<1>3. out = IF Valid(L) /\ Entry(Decode(L)) = {} THEN f
            ELSE IF Removes(L, e) THEN restoreLineEndings(f, e) ELSE Refused
  BY <1>1, <1>2, RemoveIs
<1>4. /\ f \in Seq(Line(V)) /\ L \in Seq(FileLines(Value(V))) /\ L \in Seq(LfLines(Value(V)))
      /\ L = Endings(f, "lf")
  BY <1>1, FileText
<1>5. CASE Valid(L) /\ Entry(Decode(L)) = {}
  <2>1. "lf" \in Eols
    BY DEF Eols
  <2>2. (Valid(Endings(f, "lf")) <=> Valid(f)) /\ (Entry(Decode(Endings(f, "lf"))) = {} <=> Entry(Decode(f)) = {})
    BY <1>4, <2>1, LikeValid
  <2> QED  BY <1>3, <1>4, <1>5, <2>2
<1>6. CASE ~(Valid(L) /\ Entry(Decode(L)) = {})
  <2>1. Removes(L, e) /\ out = restoreLineEndings(f, e)
    BY <1>3, <1>6
  <2>2. out = e \/ out = CRLF(e)
    BY <2>1, RestoredIs
  <2>3. e \in Seq(LfLines(Value(V)))
    <3>1. <<>> \in Seq(LfLines(Value(V)))
      OBVIOUS
    <3> QED  BY <1>2, <1>4, <3>1, EditLf
  <2>4. Rewritten(out, e, Value(V))
    BY <2>2, <2>3, RewrittenOut
  <2>5. Valid(L) /\ guardTOMLEdit(L, e) /\ Entry(Decode(e)) = {}
    BY <2>1, Zenon DEF Removes
  <2>6. Others(e) = Others(L)
    BY <1>1, <1>2, <1>4, <2>5, RemoveKeeps
  <2>7. LF(out) = e /\ (Valid(out) <=> Valid(e)) /\ (Entry(Decode(out)) = {} <=> Entry(Decode(e)) = {})
    BY <2>4, Zenon DEF Rewritten
  <2>8. Valid(e)
    BY <2>5 DEF guardTOMLEdit
  <2>9. Others(LF(out)) = Others(LF(f))
    BY <1>1, <2>6, <2>7, Zenon
  <2> QED  BY <2>5, <2>7, <2>8, <2>9
<1> QED  BY <1>5, <1>6

(* ---- reading the server back ---- *)

\* The state of the decoder in a table, outside of every string.
Stands(st, t, d) == ~st.in /\ st.ok /\ st.table = t /\ st.doc = d
Elems(q) == {q[i] : i \in DOMAIN q}
LEMMA ElemsAppend ==
  ASSUME NEW S, NEW q \in Seq(S), NEW e \in S
  PROVE  /\ Elems(Append(q, e)) = Elems(q) \cup {e}
         /\ Once(Append(q, e)) => Once(q) /\ e \notin Elems(q)
<1>1. /\ DOMAIN q = 1..Len(q) /\ Len(q) \in Nat /\ DOMAIN Append(q, e) = 1..Len(q) + 1
      /\ \A i \in 1..Len(q) : Append(q, e)[i] = q[i]
      /\ Append(q, e)[Len(q) + 1] = e
  OBVIOUS
<1>2. Elems(Append(q, e)) = Elems(q) \cup {e}
  <2>1. ASSUME NEW i \in DOMAIN Append(q, e) PROVE Append(q, e)[i] \in Elems(q) \cup {e}
    <3>1. i \in 1..Len(q) \/ i = Len(q) + 1
      BY <1>1
    <3> QED  BY <1>1, <3>1 DEF Elems
  <2>2. ASSUME NEW y \in Elems(q) PROVE y \in Elems(Append(q, e))
    <3>1. PICK i \in 1..Len(q) : y = q[i]
      BY <1>1 DEF Elems
    <3>2. i \in DOMAIN Append(q, e) /\ Append(q, e)[i] = y
      BY <1>1, <3>1
    <3> QED  BY <3>2 DEF Elems
  <2>3. e \in Elems(Append(q, e))
    <3>1. Len(q) + 1 \in DOMAIN Append(q, e)
      BY <1>1
    <3> QED  BY <1>1, <3>1 DEF Elems
  <2>4. Elems(Append(q, e)) \subseteq Elems(q) \cup {e}
    BY <2>1 DEF Elems
  <2> QED  BY <2>2, <2>3, <2>4
<1>3. ASSUME Once(Append(q, e)) PROVE Once(q) /\ e \notin Elems(q)
  <2>1. ASSUME NEW i \in 1..Len(q), NEW j \in 1..Len(q), q[i] = q[j] PROVE i = j
    <3>1. i \in 1..Len(q) + 1 /\ j \in 1..Len(q) + 1
      BY <1>1
    <3> QED  BY <1>1, <1>3, <2>1, <3>1 DEF Once
  <2>2. ASSUME NEW i \in 1..Len(q), q[i] = e PROVE FALSE
    <3>1. i \in 1..Len(q) + 1 /\ Len(q) + 1 \in 1..Len(q) + 1
      BY <1>1
    <3>2. Append(q, e)[i] = Append(q, e)[Len(q) + 1]
      BY <1>1, <2>2
    <3>3. i = Len(q) + 1
      BY <1>1, <1>3, <3>1, <3>2 DEF Once
    <3> QED  BY <1>1, <3>3
  <2> QED  BY <1>1, <2>1, <2>2 DEF Once, Elems
<1> QED  BY <1>2, <1>3
LEMMA LinesAppend ==
  ASSUME NEW S, NEW q \in Seq(S), NEW e \in S
  PROVE  Lines(Append(q, e)) = Append(Lines(q), Key(e[2], e[3]))
<1>1. /\ DOMAIN q = 1..Len(q) /\ Len(q) \in Nat /\ DOMAIN Append(q, e) = 1..Len(q) + 1
      /\ \A i \in 1..Len(q) : Append(q, e)[i] = q[i]
      /\ Append(q, e)[Len(q) + 1] = e
  OBVIOUS
<1> DEFINE T == {Key(s[2], s[3]) : s \in S}
<1>2. Lines(q) \in [1..Len(q) -> T] /\ \A i \in 1..Len(q) : Lines(q)[i] = Key(q[i][2], q[i][3])
  <2>1. \A i \in 1..Len(q) : q[i] \in S
    OBVIOUS
  <2> QED  BY <1>1, <2>1 DEF Lines
<1>3. Lines(q) \in Seq(T) /\ Len(Lines(q)) = Len(q)
  BY <1>1, <1>2
<1>4. Key(e[2], e[3]) \in T
  OBVIOUS
<1> HIDE DEF T
<1>5. PICK k \in T : k = Key(e[2], e[3])
  BY <1>4
<1>6. PICK a \in Seq(T) : a = Lines(q) /\ Len(a) = Len(q)
  BY <1>3
<1>7. /\ Append(a, k) \in Seq(T) /\ Len(Append(a, k)) = Len(q) + 1
      /\ \A i \in 1..Len(q) : Append(a, k)[i] = a[i]
      /\ Append(a, k)[Len(q) + 1] = k
  BY <1>6
<1>8. /\ DOMAIN Lines(Append(q, e)) = 1..Len(q) + 1
      /\ \A i \in 1..Len(q) + 1 : Lines(Append(q, e))[i] = Key(Append(q, e)[i][2], Append(q, e)[i][3])
  BY <1>1 DEF Lines
<1>9. \A i \in 1..Len(q) + 1 : Lines(Append(q, e))[i] = Append(a, k)[i]
  <2>1. ASSUME NEW i \in 1..Len(q) + 1 PROVE Lines(Append(q, e))[i] = Append(a, k)[i]
    <3>1. CASE i \in 1..Len(q)
      BY <1>1, <1>2, <1>6, <1>7, <1>8, <3>1
    <3>2. CASE i = Len(q) + 1
      BY <1>1, <1>5, <1>7, <1>8, <3>2
    <3>3. Len(q) \in Nat
      BY <1>1
    <3>4. i \in 1..Len(q) \/ i = Len(q) + 1
      BY <3>3
    <3> QED  BY <3>1, <3>2, <3>4
  <2> QED  BY <2>1
<1>10. DOMAIN Append(a, k) = 1..Len(q) + 1
  BY <1>6, <1>7
<1>11. Lines(Append(q, e)) = [i \in 1..Len(q) + 1 |-> Lines(Append(q, e))[i]]
  BY <1>8 DEF Lines
<1>12. Append(a, k) = [i \in 1..Len(q) + 1 |-> Append(a, k)[i]]
  <2>1. PICK b \in Seq(T) : b = Append(a, k) /\ Len(b) = Len(q) + 1
    BY <1>7
  <2>2. b = [i \in 1..Len(b) |-> b[i]]
    OBVIOUS
  <2> QED  BY <2>1, <2>2, Zenon
<1>13. Lines(Append(q, e)) = Append(a, k)
  BY <1>9, <1>11, <1>12
<1> QED  BY <1>5, <1>6, <1>13

\* Facts of one table, a value for each key.
ValuesOf(R, t, V) ==
  /\ R \subseteq Triples(V)
  /\ \A f \in R : f = <<t, f[2], f[3]>>
  /\ \A f, g \in R : f[2] = g[2] => f = g
LEMMA LinesScan ==
  ASSUME NEW V, NEW W, W = Value(V), NEW t \in Mine, NEW R, ValuesOf(R, t, V),
         NEW x \in Seq(Line(W)), NEW st, st = Scanned(x), NEW d, Stands(st, t, d),
         \A f \in R : ~Defined(st, t, f[2]),
         NEW q \in Seq(R), Once(q)
  PROVE  Stands(Scanned(x \o Lines(q)), t, d \cup Elems(q))
<1> DEFINE G == {y \in Seq(R) : Once(y) =>
                   /\ Lines(y) \in Seq(Line(W))
                   /\ Stands(Scanned(x \o Lines(y)), t, d \cup Elems(y))}
<1>0. t # "mcp"
  BY DEF Mine
<1>1. <<>> \in G
  <2>1. Lines(<<>>) = <<>> /\ Elems(<<>>) = {}
    BY DEF Lines, Elems
  <2>2. x \o <<>> = x /\ <<>> \in Seq(Line(W)) /\ <<>> \in Seq(R)
    OBVIOUS
  <2>3. Stands(Scanned(x \o <<>>), t, d \cup {})
    BY <2>2 DEF Stands
  <2> QED  BY <2>1, <2>2, <2>3
<1>2. ASSUME NEW y \in Seq(R), NEW e \in R, y \in G PROVE Append(y, e) \in G
  <2> SUFFICES ASSUME Once(Append(y, e))
               PROVE  /\ Lines(Append(y, e)) \in Seq(Line(W))
                      /\ Stands(Scanned(x \o Lines(Append(y, e))), t, d \cup Elems(Append(y, e)))
    OBVIOUS
  <2>1. Once(y) /\ e \notin Elems(y) /\ Elems(Append(y, e)) = Elems(y) \cup {e}
    BY ElemsAppend
  <2>2. Lines(y) \in Seq(Line(W)) /\ Stands(Scanned(x \o Lines(y)), t, d \cup Elems(y))
    BY <1>2, <2>1
  <2>3. e \in Triples(V) /\ e = <<t, e[2], e[3]>>
    BY DEF ValuesOf
  <2>4. PICK k \in Name, v \in Value(V) : k = e[2] /\ v = e[3] /\ e = <<t, k, v>>
    BY <2>3 DEF Triples
  <2>5. PICK l \in Line(W) : l = Key(k, v) /\ l.kind = "key" /\ l.key = k /\ l.value = v
    BY KeyIs
  <2>6. Lines(Append(y, e)) = Append(Lines(y), l)
    BY <2>4, <2>5, LinesAppend
  <2>7. x \o Append(Lines(y), l) = Append(x \o Lines(y), l) /\ x \o Lines(y) \in Seq(Line(W))
    BY <2>2, CatAppend, CatType
  <2>8. PICK z \in Seq(Line(W)) : z = x \o Lines(y)
    BY <2>7
  <2>9. Scanned(Append(z, l)) = Scan(Scanned(z), l) /\ Scanned(z) \in State(W)
    BY ScannedAppend
  <2>10. PICK n \in State(W) : n = Scanned(z)
    BY <2>9
  <2>11. ~n.in /\ n.ok /\ n.table = t /\ n.doc = d \cup Elems(y)
    BY <2>2, <2>8, <2>10 DEF Stands
  <2>12. PICK m : m = Set(n, k, v)
    OBVIOUS
  <2>13. Scan(n, l) = m /\ v \in Value(W)
    <3>1. Scan(n, l) = Set(n, l.key, l.value) /\ l.value \in Value(W)
      BY <2>5, <2>11, ScanKey
    <3> QED  BY <2>5, <2>12, <3>1
  <2>14. ~InlineAt(n, k) /\ TableOf(n, k) = t /\ KeyOf(n, k) = k
    BY <1>0, <2>11 DEF InlineAt, TableOf, KeyOf
  <2>15. /\ m.table = n.table /\ ~m.in /\ m.doc = n.doc \cup {<<t, k, v>>}
         /\ m.ok <=> n.ok /\ ~Defined(n, t, k)
    BY <2>12, <2>13, <2>14, SetMore
  <2>16. ~Defined(n, t, k)
    <3>1. SUFFICES ASSUME Defined(n, t, k) PROVE FALSE
      OBVIOUS
    <3>2. PICK u \in Value(W) : <<t, k, u>> \in n.doc
      BY <3>1, DefinedIs
    <3>3. CASE <<t, k, u>> \in d
      <4>1. st \in State(W) /\ st.doc = d
        BY ScannedType DEF Stands
      <4>2. Defined(st, t, k)
        BY <3>3, <4>1, DefinedIs
      <4> QED  BY <2>4, <4>2
    <3>4. CASE <<t, k, u>> \in Elems(y)
      <4>0. PICK i \in DOMAIN y : y[i] = <<t, k, u>>
        BY <3>4 DEF Elems
      <4>3. y[i] \in R
        <5>1. \A j \in DOMAIN y : y[j] \in R
          OBVIOUS
        <5> QED  BY <5>1
      <4>1. <<t, k, u>> \in R
        BY <4>0, <4>3, Zenon
      <4>2. <<t, k, u>>[2] = k
        OBVIOUS
      <4>4. <<t, k, u>> = e
        BY <2>4, <4>1, <4>2 DEF ValuesOf
      <4> QED  BY <2>1, <3>4, <4>4
    <3> QED  BY <2>11, <3>2, <3>3, <3>4
  <2>17. m.doc = d \cup Elems(Append(y, e))
    BY <2>1, <2>4, <2>11, <2>15
  <2>18. Stands(m, t, d \cup Elems(Append(y, e)))
    BY <2>11, <2>15, <2>16, <2>17 DEF Stands
  <2>19. Scanned(x \o Lines(Append(y, e))) = m
    BY <2>6, <2>7, <2>8, <2>9, <2>10, <2>13, Zenon
  <2>20. Append(Lines(y), l) \in Seq(Line(W))
    BY <2>2
  <2> QED  BY <2>6, <2>18, <2>19, <2>20
<1> HIDE DEF G
<1>3. Seq(R) \subseteq G
  BY <1>1, <1>2, SeqInducts
<1> QED  BY <1>3 DEF G

\* A server as the decoder reads it: one value for a key, in tables that there are.
Proper(F) ==
  /\ <<"me">> \in F
  /\ \A t, k, u, v : <<t, k, u>> \in F /\ <<t, k, v>> \in F => u = v
  /\ \A t, k, v : <<t, k, v>> \in F => <<t>> \in F
  /\ \A v : <<"me", "inline", v>> \notin F
LEMMA ElemsAll ==
  ASSUME NEW R, NEW q \in Seq(R), \A e \in R : \E i \in DOMAIN q : q[i] = e
  PROVE  Elems(q) = R
<1>1. \A i \in DOMAIN q : q[i] \in R
  OBVIOUS
<1>2. Elems(q) \subseteq R
  BY <1>1 DEF Elems
<1>3. ASSUME NEW e \in R PROVE e \in Elems(q)
  <2>1. PICK i \in DOMAIN q : q[i] = e
    OBVIOUS
  <2> QED  BY <2>1 DEF Elems
<1> QED  BY <1>2, <1>3
LEMMA ProperValues ==
  ASSUME NEW V, NEW F \in Servers(V), Proper(F), NEW t
  PROVE  /\ ValuesOf(FactsOf(F, t), t, V) /\ ValuesOf(CommandOf(F, t), t, V)
         /\ ValuesOf(FactsOf(F, t) \ CommandOf(F, t), t, V)
<1>1. /\ FactsOf(F, t) \subseteq Triples(V)
      /\ \A f \in FactsOf(F, t) : f \in F /\ f[1] = t /\ f = <<t, f[2], f[3]>>
  BY FactsOfIs
<1>2. CommandOf(F, t) \subseteq FactsOf(F, t)
  BY DEF CommandOf
<1>3. ASSUME NEW f \in FactsOf(F, t), NEW g \in FactsOf(F, t), f[2] = g[2] PROVE f = g
  <2>1. <<t, f[2], f[3]>> \in F /\ <<t, f[2], g[3]>> \in F
    BY <1>1, <1>3
  <2>2. f[3] = g[3]
    BY <2>1 DEF Proper
  <2> QED  BY <1>1, <1>3, <2>2
<1> QED  BY <1>1, <1>2, <1>3 DEF ValuesOf
LEMMA AppendIn ==
  ASSUME NEW S, NEW x \in Seq(S), NEW e \in S
  PROVE  Append(x, e) \in Seq(S) /\ x \o <<e>> = Append(x, e) /\ <<e>> \in Seq(S)
OBVIOUS
Assoc(S) == \A u, v, w \in Seq(S) : u \o (v \o w) = (u \o v) \o w
LEMMA AssocAll == ASSUME NEW S PROVE Assoc(S)
<1>1. ASSUME NEW u \in Seq(S), NEW v \in Seq(S), NEW w \in Seq(S)
      PROVE  u \o (v \o w) = (u \o v) \o w
  BY CatAssoc
<1> QED  BY <1>1 DEF Assoc
Spreads(S) ==
  \A h \in S : \A x, a, b \in Seq(S) : x \o ((<<h>> \o a) \o b) = (Append(x, h) \o a) \o b
LEMMA Spread ==
  ASSUME NEW S PROVE Spreads(S)
<1> SUFFICES ASSUME NEW x \in Seq(S), NEW a \in Seq(S), NEW b \in Seq(S), NEW h \in S
             PROVE  x \o ((<<h>> \o a) \o b) = (Append(x, h) \o a) \o b
  BY SMTT(30) DEF Spreads
<1>0. Assoc(S)
  BY AssocAll
<1>1. PICK g \in Seq(S) : g = <<h>>
  BY AppendIn, Zenon
<1>2. PICK c \in Seq(S) : c = g \o a
  BY CatType
<1>3. x \o (c \o b) = (x \o c) \o b
  BY <1>0, SMTT(30) DEF Assoc
<1>4. x \o (g \o a) = (x \o g) \o a
  BY <1>0, SMTT(30) DEF Assoc
<1>5. x \o g = Append(x, h)
  BY <1>1
<1> QED  BY <1>1, <1>2, <1>3, <1>4, <1>5, Zenon
LEMMA TableScan ==
  ASSUME NEW V, NEW W, W = Value(V), NEW F \in Servers(V), Proper(F), NEW t \in Mine,
         NEW x \in Seq(Line(W)), NEW st, st = Scanned(x), ~st.in, st.ok, <<t>> \notin st.doc,
         \A k : ~Defined(st, t, k), ~Defined(st, "me", "inline")
  PROVE  Stands(Scanned(x \o Table(F, t)), t, (st.doc \cup {<<t>>}) \cup FactsOf(F, t))
         /\ x \o Table(F, t) \in Seq(Line(W))
<1>1. PICK C, R : C = CommandOf(F, t) /\ R = FactsOf(F, t) \ CommandOf(F, t)
  OBVIOUS
<1>2. PICK p, q : TableBy(Table(F, t), F, t, p, q, V)
  BY TableIs
<1>3. /\ p \in Seq(Triples(V)) /\ q \in Seq(Triples(V)) /\ Once(p) /\ Once(q)
      /\ p \in Seq(C) /\ q \in Seq(R)
      /\ \A e \in C : \E i \in DOMAIN p : p[i] = e
      /\ \A e \in R : \E i \in DOMAIN q : q[i] = e
      /\ Table(F, t) = (<<Header(t)>> \o Lines(p)) \o Lines(q)
  BY <1>1, <1>2, Zenon DEF TableBy
<1>4. Elems(p) = C /\ Elems(q) = R
  BY <1>3, ElemsAll
<1>5. ValuesOf(C, t, V) /\ ValuesOf(R, t, V)
  BY <1>1, ProperValues
<1>6. PICK h \in Line(W) : h = Header(t) /\ h.kind = "header" /\ h.table = t
  BY HeaderWrites
<1>7. PICK a, b : a = Lines(p) /\ b = Lines(q) /\ a \in Seq(Line(W)) /\ b \in Seq(Line(W))
  <2>1. Writes(W) \in SUBSET Line(W)
    BY DEF Writes
  <2>2. Lines(p) \in Seq(Writes(W)) /\ Lines(q) \in Seq(Writes(W))
    BY <1>3, LinesType
  <2>3. Lines(p) \in Seq(Line(W)) /\ Lines(q) \in Seq(Line(W))
    BY <2>1, <2>2, SeqSub
  <2> QED  BY <2>3
<1>8. PICK y \in Seq(Line(W)) : y = Append(x, h)
  BY AppendIn
<1>9. PICK z \in Seq(Line(W)) : z = y \o a
  BY <1>7, CatType
<1>10. x \o Table(F, t) = z \o b /\ z \o b \in Seq(Line(W))
  <2>1. x \o ((<<h>> \o a) \o b) = (Append(x, h) \o a) \o b
    <3>1. Spreads(Line(W))
      BY Spread
    <3>2. a \in Seq(Line(W)) /\ b \in Seq(Line(W))
      BY <1>7
    <3>3. \A x1, a1, b1 \in Seq(Line(W)) : x1 \o ((<<h>> \o a1) \o b1) = (Append(x1, h) \o a1) \o b1
      BY <3>1 DEF Spreads
    <3>4. x \in Seq(Line(W))
      OBVIOUS
    <3>5. \A a1, b1 \in Seq(Line(W)) : x \o ((<<h>> \o a1) \o b1) = (Append(x, h) \o a1) \o b1
      BY <3>3, <3>4
    <3>6. \A b1 \in Seq(Line(W)) : x \o ((<<h>> \o a) \o b1) = (Append(x, h) \o a) \o b1
      BY <3>5, <3>2
    <3> QED  BY <3>6, <3>2
  <2>2. Table(F, t) = (<<h>> \o a) \o b
    BY <1>3, <1>6, <1>7, Zenon
  <2>3. z \o b \in Seq(Line(W))
    BY <1>7, CatType
  <2> QED  BY <1>8, <1>9, <2>1, <2>2, <2>3, Zenon
<1>11. st \in State(W)
  BY ScannedType
<1>12. PICK n : n = Scanned(y)
  OBVIOUS
<1>13. n = Scan(st, h)
  BY <1>8, <1>12, ScannedAppend
<1>14. /\ n \in State(W) /\ n.table = t /\ n.doc = st.doc \cup {<<t>>} /\ ~n.in
       /\ n.ok <=> (st.ok /\ ~(<<t>> \in st.doc \/ (t \in Mine /\ Defined(st, "me", "inline"))))
  BY <1>6, <1>11, <1>13, HeaderStep
<1>15. \A k : ~Defined(n, t, k)
  BY <1>11, <1>14, DefinedTable
<1>16. Stands(n, t, st.doc \cup {<<t>>})
  BY <1>14 DEF Stands
<1>17. PICK d : d = st.doc \cup {<<t>>}
  OBVIOUS
<1>18. Stands(Scanned(z), t, d \cup C)
  <2>1. Stands(n, t, d)
    BY <1>16, <1>17
  <2>2. Stands(Scanned(y \o Lines(p)), t, d \cup Elems(p))
    BY <1>3, <1>5, <1>12, <1>15, <2>1, LinesScan
  <2> QED  BY <1>4, <1>7, <1>9, <2>2, Zenon
<1>19. PICK m : m = Scanned(z)
  OBVIOUS
<1>20. m \in State(W) /\ m.doc = d \cup C
  BY <1>18, <1>19, ScannedType DEF Stands
<1>21. ASSUME NEW f \in R PROVE ~Defined(m, t, f[2])
  <2>1. SUFFICES ASSUME Defined(m, t, f[2]) PROVE FALSE
    OBVIOUS
  <2>2. PICK k : k = f[2]
    OBVIOUS
  <2>3. PICK u \in Value(W) : <<t, k, u>> \in d \cup C
    BY <1>20, <2>1, <2>2, DefinedIs
  <2>4. CASE <<t, k, u>> \in d
    BY <1>14, <1>15, <1>17, <2>4, DefinedIs
  <2>5. CASE <<t, k, u>> \in C
    <3>1. <<t, k, u>>[2] = k
      OBVIOUS
    <3>2. k = "command"
      BY <1>1, <2>5, <3>1 DEF CommandOf
    <3>3. f \in FactsOf(F, t) /\ f \notin CommandOf(F, t)
      BY <1>1
    <3> QED  BY <2>2, <3>2, <3>3 DEF CommandOf
  <2> QED  BY <2>3, <2>4, <2>5
<1>22. Stands(Scanned(z \o b), t, (d \cup C) \cup R)
  <2>1. Stands(m, t, d \cup C)
    BY <1>18, <1>19
  <2>2. PICK d2 : d2 = d \cup C
    OBVIOUS
  <2>3. Stands(Scanned(z \o Lines(q)), t, d2 \cup Elems(q))
    BY <1>3, <1>5, <1>19, <1>21, <2>1, <2>2, LinesScan
  <2> QED  BY <1>4, <1>7, <2>2, <2>3, Zenon
<1>23. (d \cup C) \cup R = (st.doc \cup {<<t>>}) \cup FactsOf(F, t)
  <2>1. C \subseteq FactsOf(F, t)
    BY <1>1 DEF CommandOf
  <2> QED  BY <1>1, <1>17, <2>1
<1> QED  BY <1>10, <1>22, <1>23, Zenon

\* Where a block sets X: read outside of every string, where no server has been.
Free(st) == ~st.in /\ st.ok /\ Entry(st.doc) = {}
Sets(b, X, V) ==
  \A x \in Seq(Line(V)) : Free(Scanned(x)) =>
    \E t : Stands(Scanned(x \o b), t, Scanned(x).doc \cup X)
LEMMA FreeIs ==
  ASSUME NEW V, NEW st \in State(V), Entry(st.doc) = {}, NEW t \in Mine
  PROVE  <<t>> \notin st.doc /\ \A k : ~Defined(st, t, k)
<1>1. <<t>> \notin st.doc
  <2>1. <<t>>[1] = t
    OBVIOUS
  <2> QED  BY <2>1 DEF Entry
<1>2. ASSUME NEW k, Defined(st, t, k) PROVE FALSE
  <2>1. PICK v \in Value(V) : <<t, k, v>> \in st.doc
    BY <1>2, DefinedIs
  <2>2. <<t, k, v>>[1] = t
    OBVIOUS
  <2> QED  BY <2>1, <2>2 DEF Entry
<1> QED  BY <1>1, <1>2
LEMMA NothingSets ==
  ASSUME NEW V PROVE Sets(<<>>, {}, V)
<1>1. ASSUME NEW x \in Seq(Line(V)), Free(Scanned(x))
      PROVE  \E t : Stands(Scanned(x \o <<>>), t, Scanned(x).doc \cup {})
  <2>1. x \o <<>> = x
    OBVIOUS
  <2>2. PICK st : st = Scanned(x)
    OBVIOUS
  <2>3. Stands(st, st.table, st.doc \cup {})
    BY <1>1, <2>2 DEF Free, Stands
  <2> QED  BY <2>1, <2>2, <2>3
<1> QED  BY <1>1 DEF Sets
\* The facts of a server, table by table.
LEMMA ServerFacts ==
  ASSUME NEW V, NEW F \in Servers(V), Proper(F)
  PROVE  /\ (\E f \in F : f[1] = "me.sub") =>
              F = ({<<"me">>} \cup FactsOf(F, "me")) \cup ({<<"me.sub">>} \cup FactsOf(F, "me.sub"))
         /\ ~(\E f \in F : f[1] = "me.sub") => F = {<<"me">>} \cup FactsOf(F, "me")
<1>1. F \subseteq Facts(V) /\ \A f \in F : f[1] \in Mine
  BY DEF Servers
<1>2. ASSUME NEW f \in F PROVE f = <<f[1]>> \/ (f \in FactsOf(F, f[1]) /\ <<f[1]>> \in F)
  <2>1. \/ \E u \in Name : f = <<u>> /\ Len(f) = 1 /\ f[1] = u
        \/ \E u \in Name, k \in Name, v \in Value(V) :
              f = <<u, k, v>> /\ Len(f) = 3 /\ f[1] = u /\ f[2] = k /\ f[3] = v
    BY <1>1, FactShapes
  <2>2. CASE \E u \in Name : f = <<u>> /\ Len(f) = 1 /\ f[1] = u
    BY <2>2
  <2>3. CASE \E u \in Name, k \in Name, v \in Value(V) :
              f = <<u, k, v>> /\ Len(f) = 3 /\ f[1] = u /\ f[2] = k /\ f[3] = v
    <3>1. PICK u \in Name, k \in Name, v \in Value(V) : f = <<u, k, v>> /\ Len(f) = 3 /\ f[1] = u
      BY <2>3
    <3>2. <<u>> \in F
      BY <3>1 DEF Proper
    <3> QED  BY <3>1, <3>2 DEF FactsOf
  <2> QED  BY <2>1, <2>2, <2>3
<1>3. \A f \in F : f[1] = "me" \/ f[1] = "me.sub"
  BY <1>1 DEF Mine
<1>4. <<"me">> \in F /\ FactsOf(F, "me") \subseteq F /\ FactsOf(F, "me.sub") \subseteq F
  BY DEF Proper, FactsOf
<1>5. ASSUME NEW f \in F, f[1] = "me" PROVE f \in {<<"me">>} \cup FactsOf(F, "me")
  BY <1>2, <1>5
<1>6. ASSUME NEW f \in F, f[1] = "me.sub"
      PROVE  f \in {<<"me.sub">>} \cup FactsOf(F, "me.sub") /\ <<"me.sub">> \in F
  BY <1>2, <1>6
<1>7. CASE ~(\E f \in F : f[1] = "me.sub")
  BY <1>3, <1>4, <1>5, <1>7
<1>8. CASE \E f \in F : f[1] = "me.sub"
  <2>1. <<"me.sub">> \in F
    BY <1>6, <1>8
  <2>2. F \subseteq ({<<"me">>} \cup FactsOf(F, "me")) \cup ({<<"me.sub">>} \cup FactsOf(F, "me.sub"))
    BY <1>3, <1>5, <1>6
  <2> QED  BY <1>4, <1>8, <2>1, <2>2
<1> QED  BY <1>7, <1>8

\* What is written of a server says what it says.
LEMMA RenderSets ==
  ASSUME NEW V, NEW W, W = Value(V), NEW F \in Servers(V), Proper(F)
  PROVE  Sets(renderTOMLServer(F), F, W)
<1> SUFFICES ASSUME NEW x \in Seq(Line(W)), Free(Scanned(x))
             PROVE  \E t : Stands(Scanned(x \o renderTOMLServer(F)), t, Scanned(x).doc \cup F)
  BY DEF Sets
<1>0. "me" \in Mine /\ "me.sub" \in Mine
  BY DEF Mine
<1>1. PICK st : st = Scanned(x)
  OBVIOUS
<1>2. st \in State(W) /\ ~st.in /\ st.ok /\ Entry(st.doc) = {}
  BY <1>1, ScannedType DEF Free
<1>3. /\ <<"me">> \notin st.doc /\ \A k : ~Defined(st, "me", k)
      /\ <<"me.sub">> \notin st.doc /\ \A k : ~Defined(st, "me.sub", k)
  BY <1>0, <1>2, FreeIs
<1>4. PICK A : A = FactsOf(F, "me")
  OBVIOUS
<1>5. PICK y : y = x \o Table(F, "me")
  OBVIOUS
<1>6. Stands(Scanned(y), "me", (st.doc \cup {<<"me">>}) \cup A) /\ y \in Seq(Line(W))
  BY <1>0, <1>1, <1>2, <1>3, <1>4, <1>5, TableScan
<1>7. CASE ~(\E f \in F : f[1] = "me.sub")
  <2>1. renderTOMLServer(F) = Table(F, "me") \o <<>>
    BY <1>7, Zenon DEF renderTOMLServer
  <2>2. PICK r \in Seq(Line(W)) : r = Table(F, "me")
    <3>1. PICK a \in Seq(Writes(W)) : Table(F, "me") = <<Header("me")>> \o a
      BY <1>0, TableWrites
    <3>2. Block(Table(F, "me"), W)
      BY <3>1 DEF Block
    <3>3. ~Reading(<<>>).at.in
      BY ReadingNone DEF Reader0, Scan0
    <3>4. <<>> \in Seq(Line(W))
      OBVIOUS
    <3> QED  BY <3>2, <3>3, <3>4, ReadBlock
  <2>3. renderTOMLServer(F) = Table(F, "me")
    BY <2>1, <2>2
  <2>4. (st.doc \cup {<<"me">>}) \cup A = st.doc \cup F
    BY <1>4, <1>7, ServerFacts
  <2> QED  BY <1>1, <1>5, <1>6, <2>3, <2>4
<1>8. CASE \E f \in F : f[1] = "me.sub"
  <2>1. PICK a, u : a = Table(F, "me") /\ u = Table(F, "me.sub")
    OBVIOUS
  <2>2. renderTOMLServer(F) = a \o (<<Blank>> \o u)
    BY <1>8, <2>1, Zenon DEF renderTOMLServer
  <2>3. a \in Seq(Line(W)) /\ u \in Seq(Line(W))
    <3>1. PICK p \in Seq(Writes(W)) : a = <<Header("me")>> \o p
      BY <1>0, <2>1, TableWrites
    <3>2. PICK q \in Seq(Writes(W)) : u = <<Header("me.sub")>> \o q
      BY <1>0, <2>1, TableWrites
    <3>3. Writes(W) \in SUBSET Line(W)
      BY DEF Writes
    <3>4. p \in Seq(Line(W)) /\ q \in Seq(Line(W))
      BY <3>3, SeqSub
    <3>5. <<Header("me")>> \in Seq(Line(W)) /\ <<Header("me.sub")>> \in Seq(Line(W))
      BY <1>0, HeaderWrites, AppendIn
    <3> QED  BY <3>1, <3>2, <3>4, <3>5, CatType
  <2>4. PICK z \in Seq(Line(W)) : z = y \o <<Blank>>
    BY <1>6, OneBlank, CatType
  <2>5. x \o (a \o (<<Blank>> \o u)) = z \o u
    <3>1. PICK m \in Seq(Line(W)) : m = <<Blank>>
      BY OneBlank
    <3>2. Assoc(Line(W))
      BY AssocAll
    <3>3. PICK g \in Seq(Line(W)) : g = m \o u
      BY <2>3, CatType
    <3>4. x \o (a \o g) = (x \o a) \o g
      BY <2>3, <3>2, SMTT(30) DEF Assoc
    <3>5. y \o (m \o u) = (y \o m) \o u
      <4>1. PICK c \in Seq(Line(W)), d \in Seq(Line(W)) : c = y /\ d = u
        BY <1>6, <2>3
      <4>2. \A q \in Seq(Line(W)), r \in Seq(Line(W)) : c \o (q \o r) = (c \o q) \o r
        BY <3>2 DEF Assoc
      <4>3. \A r \in Seq(Line(W)) : c \o (m \o r) = (c \o m) \o r
        BY <4>2
      <4>4. c \o (m \o d) = (c \o m) \o d
        BY <4>3
      <4> QED  BY <4>1, <4>4, Zenon
    <3> QED  BY <1>5, <2>1, <2>4, <3>1, <3>3, <3>4, <3>5, Zenon
  <2>6. Scanned(z) = Scanned(y)
    <3>1. ~Scanned(y).in
      BY <1>6 DEF Stands
    <3> QED  BY <1>6, <2>4, <3>1, ScanPad
  <2>7. PICK n : n = Scanned(z)
    OBVIOUS
  <2>8. n \in State(W) /\ ~n.in /\ n.ok /\ n.doc = (st.doc \cup {<<"me">>}) \cup A
    BY <1>6, <2>6, <2>7, ScannedType DEF Stands
  <2>9. A \subseteq Triples(V) /\ \A f \in A : f \in F /\ f = <<"me", f[2], f[3]>>
    BY <1>4, FactsOfIs
  <2>10. <<"me.sub">> \notin n.doc
    <3>1. <<"me.sub">> \notin A
      BY <2>9, FactApart
    <3> QED  BY <1>3, <2>8, <3>1
  <2>11. \A k : ~Defined(n, "me.sub", k)
    <3> SUFFICES ASSUME NEW k, Defined(n, "me.sub", k) PROVE FALSE
      OBVIOUS
    <3>1. PICK v \in Value(W) : <<"me.sub", k, v>> \in n.doc
      BY <2>8, DefinedIs
    <3>2. <<"me.sub", k, v>> \notin st.doc
      BY <1>2, <1>3, DefinedIs
    <3>3. <<"me.sub", k, v>> \notin A
      BY <2>9, FactApart
    <3> QED  BY <2>8, <3>1, <3>2, <3>3, FactApart
  <2>12. ~Defined(n, "me", "inline")
    <3> SUFFICES ASSUME Defined(n, "me", "inline") PROVE FALSE
      OBVIOUS
    <3>1. PICK v \in Value(W) : <<"me", "inline", v>> \in n.doc
      BY <2>8, DefinedIs
    <3>2. <<"me", "inline", v>> \notin st.doc
      BY <1>2, <1>3, DefinedIs
    <3>3. <<"me", "inline", v>> \notin A
      BY <2>9 DEF Proper
    <3> QED  BY <2>8, <3>1, <3>2, <3>3, FactApart
  <2>13. Stands(Scanned(z \o u), "me.sub", (n.doc \cup {<<"me.sub">>}) \cup FactsOf(F, "me.sub"))
    BY <1>0, <2>1, <2>7, <2>8, <2>10, <2>11, <2>12, TableScan
  <2>14. (n.doc \cup {<<"me.sub">>}) \cup FactsOf(F, "me.sub") = st.doc \cup F
    <3>1. F = ({<<"me">>} \cup FactsOf(F, "me")) \cup ({<<"me.sub">>} \cup FactsOf(F, "me.sub"))
      BY <1>8, ServerFacts
    <3> QED  BY <1>4, <2>8, <3>1
  <2>15. Scanned(x \o renderTOMLServer(F)) = Scanned(z \o u)
    BY <2>2, <2>5, Zenon
  <2> QED  BY <1>1, <2>13, <2>14, <2>15, Zenon
<1> QED  BY <1>7, <1>8

(* ---- what every document is like ---- *)

Sound(st) ==
  /\ st.table \in Mine => <<st.table>> \in st.doc
  /\ \A t, k, v : t \in Mine /\ <<t, k, v>> \in st.doc => <<t>> \in st.doc \/ (t = "me" /\ k = "inline")
  /\ st.ok => \A t, k, u, v : <<t, k, u>> \in st.doc /\ <<t, k, v>> \in st.doc => u = v
LEMMA ScanCases ==
  ASSUME NEW V, NEW st \in State(V), NEW l \in Line(V), NEW n, n = Scan(st, l)
  PROVE  \/ n.doc = st.doc /\ n.table = st.table /\ (n.ok => st.ok) /\ (n.in \/ n.text = st.text)
         \/ \E k \in Name, v \in Value(V) : n = Set(st, k, v)
         \/ ~st.in /\ l.kind = "header"
<1>1. l.kind \in {"header", "key", "open", "close", "comment", "blank"}
  BY LineKinds
<1>2. CASE st.in /\ l.kind # "close"
  BY <1>2, ScanText DEF Is
<1>3. CASE st.in /\ l.kind = "close"
  <2>1. Scan(st, l) = Set(st, "text", st.text)
    BY <1>3 DEF Scan
  <2>2. "text" \in Name /\ st.text \in Value(V)
    BY StateFields DEF Name, Value
  <2> QED  BY <2>1, <2>2
<1>4. CASE ~st.in /\ l.kind = "header"
  BY <1>4
<1>5. CASE ~st.in /\ l.kind = "key"
  BY <1>5, ScanKey
<1>6. CASE ~st.in /\ l.kind = "open"
  BY <1>6, ScanOpen DEF Is
<1>7. CASE ~st.in /\ l.kind = "close"
  BY <1>7, ScanStray DEF Is
<1>8. CASE ~st.in /\ l.kind \in {"comment", "blank"}
  BY <1>8, ScanRest
<1> QED  BY <1>1, <1>2, <1>3, <1>4, <1>5, <1>6, <1>7, <1>8
LEMMA SoundSet ==
  ASSUME NEW V, NEW st \in State(V), Sound(st), NEW k \in Name, NEW v \in Value(V), NEW n, n = Set(st, k, v)
  PROVE  Sound(n)
<1>1. PICK t, c, i : t = TableOf(st, k) /\ c = KeyOf(st, k) /\ i = InlineAt(st, k)
  OBVIOUS
<1>2. /\ n \in State(V) /\ n.table = st.table /\ n.doc = st.doc \cup {<<t, c, v>>}
      /\ n.ok <=> st.ok /\ ~Defined(st, t, c) /\ (i => \A m \in Mine : <<m>> \notin st.doc)
  BY <1>1, SetMore
<1>3. (t = "me" /\ c = "inline") \/ t = st.table
  BY <1>1 DEF TableOf, KeyOf
<1>4. ASSUME NEW a, NEW b, NEW w, a \in Mine, <<a, b, w>> \in n.doc PROVE <<a>> \in n.doc \/ (a = "me" /\ b = "inline")
  <2>1. CASE <<a, b, w>> \in st.doc
    BY <1>2, <1>4, <2>1 DEF Sound
  <2>2. CASE <<a, b, w>> \notin st.doc
    <3>1. a = t /\ b = c
      BY <1>2, <1>4, <2>2, FactApart
    <3> QED  BY <1>2, <1>3, <1>4, <3>1 DEF Sound
  <2> QED  BY <2>1, <2>2
<1>5. ASSUME n.ok, NEW a, NEW b, NEW w, NEW u, <<a, b, w>> \in n.doc, <<a, b, u>> \in n.doc PROVE w = u
  <2>1. st.ok /\ ~Defined(st, t, c)
    BY <1>2, <1>5
  <2>2. \A z : <<t, c, z>> \notin st.doc
    <3>1. SUFFICES ASSUME NEW z, <<t, c, z>> \in st.doc PROVE Defined(st, t, c)
      BY <2>1
    <3>2. <<t, c, z>> \in Facts(V)
      BY <3>1, StateFields
    <3>3. Len(<<t, c, z>>) = 3 /\ <<t, c, z>>[1] = t /\ <<t, c, z>>[2] = c
      OBVIOUS
    <3> QED  BY <3>1, <3>3 DEF Defined
  <2>3. (<<a, b, w>> \in st.doc \/ (a = t /\ b = c /\ w = v)) /\ (<<a, b, u>> \in st.doc \/ (a = t /\ b = c /\ u = v))
    BY <1>2, <1>5, FactApart
  <2>4. CASE a = t /\ b = c
    BY <2>2, <2>3, <2>4
  <2>5. CASE ~(a = t /\ b = c)
    BY <2>1, <2>3, <2>5 DEF Sound
  <2> QED  BY <2>4, <2>5
<1>6. n.table \in Mine => <<n.table>> \in n.doc
  BY <1>2 DEF Sound
<1> QED  BY <1>4, <1>5, <1>6 DEF Sound
LEMMA SoundHeader ==
  ASSUME NEW V, NEW st \in State(V), Sound(st), NEW t, NEW n, n.table = t, n.doc = st.doc \cup {<<t>>},
         n.ok => st.ok
  PROVE  Sound(n)
<1>1. ASSUME NEW a, NEW b, NEW w PROVE <<a, b, w>> \in n.doc <=> <<a, b, w>> \in st.doc
  BY FactApart
<1>2. ASSUME NEW a, NEW b, NEW w, a \in Mine, <<a, b, w>> \in n.doc PROVE <<a>> \in n.doc \/ (a = "me" /\ b = "inline")
  BY <1>1, <1>2 DEF Sound
<1>3. ASSUME n.ok, NEW a, NEW b, NEW w, NEW u, <<a, b, w>> \in n.doc, <<a, b, u>> \in n.doc PROVE w = u
  BY <1>1, <1>3 DEF Sound
<1> QED  BY <1>2, <1>3 DEF Sound
LEMMA SoundStep ==
  ASSUME NEW V, NEW st \in State(V), Sound(st), NEW l \in Line(V)
  PROVE  Sound(Scan(st, l))
<1>1. PICK n : n = Scan(st, l)
  OBVIOUS
<1>2. CASE n.doc = st.doc /\ n.table = st.table /\ (n.ok => st.ok)
  <2>1. Sound(n)
    BY <1>2 DEF Sound
  <2> QED  BY <1>1, <2>1
<1>3. CASE \E k \in Name, v \in Value(V) : n = Set(st, k, v)
  BY <1>1, <1>3, SoundSet
<1>4. CASE ~st.in /\ l.kind = "header"
  <2>1. PICK t : t = l.table
    OBVIOUS
  <2>4. n \in State(V) /\ n.table = t /\ n.doc = st.doc \cup {<<t>>} /\ ~n.in /\ n.text = st.text
        /\ (n.ok <=> (st.ok /\ ~(<<t>> \in st.doc \/ (t \in Mine /\ Defined(st, "me", "inline")))))
    BY <1>1, <1>4, <2>1, HeaderStep
  <2>2. n.table = t /\ n.doc = st.doc \cup {<<t>>} /\ (n.ok => st.ok)
    BY <2>4
  <2>3. Sound(n)
    BY <2>2, SoundHeader
  <2> QED  BY <1>1, <2>3
<1>5. \/ n.doc = st.doc /\ n.table = st.table /\ (n.ok => st.ok) /\ (n.in \/ n.text = st.text)
      \/ \E k \in Name, v \in Value(V) : n = Set(st, k, v)
      \/ ~st.in /\ l.kind = "header"
  BY <1>1, ScanCases
<1> QED  BY <1>2, <1>3, <1>4, <1>5
LEMMA SoundText ==
  ASSUME NEW V, NEW s \in Seq(Line(V)) PROVE Sound(Scanned(s))
<1> DEFINE P == {st \in State(V) : Sound(st)}
<1>1. Scan0 \in P
  <2>1. Sound(Scan0)
    BY DEF Sound, Scan0, Mine
  <2> QED  BY <2>1, ScanStart
<1>2. \A st \in P, l \in Line(V) : Scan(st, l) \in P
  BY SoundStep, ScanType
<1>3. P \in SUBSET State(V)
  OBVIOUS
<1> HIDE DEF P
<1>4. Scanned(s) \in P
  BY <1>1, <1>2, <1>3, ScanCarryAll
<1> QED  BY <1>4 DEF P
\* Outside of a string there is no text.
LEMMA NoText ==
  ASSUME NEW V, NEW s \in Seq(Line(V)), ~Scanned(s).in PROVE Scanned(s).text = <<>>
<1> DEFINE P == {st \in State(V) : st.in \/ st.text = <<>>}
<1>1. Scan0 \in P
  <2>1. Scan0.text = <<>>
    BY DEF Scan0
  <2> QED  BY <2>1, ScanStart
<1>2. ASSUME NEW st \in P, NEW l \in Line(V) PROVE Scan(st, l) \in P
  <2>1. PICK n : n = Scan(st, l)
    OBVIOUS
  <2>2. n \in State(V) /\ st \in State(V)
    BY <2>1, ScanType
  <2>3. CASE st.in /\ l.kind # "close"
    BY <2>1, <2>2, <2>3, ScanText
  <2>4. CASE st.in /\ l.kind = "close"
    BY <2>1, <2>2, <2>4, ScanClose DEF Is
  <2>5. CASE ~st.in
    <3>1. st.text = <<>>
      BY <2>5
    <3>2. CASE \E k \in Name, v \in Value(V) : n = Set(st, k, v)
      BY <2>1, <2>2, <3>2, SetAny DEF Is
    <3>3. CASE l.kind = "header"
      <4>1. n.text = st.text
        <5>1. Is(Scan(st, l), V, l.table, st.text, st.doc \cup {<<l.table>>})
          BY <2>2, <2>5, <3>3, ScanHeader
        <5> QED  BY <2>1, <5>1 DEF Is
      <4> QED  BY <2>1, <2>2, <3>1, <4>1
    <3>4. CASE n.in \/ n.text = st.text
      BY <2>1, <2>2, <3>1, <3>4
    <3> QED  BY <2>1, <2>2, <3>2, <3>3, <3>4, ScanCases
  <2> QED  BY <2>1, <2>3, <2>4, <2>5
<1>3. P \in SUBSET State(V)
  OBVIOUS
<1> HIDE DEF P
<1>4. Scanned(s) \in P
  BY <1>1, <1>2, <1>3, ScanCarryAll
<1> QED  BY <1>4 DEF P

\* What an edit writes is a server as the decoder reads it.
LEMMA OverlaidProper ==
  ASSUME NEW V, NEW s \in Seq(Line(V)), Scanned(s).ok, ~Defined(Scanned(s), "me", "inline"), NEW w
  PROVE  Proper(Overlaid(Entry(Decode(s)), w))
<1>1. PICK st : st = Scanned(s)
  OBVIOUS
<1>2. st \in State(V) /\ Sound(st) /\ st.ok /\ ~Defined(st, "me", "inline") /\ Decode(s) = st.doc
  BY <1>1, ScannedType, SoundText DEF Decode
<1>3. PICK F : F = Overlaid(Entry(st.doc), w)
  OBVIOUS
<1>4. ASSUME NEW t, NEW k, NEW v
      PROVE  <<t, k, v>> \in F <=> \/ t = "me" /\ k = "command" /\ v = w
                                   \/ <<t, k, v>> \in st.doc /\ t \in Mine /\ ~(t = "me" /\ k = "command")
  <2>1. <<t, k, v>>[1] = t /\ <<t, k, v>>[2] = k /\ Len(<<t, k, v>>) = 3
    OBVIOUS
  <2>2. <<t, k, v>> # <<"me">> /\ (<<t, k, v>> = <<"me", "command", w>> <=> t = "me" /\ k = "command" /\ v = w)
    BY FactApart
  <2> QED  BY <1>3, <2>1, <2>2 DEF Overlaid, Entry
<1>5. ASSUME NEW t PROVE <<t>> \in st.doc /\ t \in Mine => <<t>> \in F
  <2>1. <<t>>[1] = t /\ Len(<<t>>) = 1
    OBVIOUS
  <2> QED  BY <1>3, <2>1 DEF Overlaid, Entry
<1>6. <<"me">> \in F
  BY <1>3 DEF Overlaid
<1>7. ASSUME NEW t, NEW k, NEW u, NEW v, <<t, k, u>> \in F, <<t, k, v>> \in F PROVE u = v
  <2>1. st.ok => (<<t, k, u>> \in st.doc /\ <<t, k, v>> \in st.doc => u = v)
    BY <1>2 DEF Sound
  <2> QED  BY <1>2, <1>4, <1>7, <2>1
<1>8. ASSUME NEW t, NEW k, NEW v, <<t, k, v>> \in F PROVE <<t>> \in F
  <2>1. CASE t = "me" /\ k = "command" /\ v = w
    BY <1>6, <2>1
  <2>2. CASE <<t, k, v>> \in st.doc /\ t \in Mine
    <3>1. <<t>> \in st.doc \/ (t = "me" /\ k = "inline")
      BY <1>2, <2>2 DEF Sound
    <3>2. CASE t = "me" /\ k = "inline"
      <4>1. Len(<<t, k, v>>) = 3 /\ <<t, k, v>>[1] = t /\ <<t, k, v>>[2] = k
        OBVIOUS
      <4>2. Defined(st, "me", "inline")
        BY <2>2, <3>2, <4>1 DEF Defined
      <4> QED  BY <1>2, <4>2
    <3> QED  BY <1>5, <2>2, <3>1, <3>2
  <2> QED  BY <1>4, <1>8, <2>1, <2>2
<1>9. ASSUME NEW v PROVE <<"me", "inline", v>> \notin F
  <2>1. SUFFICES ASSUME <<"me", "inline", v>> \in F PROVE FALSE
    OBVIOUS
  <2>2. <<"me", "inline", v>> \in st.doc
    BY <1>4, <2>1
  <2>3. Len(<<"me", "inline", v>>) = 3 /\ <<"me", "inline", v>>[1] = "me" /\ <<"me", "inline", v>>[2] = "inline"
    OBVIOUS
  <2>4. Defined(st, "me", "inline")
    BY <2>2, <2>3 DEF Defined
  <2> QED  BY <1>2, <2>4
<1> QED  BY <1>2, <1>3, <1>6, <1>7, <1>8, <1>9 DEF Proper

(* ---- what the decoder reads of an edited text ---- *)

LEMMA SameScan ==
  ASSUME NEW V, NEW x \in Seq(Line(V)), NEW y \in Seq(Line(V)), Scanned(x) = Scanned(y),
         NEW t \in Seq(Line(V))
  PROVE  Scanned(x \o t) = Scanned(y \o t)
<1> DEFINE G == {s \in Seq(Line(V)) : Scanned(x \o s) = Scanned(y \o s)}
<1>1. <<>> \in G
  <2>1. x \o <<>> = x /\ y \o <<>> = y
    OBVIOUS
  <2> QED  BY <2>1
<1>2. ASSUME NEW s \in Seq(Line(V)), NEW l \in Line(V), s \in G PROVE Append(s, l) \in G
  <2>1. x \o Append(s, l) = Append(x \o s, l) /\ x \o s \in Seq(Line(V))
    BY CatAppend, CatType
  <2>2. y \o Append(s, l) = Append(y \o s, l) /\ y \o s \in Seq(Line(V))
    BY CatAppend, CatType
  <2>3. Scanned(Append(x \o s, l)) = Scan(Scanned(x \o s), l)
    BY <2>1, ScannedAppend
  <2>4. Scanned(Append(y \o s, l)) = Scan(Scanned(y \o s), l)
    BY <2>2, ScannedAppend
  <2>5. Append(s, l) \in Seq(Line(V)) /\ Scanned(x \o s) = Scanned(y \o s)
    BY <1>2
  <2> QED  BY <2>1, <2>2, <2>3, <2>4, <2>5
<1> HIDE DEF G
<1>3. Seq(Line(V)) \subseteq G
  BY <1>1, <1>2, SeqInducts
<1> QED  BY <1>3 DEF G
LEMMA BlanksAppend ==
  ASSUME NEW S, NEW y \in Seq(S), NEW l \in S, Blanks(Append(y, l))
  PROVE  Blanks(y) /\ ~NotBlank(l)
<1>1. /\ DOMAIN y = 1..Len(y) /\ Len(y) \in Nat /\ DOMAIN Append(y, l) = 1..Len(y) + 1
      /\ \A i \in 1..Len(y) : Append(y, l)[i] = y[i]
      /\ Append(y, l)[Len(y) + 1] = l
  OBVIOUS
<1>2. \A i \in 1..Len(y) : i \in 1..Len(y) + 1
  BY <1>1
<1>3. Len(y) + 1 \in 1..Len(y) + 1
  BY <1>1
<1> QED  BY <1>1, <1>2, <1>3 DEF Blanks
LEMMA BlanksScan ==
  ASSUME NEW V, NEW x \in Seq(Line(V)), NEW y \in Seq(Line(V)), Blanks(y)
  PROVE  /\ Scanned(x \o y).in <=> Scanned(x).in
         /\ ~Scanned(x).in => Scanned(x \o y) = Scanned(x)
<1> DEFINE G == {s \in Seq(Line(V)) : Blanks(s) =>
                   /\ Scanned(x \o s).in <=> Scanned(x).in
                   /\ ~Scanned(x).in => Scanned(x \o s) = Scanned(x)}
<1>1. <<>> \in G
  <2>1. x \o <<>> = x
    OBVIOUS
  <2> QED  BY <2>1
<1>2. ASSUME NEW s \in Seq(Line(V)), NEW l \in Line(V), s \in G PROVE Append(s, l) \in G
  <2> SUFFICES ASSUME Blanks(Append(s, l))
               PROVE  /\ Scanned(x \o Append(s, l)).in <=> Scanned(x).in
                      /\ ~Scanned(x).in => Scanned(x \o Append(s, l)) = Scanned(x)
    OBVIOUS
  <2>1. x \o Append(s, l) = Append(x \o s, l) /\ x \o s \in Seq(Line(V))
    BY CatAppend, CatType
  <2>2. PICK st : st = Scanned(x \o s)
    OBVIOUS
  <2>3. st \in State(V) /\ Scanned(x \o Append(s, l)) = Scan(st, l)
    BY <2>1, <2>2, ScannedAppend
  <2>4. Blanks(s) /\ ~NotBlank(l)
    BY BlanksAppend
  <2>5. l.kind = "blank"
    BY <2>4 DEF NotBlank
  <2>6. (st.in <=> Scanned(x).in) /\ (~Scanned(x).in => st = Scanned(x))
    BY <1>2, <2>2, <2>4
  <2>7. CASE st.in
    BY <2>3, <2>5, <2>6, <2>7, ScanText
  <2>8. CASE ~st.in
    BY <2>3, <2>5, <2>6, <2>8, ScanRest
  <2> QED  BY <2>7, <2>8
<1> HIDE DEF G
<1>3. Seq(Line(V)) \subseteq G
  BY <1>1, <1>2, SeqInducts
<1> QED  BY <1>3 DEF G
\* Trimming and joining change nothing, where no string is open.
LEMMA TrimScan ==
  ASSUME NEW V, NEW x \in Seq(Line(V)), NEW y \in Seq(Line(V)), ~Scanned(x).in, ~Scanned(x \o y).in
  PROVE  Scanned(JoinStep(x, Trimmed(y))) = Scanned(x \o y)
<1>1. PICK a, b : Cut3(y, a, b, V)
  BY TrimmedCut
<1>2. PICK T : T = Trimmed(y)
  OBVIOUS
<1>3. /\ a \in Seq(Line(V)) /\ b \in Seq(Line(V)) /\ Blanks(a) /\ Blanks(b)
      /\ T \in Seq(Line(V)) /\ y = a \o T \o b
  BY <1>1, <1>2, Zenon DEF Cut3
<1>4. PICK z \in Seq(Line(V)) : z = x \o a
  BY <1>3, CatType
<1>5. Scanned(z) = Scanned(x)
  BY <1>3, <1>4, BlanksScan
<1>6. PICK u \in Seq(Line(V)) : u = z \o T
  BY <1>3, CatType
<1>7. x \o y = u \o b
  <2>0. Assoc(Line(V))
    BY AssocAll
  <2>1. PICK c \in Seq(Line(V)) : c = a \o T
    BY <1>3, CatType
  <2>2. \A q \in Seq(Line(V)), r \in Seq(Line(V)) : x \o (q \o r) = (x \o q) \o r
    BY <2>0 DEF Assoc
  <2>3. x \o (c \o b) = (x \o c) \o b /\ x \o (a \o T) = (x \o a) \o T
    BY <1>3, <2>2
  <2> QED  BY <1>3, <1>4, <1>6, <2>1, <2>3, Zenon
<1>8. Scanned(x \o y) = Scanned(u)
  <2>1. ~Scanned(u \o b).in
    BY <1>7
  <2>2. b \in Seq(Line(V)) /\ Blanks(b)
    BY <1>3
  <2>3. (Scanned(u \o b).in <=> Scanned(u).in) /\ (~Scanned(u).in => Scanned(u \o b) = Scanned(u))
    BY <2>2, BlanksScan
  <2> QED  BY <1>7, <2>1, <2>3
<1>9. Scanned(u) = Scanned(x \o T)
  BY <1>3, <1>5, <1>6, SameScan
<1>10. PICK m \in {<<>>, <<Blank>>} : JoinStep(x, T) = x \o m \o T
  BY <1>3, BlankIsLine, JoinPad
<1>11. Scanned(x \o m) = Scanned(x) /\ x \o m \in Seq(Line(V))
  BY ScanPad
<1>12. Scanned(JoinStep(x, T)) = Scanned(x \o T)
  <2>1. PICK p \in Seq(Line(V)) : p = x \o m
    BY <1>11
  <2>2. Scanned(p \o T) = Scanned(x \o T)
    <3>1. Scanned(p) = Scanned(x) /\ T \in Seq(Line(V))
      BY <1>3, <1>11, <2>1
    <3> QED  BY <3>1, SameScan
  <2> QED  BY <1>10, <2>1, <2>2
<1> QED  BY <1>2, <1>8, <1>9, <1>12
LEMMA EndedScan ==
  ASSUME NEW V, NEW w \in Weaves(V), ~Scanned(w.out).in, ~Scanned(w.out \o w.cur).in
  PROVE  Scanned(Ended(w)) = Scanned(w.out \o w.cur) /\ Ended(w) \in Seq(Line(V))
<1>1. w.out \in Seq(Line(V)) /\ w.cur \in Seq(Line(V))
  BY WeaveFields
<1>2. PICK x, y : x = w.out /\ y = w.cur
  OBVIOUS
<1>3. Scanned(JoinStep(x, Trimmed(y))) = Scanned(x \o y)
  BY <1>1, <1>2, TrimScan
<1>4. Ended(w) = JoinStep(x, Trimmed(y))
  BY <1>2 DEF Ended
<1>5. Ended(w) \in Seq(Line(V))
  BY EndedType
<1> QED  BY <1>2, <1>3, <1>4, <1>5
\* A block after a text that leaves no string open.
LEMMA JoinSets ==
  ASSUME NEW V, NEW x \in Seq(Line(V)), NEW b \in Seq(Line(V)), NEW X, Sets(b, X, V), Free(Scanned(x))
  PROVE  \E t : Stands(Scanned(JoinStep(x, b)), t, Scanned(x).doc \cup X)
<1>1. PICK m \in {<<>>, <<Blank>>} : JoinStep(x, b) = x \o m \o b
  BY BlankIsLine, JoinPad
<1>2. Scanned(x \o m) = Scanned(x) /\ x \o m \in Seq(Line(V))
  BY ScanPad DEF Free
<1>3. PICK p \in Seq(Line(V)) : p = x \o m
  BY <1>2
<1>4. \E t : Stands(Scanned(p \o b), t, Scanned(p).doc \cup X)
  BY <1>2, <1>3 DEF Sets
<1> QED  BY <1>1, <1>2, <1>3, <1>4

\* The facts that are not the server's, and two states that agree on them.
Other(doc) == {f \in doc : f[1] \notin Mine}
MineFacts(X) == \A f \in X : f[1] \in Mine
Sim(a, r, Y) ==
  /\ r.ok /\ r.in = a.in /\ r.text = a.text /\ r.table = a.table
  /\ r.doc = Other(a.doc) \cup Y
LEMMA OtherHas ==
  ASSUME NEW d, NEW Y, MineFacts(Y), NEW t, t \notin Mine
  PROVE  /\ <<t>> \in Other(d) \cup Y <=> <<t>> \in d
         /\ \A k, v : <<t, k, v>> \in Other(d) \cup Y <=> <<t, k, v>> \in d
<1>1. <<t>>[1] = t /\ \A k, v : <<t, k, v>>[1] = t
  OBVIOUS
<1> QED  BY <1>1 DEF Other, MineFacts
LEMMA OtherMore ==
  ASSUME NEW d, NEW f
  PROVE  Other(d \cup {f}) = IF f[1] \in Mine THEN Other(d) ELSE Other(d) \cup {f}
BY DEF Other
LEMMA SimSet ==
  ASSUME NEW V, NEW a \in State(V), NEW r \in State(V), NEW Y, Sim(a, r, Y), MineFacts(Y),
         a.table \notin Mine, NEW k \in Name, NEW v \in Value(V), NEW n, n = Set(a, k, v),
         NEW m, m = Set(r, k, v), n.ok, ~Defined(n, "me", "inline")
  PROVE  Sim(n, m, Y)
<1>1. PICK t, c, i : t = TableOf(a, k) /\ c = KeyOf(a, k) /\ i = InlineAt(a, k)
  OBVIOUS
<1>2. a.table = r.table /\ r.ok /\ r.doc = Other(a.doc) \cup Y
  BY DEF Sim
<1>3. t = TableOf(r, k) /\ c = KeyOf(r, k) /\ i = InlineAt(r, k)
  BY <1>1, <1>2 DEF TableOf, KeyOf, InlineAt
<1>4. /\ n.table = a.table /\ ~n.in /\ n.text = <<>> /\ n.doc = a.doc \cup {<<t, c, v>>} /\ n \in State(V)
      /\ n.ok <=> a.ok /\ ~Defined(a, t, c) /\ (i => \A z \in Mine : <<z>> \notin a.doc)
      /\ \A x, y : Defined(n, x, y) <=> Defined(a, x, y) \/ (x = t /\ y = c)
  BY <1>1, SetMore
<1>5. /\ m.table = r.table /\ ~m.in /\ m.text = <<>> /\ m.doc = r.doc \cup {<<t, c, v>>} /\ m \in State(V)
      /\ m.ok <=> r.ok /\ ~Defined(r, t, c) /\ (i => \A z \in Mine : <<z>> \notin r.doc)
  BY <1>3, SetMore
<1>6. ~i
  BY <1>1, <1>4 DEF TableOf, KeyOf
<1>7. t = a.table
  BY <1>1, <1>6 DEF TableOf
<1>8. ~Defined(r, t, c)
  <2>1. SUFFICES ASSUME Defined(r, t, c) PROVE FALSE
    OBVIOUS
  <2>2. PICK u \in Value(V) : <<t, c, u>> \in r.doc
    BY <2>1, DefinedIs
  <2>3. <<t, c, u>> \in a.doc
    BY <1>2, <1>7, <2>2, OtherHas
  <2>4. Defined(a, t, c)
    BY <2>3, DefinedIs
  <2> QED  BY <1>4, <2>4
<1>9. m.doc = Other(n.doc) \cup Y
  <2>1. PICK f : f = <<t, c, v>>
    OBVIOUS
  <2>2. f[1] = t
    BY <2>1
  <2>3. Other(a.doc \cup {f}) = Other(a.doc) \cup {f}
    BY <1>7, <2>2, OtherMore
  <2> QED  BY <1>2, <1>4, <1>5, <2>1, <2>3
<1>10. n.in = FALSE /\ m.in = FALSE
  BY <1>4, <1>5, StateFields
<1> QED  BY <1>2, <1>4, <1>5, <1>6, <1>8, <1>9, <1>10 DEF Sim
LEMMA SimHeader ==
  ASSUME NEW V, NEW a \in State(V), NEW r \in State(V), NEW Y, a.ok, r.ok,
         r.doc = Other(a.doc) \cup Y, MineFacts(Y),
         ~a.in, ~r.in, a.text = <<>>, r.text = <<>>, NEW l \in Line(V), IsHeader(l), ~Target(l),
         NEW n, n = Scan(a, l), NEW m, m = Scan(r, l), n.ok
  PROVE  Sim(n, m, Y) /\ n.table \notin Mine /\ ~n.in /\ ~m.in
<1>1. PICK t : t = l.table
  OBVIOUS
<1>2. l.kind = "header" /\ t \notin Mine
  BY <1>1 DEF IsHeader, Target
<1>3. /\ n \in State(V) /\ n.table = t /\ n.doc = a.doc \cup {<<t>>} /\ ~n.in /\ n.text = a.text
      /\ n.ok <=> (a.ok /\ ~(<<t>> \in a.doc \/ (t \in Mine /\ Defined(a, "me", "inline"))))
  BY <1>1, <1>2, HeaderStep
<1>4. /\ m \in State(V) /\ m.table = t /\ m.doc = r.doc \cup {<<t>>} /\ ~m.in /\ m.text = r.text
      /\ m.ok <=> (r.ok /\ ~(<<t>> \in r.doc \/ (t \in Mine /\ Defined(r, "me", "inline"))))
  BY <1>1, <1>2, HeaderStep
<1>5. <<t>> \notin a.doc
  BY <1>3
<1>6. <<t>> \notin r.doc
  BY <1>2, <1>5, OtherHas
<1>7. m.doc = Other(n.doc) \cup Y
  <2>1. PICK f : f = <<t>>
    OBVIOUS
  <2>2. f[1] = t
    BY <2>1
  <2>3. Other(a.doc \cup {f}) = Other(a.doc) \cup {f}
    BY <1>2, <2>2, OtherMore
  <2> QED  BY <1>3, <1>4, <2>1, <2>3
<1>8. n.in = FALSE /\ m.in = FALSE
  BY <1>3, <1>4, StateFields
<1> QED  BY <1>2, <1>3, <1>4, <1>6, <1>7, <1>8 DEF Sim
LEMMA SimStep ==
  ASSUME NEW V, NEW a \in State(V), NEW r \in State(V), NEW Y, Sim(a, r, Y), MineFacts(Y), a.ok,
         a.table \notin Mine, ~a.in => a.text = <<>>, NEW l \in Line(V), a.in \/ ~Target(l),
         NEW n, n = Scan(a, l), NEW m, m = Scan(r, l), n.ok, ~Defined(n, "me", "inline")
  PROVE  Sim(n, m, Y) /\ n.table \notin Mine
<1>1. l.kind \in {"header", "key", "open", "close", "comment", "blank"}
  BY LineKinds
<1>2. /\ r.ok /\ r.in = a.in /\ r.text = a.text /\ r.table = a.table
      /\ r.doc = Other(a.doc) \cup Y
  BY DEF Sim
<1>3. CASE a.in /\ l.kind # "close"
  <2>1. Is(n, V, a.table, Append(a.text, l), a.doc) /\ n.in /\ (n.ok <=> a.ok)
    BY <1>3, ScanText
  <2>2. Is(m, V, r.table, Append(r.text, l), r.doc) /\ m.in /\ (m.ok <=> r.ok)
    BY <1>2, <1>3, ScanText
  <2>3. n \in State(V) /\ m \in State(V) /\ n.in \in BOOLEAN /\ m.in \in BOOLEAN
    BY <2>1, <2>2, StateFields DEF Is
  <2> QED  BY <1>2, <2>1, <2>2, <2>3 DEF Is, Sim
<1>4. CASE a.in /\ l.kind = "close"
  <2>1. n = Set(a, "text", a.text) /\ m = Set(r, "text", a.text)
    BY <1>2, <1>4 DEF Scan
  <2>2. "text" \in Name /\ a.text \in Value(V)
    BY StateFields DEF Name, Value
  <2>3. Sim(n, m, Y)
    BY <2>1, <2>2, SimSet
  <2>4. n.table = a.table
    BY <2>1, <2>2, SetAny DEF Is
  <2> QED  BY <2>3, <2>4
<1>5. CASE ~a.in /\ l.kind = "header"
  BY <1>2, <1>5, SimHeader DEF IsHeader
<1>6. CASE ~a.in /\ l.kind = "key"
  <2>1. PICK k \in Name, v \in Value(V) : k = l.key /\ v = l.value
    BY <1>6, ScanKey
  <2>2. n = Set(a, k, v) /\ m = Set(r, k, v)
    BY <1>2, <1>6, <2>1, ScanKey
  <2>3. Sim(n, m, Y)
    BY <2>2, SimSet
  <2>4. n.table = a.table
    BY <2>2, SetAny DEF Is
  <2> QED  BY <2>3, <2>4
<1>7. CASE ~a.in /\ l.kind = "open"
  <2>1. Is(n, V, a.table, a.text, a.doc) /\ n.in /\ (n.ok <=> a.ok)
    BY <1>7, ScanOpen
  <2>2. Is(m, V, r.table, r.text, r.doc) /\ m.in /\ (m.ok <=> r.ok)
    BY <1>2, <1>7, ScanOpen
  <2>3. n \in State(V) /\ m \in State(V) /\ n.in \in BOOLEAN /\ m.in \in BOOLEAN
    BY <2>1, <2>2, StateFields DEF Is
  <2> QED  BY <1>2, <2>1, <2>2, <2>3 DEF Is, Sim
<1>8. CASE ~a.in /\ l.kind = "close"
  BY <1>8, ScanStray
<1>9. CASE ~a.in /\ l.kind \in {"comment", "blank"}
  <2>1. n = a /\ m = r
    BY <1>2, <1>9, ScanRest
  <2> QED  BY <2>1
<1> QED  BY <1>1, <1>3, <1>4, <1>5, <1>6, <1>7, <1>8, <1>9

\* The edit of the lines so far, as the decoder reads it.
Placed(w, X) == IF w.seen THEN X ELSE {}
Tracks(w, a, X) ==
  /\ ~Scanned(w.out).in
  /\ w.mine <=> a.table \in Mine
  /\ w.mine => /\ Scanned(w.out \o w.cur) = Scanned(w.out) /\ Scanned(w.out).ok
               /\ Scanned(w.out).doc = Other(a.doc) \cup Placed(w, X)
  /\ ~w.mine => Sim(a, Scanned(w.out \o w.cur), Placed(w, X))
LEMMA MineStep ==
  ASSUME NEW V, NEW a \in State(V), a.table \in Mine, NEW l \in Line(V), a.in \/ ~IsHeader(l),
         NEW n, n = Scan(a, l)
  PROVE  Other(n.doc) = Other(a.doc) /\ n.table = a.table
<1>1. CASE n.doc = a.doc /\ n.table = a.table
  BY <1>1
<1>2. CASE \E k \in Name, v \in Value(V) : n = Set(a, k, v)
  <2>1. PICK k \in Name, v \in Value(V) : n = Set(a, k, v)
    BY <1>2
  <2>2. TableOf(a, k) = a.table
    BY DEF TableOf, InlineAt, Mine
  <2>3. PICK t, c : t = TableOf(a, k) /\ c = KeyOf(a, k)
    OBVIOUS
  <2>4. n.table = a.table /\ n.doc = a.doc \cup {<<t, c, v>>}
    BY <2>1, <2>3, SetMore
  <2>5. PICK f : f = <<t, c, v>>
    OBVIOUS
  <2>6. f[1] = t
    BY <2>5
  <2> QED  BY <2>2, <2>3, <2>4, <2>5, <2>6, OtherMore, ZenonT(30)
<1>3. ~(~a.in /\ l.kind = "header")
  BY DEF IsHeader
<1> QED  BY <1>1, <1>2, <1>3, ScanCases
LEMMA WeaveStepFields ==
  ASSUME NEW V, NEW w \in Weaves(V), NEW l \in Line(V), NEW b, NEW u, u = WeaveStep(w, l, b)
  PROVE  /\ IsHeader(l) =>
              /\ u.out = (IF Target(l) /\ ~w.seen THEN JoinStep(Ended(w), b) ELSE Ended(w))
              /\ u.cur = (IF Target(l) THEN <<>> ELSE <<l>>)
              /\ u.mine = Target(l) /\ u.seen = (Target(l) \/ w.seen)
         /\ ~IsHeader(l) =>
              /\ u.out = w.out /\ u.mine = w.mine /\ u.seen = w.seen
              /\ u.cur = (IF w.mine /\ IsContent(l) THEN <<>> ELSE Append(w.cur, l))
<1>1. CASE IsHeader(l)
  BY <1>1 DEF WeaveStep
<1>2. CASE ~IsHeader(l)
  BY <1>2 DEF WeaveStep
<1> QED  BY <1>1, <1>2
LEMMA TracksHeader ==
  ASSUME NEW V, NEW w \in Weaves(V), NEW a \in State(V), NEW b \in Seq(Line(V)), NEW X, Sets(b, X, V),
         MineFacts(X), Tracks(w, a, X), NEW l \in Line(V), ~a.in, a.ok, a.text = <<>>, IsHeader(l),
         NEW n, n = Scan(a, l), n.ok
  PROVE  Tracks(WeaveStep(w, l, b), n, X)
<1>1. PICK out, cur, o, r : out = w.out /\ cur = w.cur /\ o = Scanned(out) /\ r = Scanned(out \o cur)
  OBVIOUS
<1>2. out \in Seq(Line(V)) /\ cur \in Seq(Line(V)) /\ out \o cur \in Seq(Line(V))
  BY <1>1, WeaveFields, CatType
<1>3. PICK Y : Y = Placed(w, X)
  OBVIOUS
<1>4. ~o.in /\ ~r.in /\ r.ok /\ r.doc = Other(a.doc) \cup Y /\ r \in State(V)
  <2>1. r \in State(V)
    BY <1>1, <1>2, ScannedType
  <2>2. w.mine \in BOOLEAN
    BY WeaveFields
  <2> QED  BY <1>1, <1>3, <2>1, <2>2 DEF Tracks, Sim
<1>5. MineFacts(Y)
  BY <1>3 DEF MineFacts, Placed
<1>6. PICK e \in Seq(Line(V)) : e = Ended(w) /\ Scanned(e) = r
  BY <1>1, <1>4, EndedScan
<1>7. PICK u : u = WeaveStep(w, l, b)
  OBVIOUS
<1>8. /\ u.out = (IF Target(l) /\ ~w.seen THEN JoinStep(e, b) ELSE e)
      /\ u.cur = (IF Target(l) THEN <<>> ELSE <<l>>)
      /\ u.mine = Target(l) /\ u.seen = (Target(l) \/ w.seen)
  <2>1. /\ IsHeader(l) =>
              /\ u.out = (IF Target(l) /\ ~w.seen THEN JoinStep(Ended(w), b) ELSE Ended(w))
              /\ u.cur = (IF Target(l) THEN <<>> ELSE <<l>>)
              /\ u.mine = Target(l) /\ u.seen = (Target(l) \/ w.seen)
    BY <1>7, WeaveStepFields
  <2> QED  BY <1>6, <2>1, Zenon
<1>9. w.seen \in BOOLEAN
  BY WeaveFields
<1>10. PICK t : t = l.table
  OBVIOUS
<1>11. n.table = t /\ n.doc = a.doc \cup {<<t>>}
  <2>1. l.kind = "header"
    BY DEF IsHeader
  <2>2. Is(n, V, t, a.text, a.doc \cup {<<t>>})
    BY <1>10, <2>1, ScanHeader
  <2> QED  BY <2>2 DEF Is
<1>12. CASE Target(l)
  <2>1. t \in Mine
    BY <1>10, <1>12 DEF Target
  <2>2. Other(n.doc) = Other(a.doc)
    <3>1. PICK f : f = <<t>>
      OBVIOUS
    <3>2. f[1] = t
      BY <3>1
    <3>3. Other(a.doc \cup {f}) = Other(a.doc)
      BY <2>1, <3>2, OtherMore
    <3> QED  BY <1>11, <3>1, <3>3
  <2>3. u.mine /\ u.seen /\ u.cur = <<>> /\ Placed(u, X) = X
    BY <1>8, <1>12 DEF Placed
  <2>4. u.out \in Seq(Line(V)) /\ ~Scanned(u.out).in /\ Scanned(u.out).ok
        /\ Scanned(u.out).doc = Other(a.doc) \cup X
    <3>1. CASE w.seen
      <4>1. Y = X /\ u.out = e
        BY <1>3, <1>8, <3>1 DEF Placed
      <4> QED  BY <1>4, <1>6, <4>1
    <3>2. CASE ~w.seen
      <4>1. Y = {} /\ u.out = JoinStep(e, b)
        BY <1>3, <1>8, <1>12, <3>2 DEF Placed
      <4>2. Free(Scanned(e))
        <5>1. Entry(r.doc) = {}
          BY <1>4, <4>1 DEF Entry, Other
        <5> QED  BY <1>4, <1>6, <5>1 DEF Free
      <4>3. PICK g : Stands(Scanned(JoinStep(e, b)), g, Scanned(e).doc \cup X)
        BY <4>2, JoinSets
      <4>4. JoinStep(e, b) \in Seq(Line(V))
        BY JoinStepType
      <4>5. Scanned(e).doc = Other(a.doc)
        BY <1>4, <1>6, <4>1
      <4> QED  BY <4>1, <4>3, <4>4, <4>5 DEF Stands
    <3> QED  BY <1>9, <3>1, <3>2
  <2>5. u.out \o u.cur = u.out
    BY <2>3, <2>4
  <2>6. Tracks(u, n, X)
    BY <1>11, <2>1, <2>2, <2>3, <2>4, <2>5 DEF Tracks
  <2> QED  BY <1>7, <2>6
<1>13. CASE ~Target(l)
  <2>1. ~u.mine /\ u.seen = w.seen /\ u.out = e /\ u.cur = <<l>> /\ Placed(u, X) = Y
    BY <1>3, <1>8, <1>9, <1>13 DEF Placed
  <2>2. r.text = <<>>
    BY <1>2, <1>1, <1>4, NoText
  <2>3. PICK m : m = Scan(r, l)
    OBVIOUS
  <2>4. Sim(n, m, Y) /\ n.table \notin Mine
    BY <1>4, <1>5, <1>13, <2>2, <2>3, SimHeader
  <2>5. u.out \o u.cur = Append(e, l)
    BY <2>1
  <2>6. Scanned(Append(e, l)) = m
    BY <1>6, <2>3, ScannedAppend
  <2>7. Scanned(u.out) = r /\ Scanned(u.out \o u.cur) = m
    BY <1>6, <2>1, <2>5, <2>6
  <2>8. Tracks(u, n, X)
    BY <1>4, <2>1, <2>4, <2>7 DEF Tracks
  <2> QED  BY <1>7, <2>8
<1> QED  BY <1>12, <1>13
LEMMA TracksOn ==
  ASSUME NEW V, NEW w \in Weaves(V), NEW a \in State(V), NEW b \in Seq(Line(V)), NEW X,
         MineFacts(X), Tracks(w, a, X), NEW l \in Line(V), a.ok, ~a.in => a.text = <<>>, ~IsHeader(l),
         NEW n, n = Scan(a, l), n.ok, ~Defined(n, "me", "inline")
  PROVE  Tracks(WeaveStep(w, l, b), n, X)
<1>1. PICK out, cur, o, r : out = w.out /\ cur = w.cur /\ o = Scanned(out) /\ r = Scanned(out \o cur)
  OBVIOUS
<1>2. out \in Seq(Line(V)) /\ cur \in Seq(Line(V)) /\ out \o cur \in Seq(Line(V))
  BY <1>1, WeaveFields, CatType
<1>3. PICK u : u = WeaveStep(w, l, b)
  OBVIOUS
<1>4. /\ u.out = w.out /\ u.mine = w.mine /\ u.seen = w.seen
      /\ u.cur = (IF w.mine /\ IsContent(l) THEN <<>> ELSE Append(w.cur, l))
  <2>1. ~IsHeader(l) =>
              /\ u.out = w.out /\ u.mine = w.mine /\ u.seen = w.seen
              /\ u.cur = (IF w.mine /\ IsContent(l) THEN <<>> ELSE Append(w.cur, l))
    BY <1>3 DEF WeaveStep
  <2> QED  BY <2>1, Zenon
<1>5. PICK Y : Y = Placed(w, X) /\ Y = Placed(u, X)
  BY <1>4 DEF Placed
<1>6. w.mine \in BOOLEAN
  BY WeaveFields
<1>7. out \o Append(cur, l) = Append(out \o cur, l)
  BY <1>2, CatAppend
<1>8. Scanned(Append(out \o cur, l)) = Scan(r, l) /\ r \in State(V)
  BY <1>1, <1>2, ScannedAppend
<1>9. CASE w.mine
  <2>1. ~o.in /\ a.table \in Mine /\ r = o /\ o.ok /\ o.doc = Other(a.doc) \cup Y
    BY <1>1, <1>5, <1>9 DEF Tracks
  <2>2. Other(n.doc) = Other(a.doc) /\ n.table = a.table
    BY <2>1, MineStep
  <2>3. Scanned(u.out) = o /\ Scanned(u.out \o u.cur) = o
    <3>1. CASE IsContent(l)
      <4>1. u.cur = <<>> /\ u.out = out
        BY <1>1, <1>4, <1>9, <3>1
      <4>2. out \o <<>> = out
        BY <1>2
      <4> QED  BY <1>1, <4>1, <4>2
    <3>2. CASE ~IsContent(l)
      <4>1. u.cur = Append(cur, l) /\ u.out = out
        BY <1>1, <1>4, <1>9, <3>2
      <4>2. l.kind \in {"comment", "blank"}
        BY <3>2 DEF IsContent
      <4>3. Scan(r, l) = r
        BY <1>8, <2>1, <4>2, ScanRest
      <4> QED  BY <1>1, <1>7, <1>8, <2>1, <4>1, <4>3
    <3> QED  BY <3>1, <3>2
  <2>4. Tracks(u, n, X)
    BY <1>4, <1>5, <1>9, <2>1, <2>2, <2>3 DEF Tracks
  <2> QED  BY <1>3, <2>4
<1>10. CASE ~w.mine
  <2>1. ~o.in /\ a.table \notin Mine /\ Sim(a, r, Y)
    BY <1>1, <1>5, <1>10 DEF Tracks
  <2>2. PICK m : m = Scan(r, l)
    OBVIOUS
  <2>3. MineFacts(Y)
    BY <1>5 DEF MineFacts, Placed
  <2>4. Sim(n, m, Y) /\ n.table \notin Mine
    <3>1. ~Target(l)
      BY DEF Target
    <3> QED  BY <1>8, <2>1, <2>2, <2>3, <3>1, SimStep
  <2>5. u.cur = Append(cur, l) /\ u.out = out
    BY <1>1, <1>4, <1>10
  <2>6. Scanned(u.out) = o /\ Scanned(u.out \o u.cur) = m
    BY <1>1, <1>7, <1>8, <2>2, <2>5
  <2>7. Tracks(u, n, X)
    BY <1>4, <1>5, <1>10, <2>1, <2>4, <2>6 DEF Tracks
  <2> QED  BY <1>3, <2>7
<1> QED  BY <1>6, <1>9, <1>10

\* A text that the editor can read as the decoder does.
Easy(s) == Scanned(s).ok /\ ~Misleading(s) /\ ~Defined(Scanned(s), "me", "inline")
LEMMA DefinedStays ==
  ASSUME NEW V, NEW st \in State(V), NEW l \in Line(V), NEW t, NEW k, Defined(st, t, k)
  PROVE  Defined(Scan(st, l), t, k)
<1>1. PICK v \in Value(V) : <<t, k, v>> \in st.doc
  BY DefinedIs
<1>2. Scan(st, l) \in State(V) /\ <<t, k, v>> \in Scan(st, l).doc
  BY <1>1, ScanType
<1> QED  BY <1>1, <1>2, DefinedIs
LEMMA EasyAppend ==
  ASSUME NEW V, NEW s \in Seq(Line(V)), NEW l \in Line(V), Easy(Append(s, l))
  PROVE  /\ Easy(s) /\ ~(Scanned(s).in /\ IsHeader(l))
         /\ Scan(Scanned(s), l).ok /\ ~Defined(Scan(Scanned(s), l), "me", "inline")
<1>1. PICK st \in State(V) : st = Scanned(s) /\ Scanned(Append(s, l)) = Scan(st, l)
  BY ScannedAppend
<1>2. /\ \A i \in 1..Len(s) : Before(Append(s, l), i) = Before(s, i) /\ Append(s, l)[i] = s[i]
      /\ Before(Append(s, l), Len(s) + 1) = Scanned(s) /\ Append(s, l)[Len(s) + 1] = l
      /\ DOMAIN Append(s, l) = 1..Len(s) + 1 /\ DOMAIN s = 1..Len(s) /\ Len(s) \in Nat
  BY BeforeAppend
<1>3. Scan(st, l).ok /\ ~Defined(Scan(st, l), "me", "inline") /\ ~Misleading(Append(s, l))
  BY <1>1 DEF Easy
<1>4. st.ok /\ ~Defined(st, "me", "inline")
  BY <1>3, ScanType, DefinedStays
<1>5. ~Misleading(s)
  <2>1. SUFFICES ASSUME NEW i \in 1..Len(s), Before(s, i).in, IsHeader(s[i]) PROVE FALSE
    BY <1>2 DEF Misleading
  <2>2. i \in 1..Len(s) + 1
    BY <1>2
  <2> QED  BY <1>2, <1>3, <2>1, <2>2 DEF Misleading
<1>6. ~(Scanned(s).in /\ IsHeader(l))
  <2>1. Len(s) + 1 \in 1..Len(s) + 1
    BY <1>2
  <2> QED  BY <1>2, <1>3, <2>1 DEF Misleading
<1> QED  BY <1>1, <1>3, <1>4, <1>5, <1>6 DEF Easy
LEMMA TracksText ==
  ASSUME NEW V, NEW s \in Seq(Line(V)), NEW b \in Seq(Line(V)), NEW X, Sets(b, X, V), MineFacts(X), Easy(s)
  PROVE  Tracks(Weave(s, b), Scanned(s), X)
<1> DEFINE G == {x \in Seq(Line(V)) : Easy(x) => Tracks(Weave(x, b), Scanned(x), X)}
<1>1. <<>> \in G
  <2>1. Weave(<<>>, b) = [out |-> <<>>, cur |-> <<>>, mine |-> FALSE, seen |-> FALSE]
    BY WeaveNone
  <2>2. PICK w : w = Weave(<<>>, b)
    OBVIOUS
  <2>3. w.out = <<>> /\ w.cur = <<>> /\ w.mine = FALSE /\ w.seen = FALSE
    BY <2>1, <2>2
  <2>4. w.out \o w.cur = <<>>
    BY <2>3
  <2>5. Placed(w, X) = {}
    BY <2>3 DEF Placed
  <2>6. Scanned(w.out) = Scan0 /\ Scanned(w.out \o w.cur) = Scan0
    BY <2>3, <2>4, ScannedNone
  <2>7. Sim(Scan0, Scan0, {}) /\ ~Scan0.in /\ Scan0.table \notin Mine
    BY DEF Sim, Scan0, Other, Mine
  <2>8. Tracks(w, Scan0, X)
    BY <2>3, <2>5, <2>6, <2>7 DEF Tracks
  <2>9. Tracks(Weave(<<>>, b), Scanned(<<>>), X)
    BY <2>2, <2>8, ScannedNone
  <2> QED  BY <2>9
<1>2. ASSUME NEW x \in Seq(Line(V)), NEW l \in Line(V), x \in G PROVE Append(x, l) \in G
  <2>0. Append(x, l) \in Seq(Line(V))
    BY AppendIn
  <2> SUFFICES ASSUME Easy(Append(x, l)) PROVE Tracks(Weave(Append(x, l), b), Scanned(Append(x, l)), X)
    BY <2>0
  <2>1. PICK w \in Weaves(V) : w = Weave(x, b)
    BY WeaveType
  <2>2. PICK a \in State(V) : a = Scanned(x) /\ Scanned(Append(x, l)) = Scan(a, l)
    BY ScannedAppend
  <2>3. Easy(x) /\ ~(a.in /\ IsHeader(l)) /\ Scan(a, l).ok /\ ~Defined(Scan(a, l), "me", "inline")
    BY <2>2, EasyAppend
  <2>4. Tracks(w, a, X)
    BY <1>2, <2>1, <2>2, <2>3
  <2>5. a.ok /\ (~a.in => a.text = <<>>)
    BY <2>2, <2>3, NoText DEF Easy
  <2>6. PICK n : n = Scan(a, l)
    OBVIOUS
  <2>7. Weave(Append(x, l), b) = WeaveStep(w, l, b)
    BY <2>1, WeaveAppend
  <2>8. CASE IsHeader(l)
    <3>1. ~a.in /\ n.ok /\ a.text = <<>>
      BY <2>3, <2>5, <2>6, <2>8
    <3>2. Tracks(WeaveStep(w, l, b), n, X)
      BY <2>4, <2>5, <2>6, <2>8, <3>1, TracksHeader
    <3> QED  BY <2>2, <2>6, <2>7, <3>2
  <2>9. CASE ~IsHeader(l)
    <3>1. n.ok /\ ~Defined(n, "me", "inline")
      BY <2>3, <2>6
    <3>2. Tracks(WeaveStep(w, l, b), n, X)
      BY <2>4, <2>5, <2>6, <2>9, <3>1, TracksOn
    <3> QED  BY <2>2, <2>6, <2>7, <3>2
  <2> QED  BY <2>8, <2>9
<1> HIDE DEF G
<1>3. Seq(Line(V)) \subseteq G
  BY <1>1, <1>2, SeqInducts
<1> QED  BY <1>3 DEF G
\* The edit of such a text can be read, and says what the text says of everything
\* else, and of the server what the block says.
LEMMA EditReads ==
  ASSUME NEW V, NEW s \in Seq(Line(V)), NEW b \in Seq(Line(V)), NEW X, Sets(b, X, V), MineFacts(X),
         Easy(s), ~Scanned(s).in
  PROVE  \E t : Stands(Scanned(Assembled(s, b)), t, Other(Decode(s)) \cup X)
<1>1. PICK w \in Weaves(V) : w = Weave(s, b)
  BY WeaveType
<1>2. PICK a \in State(V) : a = Scanned(s)
  BY ScannedType
<1>3. Tracks(w, a, X)
  BY <1>1, <1>2, TracksText
<1>4. PICK out, cur, o, r : out = w.out /\ cur = w.cur /\ o = Scanned(out) /\ r = Scanned(out \o cur)
  OBVIOUS
<1>5. out \in Seq(Line(V)) /\ cur \in Seq(Line(V)) /\ out \o cur \in Seq(Line(V))
  BY <1>4, WeaveFields, CatType
<1>6. ~o.in /\ ~r.in /\ r.ok /\ r.doc = Other(a.doc) \cup Placed(w, X)
  <2>1. w.mine \in BOOLEAN
    BY WeaveFields
  <2> QED  BY <1>2, <1>3, <1>4, <2>1 DEF Tracks, Sim
<1>7. PICK e \in Seq(Line(V)) : e = Ended(w) /\ Scanned(e) = r
  BY <1>4, <1>6, EndedScan
<1>8. Assembled(s, b) = IF w.seen THEN e ELSE JoinStep(e, b)
  BY <1>1, <1>7, AssembledIs
<1>9. w.seen \in BOOLEAN
  BY WeaveFields
<1>10. CASE w.seen
  <2>1. r.doc = Other(a.doc) \cup X /\ Scanned(Assembled(s, b)) = r
    BY <1>6, <1>7, <1>8, <1>10 DEF Placed
  <2> QED  BY <1>2, <1>6, <2>1 DEF Stands, Decode
<1>11. CASE ~w.seen
  <2>1. r.doc = Other(a.doc) /\ Assembled(s, b) = JoinStep(e, b)
    BY <1>6, <1>8, <1>11 DEF Placed
  <2>2. Free(Scanned(e))
    <3>1. Entry(r.doc) = {}
      BY <2>1 DEF Entry, Other
    <3> QED  BY <1>6, <1>7, <3>1 DEF Free
  <2>3. \E t : Stands(Scanned(JoinStep(e, b)), t, Scanned(e).doc \cup X)
    BY <2>2, JoinSets
  <2> QED  BY <1>2, <1>7, <2>1, <2>3 DEF Decode
<1> QED  BY <1>9, <1>10, <1>11
LEMMA EditGuarded ==
  ASSUME NEW V, NEW s \in Seq(Line(V)), NEW b \in Seq(Line(V)), NEW X, Sets(b, X, V), MineFacts(X),
         Easy(s), ~Scanned(s).in, NEW e, e = Assembled(s, b)
  PROVE  guardTOMLEdit(s, e) /\ Entry(Decode(e)) = X
<1>1. PICK t : Stands(Scanned(e), t, Other(Decode(s)) \cup X)
  BY EditReads
<1>2. Valid(e) /\ Decode(e) = Other(Decode(s)) \cup X
  BY <1>1 DEF Stands, Valid, Decode
<1>3. Entry(Decode(e)) = X
  BY <1>2 DEF Entry, Other, MineFacts
<1>4. withoutServer(Decode(e)) = withoutServer(Decode(s))
  BY <1>2 DEF withoutServer, Entry, Other, MineFacts
<1> QED  BY <1>2, <1>3, <1>4 DEF guardTOMLEdit

(* ---- when an edit is not refused ---- *)
\* The server is not there, but as a key.
Bare(st) == st.table \notin Mine /\ (Defined(st, "me", "inline") \/ Entry(st.doc) = {})
LEMMA EntryMore ==
  ASSUME NEW d, NEW f, f[1] \notin Mine, Entry(d) = {} PROVE Entry(d \cup {f}) = {}
BY DEF Entry
LEMMA BareStep ==
  ASSUME NEW V, NEW st \in State(V), Bare(st), NEW l \in Apart(Line(V)), NEW n, n = Scan(st, l)
  PROVE  Bare(n)
<1>1. l \in Line(V) /\ ~Target(l)
  BY DEF Apart
<1>2. n \in State(V)
  BY <1>1, ScanType
<1>3. CASE n.doc = st.doc /\ n.table = st.table
  <2>1. Defined(n, "me", "inline") <=> Defined(st, "me", "inline")
    BY <1>2, <1>3, DefinedSame
  <2> QED  BY <1>3, <2>1 DEF Bare
<1>4. CASE \E k \in Name, v \in Value(V) : n = Set(st, k, v)
  <2>1. PICK k \in Name, v \in Value(V) : n = Set(st, k, v)
    BY <1>4
  <2>2. PICK t, c, i : t = TableOf(st, k) /\ c = KeyOf(st, k) /\ i = InlineAt(st, k)
    OBVIOUS
  <2>3. /\ n.table = st.table /\ n.doc = st.doc \cup {<<t, c, v>>}
        /\ \A x, y : Defined(n, x, y) <=> Defined(st, x, y) \/ (x = t /\ y = c)
    BY <2>1, <2>2, SetMore
  <2>4. CASE InlineAt(st, k)
    <3>1. t = "me" /\ c = "inline"
      BY <2>2, <2>4 DEF TableOf, KeyOf
    <3> QED  BY <2>3, <3>1 DEF Bare
  <2>5. CASE ~InlineAt(st, k)
    <3>1. t \notin Mine
      BY <2>2, <2>5 DEF TableOf, Bare
    <3>2. PICK f : f = <<t, c, v>>
      OBVIOUS
    <3>3. f[1] = t
      BY <3>2
    <3>4. Entry(st.doc) = {} => Entry(n.doc) = {}
      BY <2>3, <3>1, <3>2, <3>3, EntryMore
    <3> QED  BY <2>3, <3>4 DEF Bare
  <2> QED  BY <2>4, <2>5
<1>5. CASE ~st.in /\ l.kind = "header"
  <2>1. PICK t : t = l.table
    OBVIOUS
  <2>2. n.table = t /\ n.doc = st.doc \cup {<<t>>}
    <3>1. ~st.in /\ l.kind = "header" /\ l \in Line(V)
      BY <1>1, <1>5
    <3>2. /\ n \in State(V) /\ n.table = t /\ n.doc = st.doc \cup {<<t>>} /\ ~n.in /\ n.text = st.text
          /\ n.ok <=> (st.ok /\ ~(<<t>> \in st.doc \/ (t \in Mine /\ Defined(st, "me", "inline"))))
      BY <3>1, <2>1, HeaderStep
    <3> QED  BY <3>2
  <2>3. t \notin Mine
    BY <1>1, <1>5, <2>1 DEF Target, IsHeader
  <2>4. PICK f : f = <<t>>
    OBVIOUS
  <2>5. f[1] = t
    BY <2>4
  <2>6. Entry(st.doc) = {} => Entry(n.doc) = {}
    BY <2>2, <2>3, <2>4, <2>5, EntryMore
  <2>7. Defined(n, "me", "inline") <=> Defined(st, "me", "inline")
    BY <1>2, <2>2, DefinedTable
  <2> QED  BY <2>2, <2>3, <2>6, <2>7 DEF Bare
<1> QED  BY <1>1, <1>3, <1>4, <1>5, ScanCases
BareStates(V) == {st \in State(V) : Bare(st)}
LEMMA BareText ==
  ASSUME NEW V, NEW s \in Seq(Apart(Line(V))) PROVE Bare(Scanned(s))
<1>1. Apart(Line(V)) \in SUBSET Line(V) /\ BareStates(V) \in SUBSET State(V)
  BY DEF Apart, BareStates
<1>2. \A st \in BareStates(V), l \in Apart(Line(V)) : Scan(st, l) \in BareStates(V)
  <2>1. SUFFICES ASSUME NEW st \in BareStates(V), NEW l \in Apart(Line(V))
                 PROVE Scan(st, l) \in BareStates(V)
    OBVIOUS
  <2>2. st \in State(V) /\ Bare(st)
    BY DEF BareStates
  <2>3. Scan(st, l) \in State(V)
    BY <1>1, <2>2, ScanType
  <2>4. Bare(Scan(st, l))
    BY <2>2, BareStep
  <2> QED  BY <2>3, <2>4 DEF BareStates
<1>3. Scan0 \in BareStates(V)
  <2>1. Bare(Scan0)
    BY DEF Bare, Scan0, Entry, Mine
  <2> QED  BY <2>1, ScanStart DEF BareStates
<1>4. Scanned(s) \in BareStates(V)
  BY <1>1, <1>2, <1>3, ScanCarryAll
<1> QED  BY <1>4 DEF BareStates
\* A text without a header of the server is one of other tables.
LEMMA NoTarget ==
  ASSUME NEW V, NEW s \in Seq(Line(V)), ~HasTarget(s) PROVE s \in Seq(Apart(Line(V)))
<1>1. \A i \in 1..Len(s) : s[i] \in Apart(Line(V))
  <2>1. SUFFICES ASSUME NEW i \in 1..Len(s) PROVE s[i] \in Apart(Line(V))
    OBVIOUS
  <2>2. i \in DOMAIN s /\ s[i] \in Line(V)
    OBVIOUS
  <2> QED  BY <2>2 DEF HasTarget, Apart
<1> QED  BY <1>1
LEMMA EntryHeader ==
  ASSUME NEW V, NEW s \in Seq(Line(V)), ~Defined(Scanned(s), "me", "inline"), Entry(Decode(s)) # {}
  PROVE  HasTarget(s)
<1> SUFFICES ASSUME ~HasTarget(s) PROVE FALSE
  OBVIOUS
<1>1. Bare(Scanned(s))
  BY NoTarget, BareText
<1> QED  BY <1>1 DEF Bare, Decode

LEMMA MisleadingAppend ==
  ASSUME NEW V, NEW s \in Seq(Line(V)), NEW l \in Line(V)
  PROVE  Misleading(Append(s, l)) <=> Misleading(s) \/ (Scanned(s).in /\ IsHeader(l))
<1>1. /\ \A i \in 1..Len(s) : Before(Append(s, l), i) = Before(s, i) /\ Append(s, l)[i] = s[i]
      /\ Before(Append(s, l), Len(s) + 1) = Scanned(s) /\ Append(s, l)[Len(s) + 1] = l
      /\ DOMAIN Append(s, l) = 1..Len(s) + 1 /\ DOMAIN s = 1..Len(s) /\ Len(s) \in Nat
  BY BeforeAppend
<1>2. ASSUME Misleading(s) PROVE Misleading(Append(s, l))
  <2>1. PICK i \in 1..Len(s) : Before(s, i).in /\ IsHeader(s[i])
    BY <1>1, <1>2 DEF Misleading
  <2>2. i \in 1..Len(s) + 1
    BY <1>1
  <2> QED  BY <1>1, <2>1, <2>2 DEF Misleading
<1>3. ASSUME Scanned(s).in, IsHeader(l) PROVE Misleading(Append(s, l))
  <2>1. Len(s) + 1 \in 1..Len(s) + 1
    BY <1>1
  <2> QED  BY <1>1, <1>3, <2>1 DEF Misleading
<1>4. ASSUME Misleading(Append(s, l)) PROVE Misleading(s) \/ (Scanned(s).in /\ IsHeader(l))
  <2>1. PICK i \in 1..Len(s) + 1 : Before(Append(s, l), i).in /\ IsHeader(Append(s, l)[i])
    BY <1>1, <1>4 DEF Misleading
  <2>2. i \in 1..Len(s) \/ i = Len(s) + 1
    BY <1>1
  <2> QED  BY <1>1, <2>1, <2>2 DEF Misleading
<1> QED  BY <1>2, <1>3, <1>4
LEMMA MisleadingEndings ==
  ASSUME NEW V, NEW s \in Seq(Line(V)), NEW e \in Eols
  PROVE  Misleading(Endings(s, e)) <=> Misleading(s)
<1> DEFINE G == {x \in Seq(Line(V)) : Misleading(Endings(x, e)) <=> Misleading(x)}
<1>1. <<>> \in G
  <2>1. Endings(<<>>, e) = <<>>
    BY DEF Endings
  <2> QED  BY <2>1
<1>2. ASSUME NEW x \in Seq(Line(V)), NEW l \in Line(V), x \in G PROVE Append(x, l) \in G
  <2>1. PICK y \in Seq(Line(V)) : y = Endings(x, e)
    BY EndingsType
  <2>2. PICK m \in Line(V) : m = WithEol(l, e) /\ m.kind = l.kind
    BY EndingType
  <2>3. Endings(Append(x, l), e) = Append(y, m)
    BY <2>1, <2>2, EndingsAppend
  <2>4. Scanned(y).in = Scanned(x).in
    BY <2>1, LikeEndings DEF Like
  <2>5. Misleading(y) <=> Misleading(x)
    BY <1>2, <2>1
  <2>6. Misleading(Append(y, m)) <=> Misleading(y) \/ (Scanned(y).in /\ IsHeader(m))
    BY MisleadingAppend
  <2>7. Misleading(Append(x, l)) <=> Misleading(x) \/ (Scanned(x).in /\ IsHeader(l))
    BY MisleadingAppend
  <2>8. IsHeader(m) <=> IsHeader(l)
    BY <2>2 DEF IsHeader
  <2>9. Append(x, l) \in Seq(Line(V))
    BY AppendIn
  <2> QED  BY <2>3, <2>4, <2>5, <2>6, <2>7, <2>8, <2>9
<1> HIDE DEF G
<1>3. Seq(Line(V)) \subseteq G
  BY <1>1, <1>2, SeqInducts
<1> QED  BY <1>3 DEF G
\* No string of a text that is not misleading holds what looks like a header.
LEMMA EasyOwn ==
  ASSUME NEW s, ~Misleading(s) PROVE OwnPlain(s)
BY DEF Misleading, OwnPlain, Own1
\* A file whose lines all end alike.
LEMMA RestoredUniform ==
  ASSUME NEW V, NEW f \in Seq(Line(V)), Uniform(f), NEW e
  PROVE  restoreLineEndings(f, e) \in {e, CRLF(e)}
<1>1. (\A i \in DOMAIN f : f[i].eol = "lf") \/ (\A i \in DOMAIN f : f[i].eol = "crlf")
  <2>1. CASE f = <<>>
    BY <2>1
  <2>2. CASE f # <<>>
    <3>1. 1 \in DOMAIN f /\ f[1] \in Line(V)
      BY <2>2
    <3>2. f[1].eol \in {"lf", "crlf"}
      BY <3>1, LineKinds DEF Eols
    <3>3. \A i \in DOMAIN f : f[i].eol = f[1].eol
      BY <3>1 DEF Uniform
    <3> QED  BY <3>2, <3>3
  <2> QED  BY <2>1, <2>2
<1> QED  BY <1>1 DEF restoreLineEndings
\* No text of lines is the refusal.
LEMMA NotRefused ==
  ASSUME NEW V, NEW x \in Seq(Line(V)) PROVE x # Refused
<1> SUFFICES ASSUME x = Refused PROVE FALSE
  OBVIOUS
<1>1. PICK l : l = x[1]
  OBVIOUS
<1>2. l \in Line(V) /\ l.kind = "refused"
  <2>1. Len(x) = 1 /\ x[1] = [kind |-> "refused"]
    BY DEF Refused
  <2> QED  BY <1>1, <2>1
<1> QED  BY <1>2, LineKinds

LEMMA EasyText ==
  ASSUME NEW V, NEW f \in Seq(FileLines(V)), NEW L, L = LF(f), Valid(L), ~Misleading(f),
         ~Defined(Scanned(L), "me", "inline")
  PROVE  Easy(L) /\ ~Scanned(L).in /\ (Entry(Decode(L)) # {} => HasTarget(L)) /\ OwnPlain(L)
<1>1. f \in Seq(Line(V)) /\ L \in Seq(Line(V)) /\ L = Endings(f, "lf")
  BY FileText
<1>2. "lf" \in Eols
  BY DEF Eols
<1>3. ~Misleading(L)
  BY <1>1, <1>2, MisleadingEndings
<1>4. Easy(L) /\ ~Scanned(L).in
  BY <1>3 DEF Easy, Valid
<1>5. Entry(Decode(L)) # {} => HasTarget(L)
  BY <1>1, EntryHeader
<1>6. OwnPlain(L)
  BY <1>3, EasyOwn
<1> QED  BY <1>4, <1>5, <1>6
LEMMA MineEntry ==
  ASSUME NEW V, NEW a \in Servers(V) PROVE MineFacts(a)
BY DEF Servers, MineFacts
LEMMA EdgeText ==
  ASSUME NEW V, NEW W, W = Value(V), NEW f \in Seq(FileLines(V)), Uniform(f),
         NEW e \in Seq(LfLines(W)), NEW out, out = restoreLineEndings(f, e)
  PROVE  out # Refused
<1>1. f \in Seq(Line(V))
  <2>1. PICK L : L = LF(f)
    OBVIOUS
  <2> QED  BY <2>1, FileText
<1>2. out = e \/ out = CRLF(e)
  BY <1>1, RestoredUniform
<1>3. e \in Seq(Line(W)) /\ CRLF(e) = Endings(e, "crlf") /\ "crlf" \in Eols
  <2>1. LfLines(W) \in SUBSET Line(W)
    BY DEF LfLines
  <2>2. e \in Seq(Line(W))
    BY <2>1, SeqSub
  <2> QED  BY <2>2, EndingsIs DEF Eols
<1>4. out \in Seq(Line(W))
  BY <1>2, <1>3, EndingsType
<1> QED  BY <1>4, NotRefused

\* An edit is refused only for a reason: if the file can be read, its lines end
\* alike, no line of a string looks like a header, and the entry is not
\* a key of [mcp_servers], then both edits are accepted (upsertTOMLServer,
\* removeTOMLServer, guardTOMLEdit).
THEOREM EasyAccepted ==
  ASSUME NEW V, NEW v \in V, NEW f \in Seq(FileLines(V)), Valid(LF(f)), ~Misleading(f), Uniform(f),
         ~Defined(Scanned(LF(f)), "me", "inline")
  PROVE  upsertTOMLServer(f, v) # Refused /\ removeTOMLServer(f) # Refused
<1>1. PICK L : L = LF(f)
  OBVIOUS
<1>2. PICK W : W = Value(V)
  OBVIOUS
<1>3. /\ L \in Seq(Line(V)) /\ L \in Seq(Line(W)) /\ L \in Seq(LfLines(W)) /\ f \in Seq(Line(V))
  <2>1. L \in Seq(Line(V)) /\ L \in Seq(FileLines(W)) /\ L \in Seq(LfLines(W)) /\ f \in Seq(Line(V))
    BY <1>1, <1>2, FileText
  <2>2. FileLines(W) \in SUBSET Line(W)
    BY FileLineIs
  <2>3. L \in Seq(Line(W))
    BY <2>1, <2>2, SeqSub
  <2> QED  BY <2>1, <2>3
<1>4. /\ Valid(L) /\ ~Defined(Scanned(L), "me", "inline") /\ Easy(L) /\ ~Scanned(L).in
      /\ (Entry(Decode(L)) # {} => HasTarget(L))
  <2>1. Valid(L) /\ ~Defined(Scanned(L), "me", "inline")
    BY <1>1
  <2> QED  BY <1>1, <2>1, EasyText
<1>5. upsertTOMLServer(f, v) # Refused
  <2>1. PICK a, b, e : /\ Upserts(L, a, b, e, v) /\ a \in Servers(V) /\ b \in Seq(Writes(W))
                       /\ e \in Seq(LfLines(W))
    <3>1. \E a, b, e : /\ Upserts(L, a, b, e, v) /\ a \in Servers(V) /\ Block(b, Value(V))
                      /\ b \in Seq(Writes(Value(V)))
                      /\ <<"me">> \in a /\ <<"me", "command", v>> \in a
                      /\ e \in Seq(LfLines(Value(V)))
      BY <1>1, UpsertParts
    <3> QED  BY <1>2, <3>1
  <2>2. a = Overlaid(Entry(Decode(L)), v) /\ b = renderTOMLServer(a) /\ e = Assembled(L, b)
    BY <2>1, Zenon DEF Upserts
  <2>3. Proper(a)
    BY <1>3, <1>4, <2>2, OverlaidProper DEF Easy
  <2>4. Sets(b, a, W)
    BY <1>2, <2>1, <2>2, <2>3, RenderSets
  <2>5. MineFacts(a)
    BY <2>1, MineEntry
  <2>6. b \in Seq(Line(W))
    <3>1. Writes(W) \in SUBSET Line(W)
      BY DEF Writes
    <3> QED  BY <2>1, <3>1, SeqSub
  <2>7. guardTOMLEdit(L, e) /\ Entry(Decode(e)) = a
    BY <1>3, <1>4, <2>2, <2>4, <2>5, <2>6, EditGuarded
  <2>8. Accepts(L, a, e)
    BY <1>4, <2>7, Zenon DEF Accepts
  <2>9. upsertTOMLServer(f, v) = restoreLineEndings(f, e)
    BY <1>1, <2>1, <2>8, UpsertIs
  <2> QED  BY <1>2, <2>1, <2>9, EdgeText
<1>6. removeTOMLServer(f) # Refused
  <2>1. PICK e : e = Assembled(L, <<>>)
    OBVIOUS
  <2>2. removeTOMLServer(f) = IF Valid(L) /\ Entry(Decode(L)) = {} THEN f
                              ELSE IF Removes(L, e) THEN restoreLineEndings(f, e)
                              ELSE Refused
    BY <1>1, <2>1, RemoveIs
  <2>3. CASE Entry(Decode(L)) = {}
    <3>1. removeTOMLServer(f) = f
      BY <1>4, <2>2, <2>3
    <3> QED  BY <1>3, <3>1, NotRefused
  <2>4. CASE Entry(Decode(L)) # {}
    <3>1. Sets(<<>>, {}, W) /\ MineFacts({}) /\ <<>> \in Seq(Line(W)) /\ <<>> \in Seq(LfLines(W))
      BY NothingSets DEF MineFacts
    <3>2. guardTOMLEdit(L, e) /\ Entry(Decode(e)) = {}
      BY <1>3, <1>4, <2>1, <3>1, EditGuarded, ZenonT(30)
    <3>3. Removes(L, e)
      BY <1>4, <2>4, <3>2, Zenon DEF Removes
    <3>4. removeTOMLServer(f) = restoreLineEndings(f, e)
      BY <2>2, <2>4, <3>3
    <3>5. e \in Seq(LfLines(W))
      BY <1>2, <1>3, <2>1, <3>1, EditLf
    <3> QED  BY <1>2, <3>4, <3>5, EdgeText
  <2> QED  BY <2>3, <2>4
<1> QED  BY <1>5, <1>6

\* The edits of a file in which no line of a string of the server's looks like a header.
THEOREM ExactEdits ==
  ASSUME NEW V, "new" \in V, NEW f \in Seq(FileLines(V)), OwnPlain(LF(f))
  PROVE  EditedExactly(f)
<1>1. PICK up, down : up = upsertTOMLServer(f, "new") /\ down = removeTOMLServer(f)
  OBVIOUS
<1>2. up # Refused => Others(LF(up)) = Others(LF(f)) /\ Valid(up) /\ <<"me", "command", "new">> \in Decode(up)
  BY <1>1, UpsertExact
<1>3. down # Refused => Others(LF(down)) = Others(LF(f)) /\ Valid(down) /\ Entry(Decode(down)) = {}
  BY <1>1, RemoveExact
<1>4. Valid(LF(f)) /\ ~Misleading(f) /\ Uniform(f) /\ ~Defined(Scanned(LF(f)), "me", "inline")
        => up # Refused /\ down # Refused
  BY <1>1, EasyAccepted
<1> QED  BY <1>1, <1>2, <1>3, <1>4, Zenon DEF EditedExactly

(* ---- the files of the checks ---- *)
\* Lines that open no string, that close none, and that are no headers.
Shut(V) == {l \in FileLines(V) : l.kind # "open"}
Within(V) == {l \in FileLines(V) : l.kind # "close"}
Bodies(V) == {l \in FileLines(V) : ~IsHeader(l)}
LEMMA PartLines ==
  \A V : /\ Shut(V) \in SUBSET Line(V) /\ Within(V) \in SUBSET Line(V) /\ Bodies(V) \in SUBSET Line(V)
         /\ FileLines(V) \in SUBSET Line(V)
BY DEF Shut, Within, Bodies, FileLines
LEMMA OwnOn ==
  ASSUME NEW V, NEW x \in Seq(Line(V)), OwnPlain(x), ~Scanned(x).in, NEW t \in Seq(Shut(V))
  PROVE  OwnPlain(x \o t) /\ ~Scanned(x \o t).in
<1> DEFINE G == {z \in Seq(Shut(V)) : OwnPlain(x \o z) /\ ~Scanned(x \o z).in}
<1>1. <<>> \in G
  BY DEF OwnPlain
<1>2. ASSUME NEW z \in Seq(Shut(V)), NEW l \in Shut(V), z \in G PROVE Append(z, l) \in G
  <2>1. x \o Append(z, l) = Append(x \o z, l) /\ x \o z \in Seq(Line(V)) /\ l \in Line(V)
        /\ Append(z, l) \in Seq(Shut(V))
    BY PartLines, CatLast
  <2>2. PICK y \in Seq(Line(V)), st \in State(V) : y = x \o z /\ st = Scanned(y)
    BY <2>1, ScannedType
  <2>3. OwnPlain(y) /\ ~st.in
    BY <1>2, <2>2
  <2>4. OwnPlain(Append(y, l))
    BY <2>1, <2>2, <2>3, OwnAppend DEF Own1
  <2>5. Scanned(Append(y, l)) = Scan(st, l)
    BY <2>1, <2>2, ScannedAppend
  <2>6. ~Scan(st, l).in
    BY <2>1, <2>2, <2>3, ScanControl DEF Shut
  <2> QED  BY <2>1, <2>2, <2>4, <2>5, <2>6
<1> HIDE DEF G
<1>3. Seq(Shut(V)) \subseteq G
  BY <1>1, <1>2, SeqInducts
<1> QED  BY <1>3 DEF G
LEMMA OwnIn ==
  ASSUME NEW V, NEW x \in Seq(Line(V)), OwnPlain(x), Scanned(x).in, Scanned(x).table \notin Mine,
         NEW t \in Seq(Within(V))
  PROVE  OwnPlain(x \o t) /\ Scanned(x \o t).in /\ Scanned(x \o t).table \notin Mine
<1> DEFINE G == {z \in Seq(Within(V)) : OwnPlain(x \o z) /\ Scanned(x \o z).in /\ Scanned(x \o z).table \notin Mine}
<1>1. <<>> \in G
  BY DEF OwnPlain
<1>2. ASSUME NEW z \in Seq(Within(V)), NEW l \in Within(V), z \in G PROVE Append(z, l) \in G
  <2>1. x \o Append(z, l) = Append(x \o z, l) /\ x \o z \in Seq(Line(V)) /\ l \in Line(V)
        /\ Append(z, l) \in Seq(Within(V))
    BY PartLines, CatLast
  <2>2. PICK y \in Seq(Line(V)), st \in State(V) : y = x \o z /\ st = Scanned(y)
    BY <2>1, ScannedType
  <2>3. OwnPlain(y) /\ st.in /\ st.table \notin Mine
    BY <1>2, <2>2
  <2>4. OwnPlain(Append(y, l))
    BY <2>1, <2>2, <2>3, OwnAppend DEF Own1
  <2>5. Scanned(Append(y, l)) = Scan(st, l)
    BY <2>1, <2>2, ScannedAppend
  <2>6. l.kind # "close"
    BY DEF Within
  <2>7. Scan(st, l).in /\ Scan(st, l).table \notin Mine
    BY <2>1, <2>2, <2>3, <2>6, ScanControl
  <2> QED  BY <2>1, <2>2, <2>4, <2>5, <2>7
<1> HIDE DEF G
<1>3. Seq(Within(V)) \subseteq G
  BY <1>1, <1>2, SeqInducts
<1> QED  BY <1>3 DEF G
LEMMA OwnBodies ==
  ASSUME NEW V, NEW x \in Seq(Line(V)), OwnPlain(x), NEW t \in Seq(Bodies(V))
  PROVE  OwnPlain(x \o t)
<1> DEFINE G == {z \in Seq(Bodies(V)) : OwnPlain(x \o z)}
<1>1. <<>> \in G
  BY DEF OwnPlain
<1>2. ASSUME NEW z \in Seq(Bodies(V)), NEW l \in Bodies(V), z \in G PROVE Append(z, l) \in G
  <2>1. x \o Append(z, l) = Append(x \o z, l) /\ x \o z \in Seq(Line(V)) /\ l \in Line(V)
        /\ Append(z, l) \in Seq(Bodies(V))
    BY PartLines, CatLast
  <2>2. PICK y \in Seq(Line(V)) : y = x \o z
    BY <2>1
  <2>3. OwnPlain(y) /\ ~IsHeader(l)
    BY <1>2, <2>2 DEF Bodies
  <2>4. OwnPlain(Append(y, l))
    BY <2>1, <2>3, OwnAppend DEF Own1
  <2> QED  BY <2>1, <2>2, <2>4
<1> HIDE DEF G
<1>3. Seq(Bodies(V)) \subseteq G
  BY <1>1, <1>2, SeqInducts
<1> QED  BY <1>3 DEF G
LEMMA OwnNone == OwnPlain(<<>>) /\ ~Scanned(<<>>).in
BY ScannedNone DEF OwnPlain, Scan0
\* A file in which no string begins.
LEMMA ShutOwn ==
  ASSUME NEW V, NEW f \in Seq(Shut(V))
  PROVE  OwnPlain(f) /\ ~Scanned(f).in /\ f \in Seq(Line(V))
<1>1. <<>> \in Seq(Line(V)) /\ <<>> \o f = f
  OBVIOUS
<1>2. OwnPlain(<<>> \o f) /\ ~Scanned(<<>> \o f).in
  BY <1>1, OwnNone, OwnOn
<1> QED  BY <1>1, <1>2, PartLines, SeqSub

LEMMA UpToIs ==
  ASSUME NEW S, NEW n \in Nat PROVE UpToLines(S, n) \subseteq Seq(S)
<1> SUFFICES ASSUME NEW f \in UpToLines(S, n) PROVE f \in Seq(S)
  OBVIOUS
<1>1. PICK k \in 0..n : f \in [1..k -> S]
  BY DEF UpToLines
<1>2. k \in Nat
  OBVIOUS
<1> QED  BY <1>1, <1>2
LEMMA UpToIn ==
  ASSUME NEW T, NEW S \in SUBSET T, NEW n \in Nat, NEW f \in UpToLines(S, n)
  PROVE  f \in Seq(T)
<1>1. f \in Seq(S)
  BY UpToIs
<1> QED  BY <1>1, SeqSub
\* The values that the files set, and an edit.
News == {"1", "new"}
LEMMA NewLines ==
  /\ Header("me") \in FileLines(News) /\ Header("me.sub") \in FileLines(News)
  /\ Header("other") \in FileLines(News) /\ Header("mcp") \in FileLines(News)
  /\ Header("far") \in FileLines(News)
  /\ Key("x", "1") \in FileLines(News) /\ Key("me", "1") \in FileLines(News)
  /\ Open \in FileLines(News) /\ Close \in FileLines(News) /\ Comment \in FileLines(News)
  /\ Blank \in FileLines(News)
<1>1. \A t \in Name : Header(t) \in FileLines(News)
  BY DEF Header, FileLines, Line, Eols
<1>2. "me" \in Name /\ "me.sub" \in Name /\ "other" \in Name /\ "mcp" \in Name /\ "far" \in Name /\ "x" \in Name
  BY DEF Name
<1>3. Key("x", "1") \in FileLines(News) /\ Key("me", "1") \in FileLines(News)
  BY <1>2 DEF Key, FileLines, Line, Eols, News
<1>4. Open \in FileLines(News) /\ Close \in FileLines(News) /\ Comment \in FileLines(News) /\ Blank \in FileLines(News)
  BY DEF Open, Close, Comment, Blank, FileLines, Line, Eols
<1> QED  BY <1>1, <1>2, <1>3, <1>4
LEMMA NewShut ==
  /\ {Header("me"), Header("me.sub"), Header("other"), Header("mcp"), Key("x", "1"), Comment, Blank}
       \in SUBSET Shut(News)
  /\ {Key("me", "1"), Header("me"), Comment} \in SUBSET Shut(News)
  /\ {Header("me"), Key("x", "1")} \in SUBSET Shut(News)
  /\ {Comment, Header("me")} \in SUBSET Shut(News)
  /\ Header("mcp") \in Shut(News) /\ Header("far") \in Shut(News) /\ Close \in Shut(News)
BY NewLines DEF Shut, Header, Key, Comment, Blank, Close
LEMMA NewWithin ==
  {Header("me"), Header("other"), Comment, Blank} \in SUBSET Within(News)
BY NewLines DEF Within, Header, Comment, Blank
\* What is needed of a file.
Fits(f) == f \in Seq(FileLines(News)) /\ OwnPlain(LF(f))
AllLf(S) == \A l \in S : l.eol = "lf"
LEMMA LfIs ==
  ASSUME NEW f \in Seq(FileLines(News)), EndsIn(f, "lf"), OwnPlain(f)
  PROVE  Fits(f)
<1>1. f \in Seq(Line(News)) /\ "lf" \in Eols
  BY PartLines, SeqSub DEF Eols
<1>2. LF(f) = f
  BY <1>1, EndingsIs, EndingsSame
<1> QED  BY <1>2 DEF Fits
\* Lines as the model writes them end in LF.
Lfs == {l \in FileLines(News) : l.eol = "lf"}
LEMMA LfsEnd ==
  ASSUME NEW f \in Seq(Lfs) PROVE f \in Seq(FileLines(News)) /\ EndsIn(f, "lf")
<1>1. Lfs \in SUBSET FileLines(News)
  BY DEF Lfs
<1>2. \A i \in DOMAIN f : f[i] \in Lfs
  OBVIOUS
<1> QED  BY <1>1, <1>2, SeqSub DEF EndsIn, Lfs
LEMMA NewLfs ==
  /\ {Header("me"), Header("me.sub"), Header("other"), Header("mcp"), Key("x", "1"), Comment, Blank}
       \in SUBSET Lfs
  /\ {Key("me", "1"), Header("me"), Comment} \in SUBSET Lfs
  /\ {Header("me"), Key("x", "1")} \in SUBSET Lfs
  /\ {Comment, Header("me")} \in SUBSET Lfs
  /\ {Header("me"), Header("other"), Comment, Blank} \in SUBSET Lfs
  /\ {Header("mcp"), Header("far"), Header("other"), Open, Close} \in SUBSET Lfs
BY NewLines DEF Lfs, Header, Key, Comment, Blank, Close, Open
LEMMA PlainFits ==
  ASSUME NEW f \in Plain PROVE Fits(f)
<1>1. f \in Seq(Shut(News)) /\ f \in Seq(Lfs)
  <2>1. CASE f \in UpToLines({Header("me"), Header("me.sub"), Header("other"), Header("mcp"),
                              Key("x", "1"), Comment, Blank}, 4)
    BY <2>1, NewShut, NewLfs, UpToIn
  <2>2. CASE \E g \in UpToLines({Key("me", "1"), Header("me"), Comment}, 2) : f = <<Header("mcp")>> \o g
    <3>1. PICK g \in UpToLines({Key("me", "1"), Header("me"), Comment}, 2) : f = <<Header("mcp")>> \o g
      BY <2>2
    <3>2. g \in Seq(Shut(News)) /\ g \in Seq(Lfs)
      BY NewShut, NewLfs, UpToIn
    <3>3. Header("mcp") \in Shut(News) /\ Header("mcp") \in Lfs
      BY NewShut, NewLfs
    <3>4. <<Header("mcp")>> \in Seq(Shut(News)) /\ <<Header("mcp")>> \in Seq(Lfs)
      BY <3>3
    <3> QED  BY <3>1, <3>2, <3>4, CatType
  <2> QED  BY <2>1, <2>2 DEF Plain
<1> QED  BY <1>1, ShutOwn, LfsEnd, LfIs

LEMMA StringyFits ==
  ASSUME NEW f \in Stringy PROVE Fits(f)
<1>0. PICK a \in Fronts, b \in Texts, c \in Backs : f = WithString(a, b, c)
  BY DEF Stringy
<1>1. f = a \o <<Header("far"), Open>> \o b \o <<Close>> \o c
  BY <1>0 DEF WithString
<1>2. a \in Seq(Shut(News)) /\ b \in Seq(Within(News)) /\ c \in Seq(Shut(News))
  BY NewShut, NewWithin, UpToIn DEF Fronts, Texts, Backs
<1>3. a \in Seq(Lfs) /\ b \in Seq(Lfs) /\ c \in Seq(Lfs)
  BY NewLfs, UpToIn DEF Fronts, Texts, Backs
<1>4. PICK h, o, z : h = Header("far") /\ o = Open /\ z = Close
  OBVIOUS
<1>5. /\ h \in Line(News) /\ o \in Line(News) /\ z \in Line(News) /\ h \in Lfs /\ o \in Lfs /\ z \in Lfs
      /\ h.kind = "header" /\ h.table = "far" /\ o.kind = "open" /\ z.kind = "close"
      /\ h \in Shut(News)
  <2>1. h \in FileLines(News) /\ o \in FileLines(News) /\ z \in FileLines(News)
    BY <1>4, NewLines
  <2>2. h \in Line(News) /\ o \in Line(News) /\ z \in Line(News)
    BY <2>1 DEF FileLines
  <2>3. h.kind = "header" /\ h.table = "far" /\ o.kind = "open" /\ z.kind = "close"
    BY <1>4 DEF Header, Open, Close
  <2> QED  BY <1>4, <2>2, <2>3, NewLfs, NewShut
<1>6. Append(a, h) \in Seq(Line(News)) /\ OwnPlain(Append(a, h)) /\ ~Scanned(Append(a, h)).in
      /\ Scanned(Append(a, h)).table = "far"
  <2>1. a \in Seq(Line(News)) /\ OwnPlain(a) /\ ~Scanned(a).in
    BY <1>2, ShutOwn
  <2>2. Append(a, h) \in Seq(Line(News))
    BY <1>5, <2>1, AppendIn
  <2>3. OwnPlain(Append(a, h))
    BY <1>5, <2>1, OwnAppend DEF Own1
  <2>4. Scanned(Append(a, h)) = Scan(Scanned(a), h) /\ Scanned(a) \in State(News)
    BY <1>5, <2>1, ScannedAppend
  <2>5. ~Scan(Scanned(a), h).in /\ Scan(Scanned(a), h).table = "far"
    BY <1>5, <2>1, <2>4, ScanControl DEF IsHeader
  <2> QED  BY <2>2, <2>3, <2>4, <2>5
<1>7. PICK x \in Seq(Line(News)) : x = Append(a, h)
  BY <1>6
<1>8. Append(x, o) \in Seq(Line(News)) /\ OwnPlain(Append(x, o)) /\ Scanned(Append(x, o)).in
      /\ Scanned(Append(x, o)).table = "far"
  <2>1. OwnPlain(x) /\ ~Scanned(x).in /\ Scanned(x).table = "far"
    BY <1>6, <1>7
  <2>2. Append(x, o) \in Seq(Line(News))
    BY <1>5, AppendIn
  <2>3. OwnPlain(Append(x, o))
    BY <1>5, <2>1, OwnAppend DEF Own1
  <2>4. Scanned(Append(x, o)) = Scan(Scanned(x), o) /\ Scanned(x) \in State(News)
    BY <1>5, ScannedAppend
  <2>5. Scan(Scanned(x), o).in /\ Scan(Scanned(x), o).table = "far"
    BY <1>5, <2>1, <2>4, ScanControl DEF IsHeader
  <2> QED  BY <2>2, <2>3, <2>4, <2>5
<1>9. PICK y \in Seq(Line(News)) : y = Append(x, o)
  BY <1>8
<1>10. y \o b \in Seq(Line(News)) /\ OwnPlain(y \o b) /\ Scanned(y \o b).in /\ Scanned(y \o b).table \notin Mine
  <2>1. OwnPlain(y) /\ Scanned(y).in /\ Scanned(y).table \notin Mine
    BY <1>8, <1>9 DEF Mine
  <2>2. OwnPlain(y \o b) /\ Scanned(y \o b).in /\ Scanned(y \o b).table \notin Mine
    BY <1>2, <2>1, OwnIn
  <2>3. b \in Seq(Line(News))
    BY <1>2, PartLines, SeqSub
  <2> QED  BY <2>2, <2>3, CatType
<1>11. PICK u \in Seq(Line(News)) : u = y \o b
  BY <1>10
<1>12. Append(u, z) \in Seq(Line(News)) /\ OwnPlain(Append(u, z)) /\ ~Scanned(Append(u, z)).in
  <2>1. OwnPlain(u) /\ Scanned(u).in
    BY <1>10, <1>11
  <2>2. Append(u, z) \in Seq(Line(News))
    BY <1>5, AppendIn
  <2>3. OwnPlain(Append(u, z))
    BY <1>5, <2>1, OwnAppend DEF Own1, IsHeader
  <2>4. Scanned(Append(u, z)) = Scan(Scanned(u), z) /\ Scanned(u) \in State(News)
    BY <1>5, ScannedAppend
  <2>5. ~Scan(Scanned(u), z).in
    BY <1>5, <2>1, <2>4, ScanControl
  <2> QED  BY <2>2, <2>3, <2>4, <2>5
<1>13. OwnPlain(Append(u, z) \o c)
  BY <1>2, <1>12, OwnOn
<1>14. f = Append(u, z) \o c
  <2>1. <<h, o>> \in Seq(Line(News)) /\ <<h>> \in Seq(Line(News)) /\ <<o>> \in Seq(Line(News))
    BY <1>5
  <2>2. f = ((((a \o <<h, o>>) \o b) \o <<z>>) \o c)
    BY <1>1, <1>4
  <2>3. a \in Seq(Line(News))
    BY <1>2, ShutOwn
  <2>4. a \o <<h, o>> = y
    <3>1. y = Append(Append(a, h), o)
      BY <1>7, <1>9
    <3>2. <<h, o>> = Append(<<h>>, o)
      OBVIOUS
    <3>3. a \o Append(<<h>>, o) = Append(a \o <<h>>, o)
      BY <1>5, <2>1, <2>3, CatAppend
    <3>4. a \o <<h>> = Append(a, h)
      BY <1>5, <2>3, AppendIn
    <3> QED  BY <3>1, <3>2, <3>3, <3>4
  <2>5. u \o <<z>> = Append(u, z)
    BY <1>5, AppendIn
  <2> QED  BY <1>11, <2>2, <2>4, <2>5
<1>15. f \in Seq(Lfs)
  <2>1. <<h, o>> \in Seq(Lfs) /\ <<z>> \in Seq(Lfs)
    BY <1>5
  <2>2. a \o <<h, o>> \in Seq(Lfs)
    BY <1>3, <2>1, CatType
  <2>3. (a \o <<h, o>>) \o b \in Seq(Lfs)
    BY <1>3, <2>2, CatType
  <2>4. ((a \o <<h, o>>) \o b) \o <<z>> \in Seq(Lfs)
    BY <2>1, <2>3, CatType
  <2>5. (((a \o <<h, o>>) \o b) \o <<z>>) \o c \in Seq(Lfs)
    BY <1>3, <2>4, CatType
  <2> QED  BY <1>1, <1>4, <2>5
<1> QED  BY <1>13, <1>14, <1>15, LfsEnd, LfIs
\* A file of which one line ends in CRLF.
LEMMA EndingDropped ==
  ASSUME NEW f \in Seq(Lfs), f # <<>>, OwnPlain(f), NEW g, g = [f EXCEPT ![1].eol = "crlf"]
  PROVE  Fits(g)
<1>1. f \in Seq(FileLines(News)) /\ f \in Seq(Line(News)) /\ EndsIn(f, "lf")
  BY LfsEnd, PartLines, SeqSub
<1>2. 1 \in 1..Len(f) /\ DOMAIN f = 1..Len(f) /\ Len(f) \in Nat
  BY <1>1
<1>3. PICK l \in FileLines(News) : l = f[1] /\ l \in Line(News)
  BY <1>1, <1>2, PartLines
<1>4. PICK m : m = WithEol(l, "crlf")
  OBVIOUS
<1>5. g = [f EXCEPT ![1] = m]
  BY <1>3, <1>4 DEF WithEol
<1>6. m \in FileLines(News)
  <2>1. m \in Line(News) /\ m.kind = l.kind /\ (l.kind = "key" => m.key = l.key)
    BY <1>3, <1>4, EndingType DEF SameLine, Eols
  <2> QED  BY <2>1 DEF FileLines
<1>7. g \in Seq(FileLines(News))
  BY <1>1, <1>2, <1>5, <1>6
<1>8. LF(g) = f
  <2>1. DOMAIN LF(g) = 1..Len(f)
    BY <1>2, <1>5 DEF LF
  <2>2. \A i \in 1..Len(f) : LF(g)[i] = WithEol(g[i], "lf")
    BY <1>2, <1>5 DEF LF, WithEol
  <2>3. "lf" \in Eols
    BY DEF Eols
  <2>4. \A i \in 1..Len(f) : WithEol(f[i], "lf") = f[i]
    <3>1. SUFFICES ASSUME NEW i \in 1..Len(f) PROVE WithEol(f[i], "lf") = f[i]
      OBVIOUS
    <3>2. f[i] \in Line(News) /\ f[i].eol = "lf"
      BY <1>1, <1>2 DEF EndsIn
    <3> QED  BY <2>3, <3>2, EndingType
  <2>5. WithEol(m, "lf") = f[1]
    <3>1. WithEol(m, "lf") = WithEol(l, "lf")
      BY <1>4, EndingTwice
    <3> QED  BY <1>2, <1>3, <2>4, <3>1
  <2>6. \A i \in 1..Len(f) : LF(g)[i] = f[i]
    <3>1. SUFFICES ASSUME NEW i \in 1..Len(f) PROVE LF(g)[i] = f[i]
      OBVIOUS
    <3>2. CASE i = 1
      BY <1>2, <1>5, <2>2, <2>5, <3>2
    <3>3. CASE i # 1
      <4>1. g[i] = f[i]
        BY <1>2, <1>5, <3>3
      <4> QED  BY <2>2, <2>4, <4>1
    <3> QED  BY <3>2, <3>3
  <2>7. LF(g) = [i \in 1..Len(f) |-> LF(g)[i]]
    BY <2>1 DEF LF
  <2>8. f = [i \in 1..Len(f) |-> f[i]]
    BY <1>2
  <2> QED  BY <2>6, <2>7, <2>8
<1> QED  BY <1>7, <1>8 DEF Fits
LEMMA MixedFits ==
  ASSUME NEW g \in Mixed PROVE Fits(g)
<1>1. PICK p, q, r : /\ p = <<Header("other"), Key("x", "1")>> /\ q = <<Open, Comment, Close>>
                     /\ r = <<Header("me"), Open, Comment, Close>>
  OBVIOUS
<1>2. PICK f \in {p, q, r} : g = [f EXCEPT ![1].eol = "crlf"]
  <2>1. Mixed = {[x EXCEPT ![1].eol = "crlf"] : x \in {p, q, r}}
    BY <1>1, Zenon DEF Mixed
  <2> QED  BY <2>1
<1>3. PICK h, m, k, o, c, z : /\ h = Header("other") /\ m = Header("me") /\ k = Key("x", "1")
                              /\ o = Open /\ c = Comment /\ z = Close
  OBVIOUS
<1>4. h \in Lfs /\ m \in Lfs /\ k \in Lfs /\ o \in Lfs /\ c \in Lfs /\ z \in Lfs
  BY <1>3, NewLfs
<1>5. k \in Bodies(News) /\ o \in Bodies(News) /\ c \in Bodies(News) /\ z \in Bodies(News)
      /\ h \in Shut(News) /\ m \in Shut(News)
  BY <1>3, NewLines, NewShut DEF Bodies, IsHeader, Key, Open, Comment, Close
<1>6. p = <<h>> \o <<k>> /\ q = <<>> \o <<o, c, z>> /\ r = <<m>> \o <<o, c, z>>
  BY <1>1, <1>3
<1>7. /\ <<k>> \in Seq(Bodies(News)) /\ <<o, c, z>> \in Seq(Bodies(News))
      /\ <<h>> \in Seq(Shut(News)) /\ <<m>> \in Seq(Shut(News)) /\ <<>> \in Seq(Line(News))
  BY <1>5
<1>8. OwnPlain(<<h>>) /\ OwnPlain(<<m>>) /\ <<h>> \in Seq(Line(News)) /\ <<m>> \in Seq(Line(News))
  BY <1>7, ShutOwn
<1>9. OwnPlain(p) /\ OwnPlain(q) /\ OwnPlain(r)
  <2>1. OwnPlain(<<h>> \o <<k>>)
    BY <1>7, <1>8, OwnBodies
  <2>2. OwnPlain(<<>> \o <<o, c, z>>)
    BY <1>7, OwnNone, OwnBodies
  <2>3. OwnPlain(<<m>> \o <<o, c, z>>)
    BY <1>7, <1>8, OwnBodies
  <2> QED  BY <1>6, <2>1, <2>2, <2>3
<1>10. p \in Seq(Lfs) /\ q \in Seq(Lfs) /\ r \in Seq(Lfs) /\ p # <<>> /\ q # <<>> /\ r # <<>>
  BY <1>1, <1>3, <1>4
<1>11. f \in Seq(Lfs) /\ f # <<>> /\ OwnPlain(f)
  BY <1>2, <1>9, <1>10
<1> QED  BY <1>2, <1>11, EndingDropped
LEMMA FilesFit ==
  ASSUME NEW f \in Files PROVE Fits(f)
<1>1. f \in Plain \/ f \in Stringy \/ f \in Mixed
  BY Zenon DEF Files
<1> QED  BY <1>1, PlainFits, StringyFits, MixedFits
\* No file of the checks refutes that edits are exact.
LEMMA NoneMisedited == Misedited = {}
<1>1. "new" \in News
  BY DEF News
<1>2. \A f \in Files : EditedExactly(f)
  <2>1. SUFFICES ASSUME NEW f \in Files PROVE EditedExactly(f)
    OBVIOUS
  <2>2. f \in Seq(FileLines(News)) /\ OwnPlain(LF(f))
    BY FilesFit, Zenon DEF Fits
  <2> QED  BY <1>1, <2>2, ExactEdits
<1> QED  BY <1>2, Zenon DEF Misedited
==============================================================================
