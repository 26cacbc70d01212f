--------------------------- MODULE MemoryStoreProofs ---------------------------
(***************************************************************************)
(* Proofs about MemoryStore, for any keys, contents, limits, processes and *)
(* threads: the types; that without a lock between processes the limit on  *)
(* keys is exceeded by one key at most for each other process, the limit   *)
(* on bytes by two values;                                                 *)
(* and that the directory under one process is the store AgentMemory       *)
(* promises, with a call taking effect when it returns.                    *)
(*                                                                         *)
(* The sums come first, then the parts of IInv one by one, each for every  *)
(* action.  The refinement has a lemma for every action (...Refines) and   *)
(* rests on AddsUp, what the steps of a running call have done so far.     *)
(***************************************************************************)
EXTENDS MemoryStore, FiniteSetTheorems, TLAPS

(* ---- sums ---- *)

LEMMA UnitsFinite ==
  ASSUME NEW S, IsFiniteSet(S), NEW f, \A x \in S : f[x] \in Nat
  PROVE  IsFiniteSet(Units(f, S)) /\ Tally(f, S) \in Nat
<1> DEFINE g == [x \in S |-> {x} \X (1..f[x])]
           T == {{x} \X (1..f[x]) : x \in S}
<1>1. g \in Surjection(S, T)
  <2>1. g \in [S -> T]
    OBVIOUS
  <2>2. \A U \in T : \E x \in S : g[x] = U
    OBVIOUS
  <2> HIDE DEF g, T
  <2> QED  BY <2>1, <2>2, Zenon DEF Surjection
<1>2. IsFiniteSet(T)
  BY <1>1, FS_Surjection
<1>3. ASSUME NEW x \in S PROVE IsFiniteSet({x} \X (1..f[x]))
  <2>1. IsFiniteSet({x})
    BY FS_Singleton
  <2>2. IsFiniteSet(1..f[x])
    BY FS_Interval
  <2> QED  BY <2>1, <2>2, FS_Product
<1>4. \A U \in T : IsFiniteSet(U)
  BY <1>3
<1>5. IsFiniteSet(UNION T)
  BY <1>2, <1>4, FS_UNION
<1> QED  BY <1>5, FS_CardinalityType DEF Units, Tally

\* What one element adds.
LEMMA TallySplit ==
  ASSUME NEW S, IsFiniteSet(S), NEW f, \A x \in S : f[x] \in Nat, NEW y \in S
  PROVE  Tally(f, S) = Tally(f, S \ {y}) + f[y] /\ Tally(f, S \ {y}) \in Nat
<1> DEFINE U == Units(f, S \ {y})
           V == {y} \X (1..f[y])
<1>1. IsFiniteSet(S \ {y}) /\ \A x \in S \ {y} : f[x] \in Nat
  BY FS_RemoveElement
<1>2. IsFiniteSet(U) /\ Tally(f, S \ {y}) \in Nat
  BY <1>1, UnitsFinite
<1>3. IsFiniteSet(V) /\ Cardinality(V) = f[y]
  <2>1. IsFiniteSet({y}) /\ Cardinality({y}) = 1
    BY FS_Singleton
  <2>2. IsFiniteSet(1..f[y]) /\ Cardinality(1..f[y]) = f[y]
    BY FS_Interval
  <2>3. Cardinality(V) = 1 * f[y] /\ IsFiniteSet(V)
    BY <2>1, <2>2, FS_Product
  <2> QED  BY <2>3
<1>4. Units(f, S) = U \cup V
  <2>1. ASSUME NEW w \in Units(f, S) PROVE w \in U \cup V
    <3>1. PICK x \in S : w \in {x} \X (1..f[x])
      BY DEF Units
    <3>2. CASE x = y
      BY <3>1, <3>2
    <3>3. CASE x # y
      BY <3>1, <3>3 DEF Units
    <3> QED  BY <3>2, <3>3
  <2>2. U \cup V \subseteq Units(f, S)
    BY DEF Units
  <2> QED  BY <2>1, <2>2
<1>5. U \cap V = {}
  BY DEF Units
<1>6. Cardinality(U \cup V) = Cardinality(U) + Cardinality(V) - Cardinality(U \cap V)
  BY <1>2, <1>3, FS_Union
<1>7. Cardinality({}) = 0
  BY FS_EmptySet
<1>8. Tally(f, S) = Cardinality(U \cup V) /\ Tally(f, S \ {y}) = Cardinality(U)
  BY <1>4 DEF Tally
<1> HIDE DEF U, V
<1>9. Cardinality(U \cup V) = Cardinality(U) + Cardinality(V)
  <2>1. Cardinality(U \cap V) = 0
    BY <1>5, <1>7, Zenon
  <2>2. Cardinality(U) \in Nat /\ Cardinality(V) \in Nat
    BY <1>2, <1>3, FS_CardinalityType
  <2> QED  BY <1>6, <2>1, <2>2
<1> QED  BY <1>2, <1>3, <1>8, <1>9

\* Only the values on the set count.
LEMMA TallySame ==
  ASSUME NEW S, NEW f, NEW g, \A x \in S : f[x] = g[x]
  PROVE  Tally(f, S) = Tally(g, S)
BY DEF Tally, Units

LEMMA TallyMonotone ==
  ASSUME NEW S, IsFiniteSet(S), NEW f, NEW g, \A x \in S : f[x] \in Nat /\ g[x] \in Nat,
         \A x \in S : f[x] <= g[x]
  PROVE  Tally(f, S) <= Tally(g, S)
<1>1. Units(f, S) \subseteq Units(g, S)
  <2>1. ASSUME NEW x \in S PROVE {x} \X (1..f[x]) \subseteq {x} \X (1..g[x])
    OBVIOUS
  <2> QED  BY <2>1 DEF Units
<1>2. IsFiniteSet(Units(g, S))
  BY UnitsFinite
<1> QED  BY <1>1, <1>2, FS_Subset DEF Tally

\* One element changes.
LEMMA TallyChange ==
  ASSUME NEW S, IsFiniteSet(S), NEW f, NEW g, \A x \in S : f[x] \in Nat /\ g[x] \in Nat,
         NEW y \in S, \A x \in S \ {y} : f[x] = g[x]
  PROVE  /\ Tally(f, S) \in Nat /\ Tally(g, S) \in Nat
         /\ Tally(g, S) + f[y] = Tally(f, S) + g[y]
<1>1. Tally(f, S) = Tally(f, S \ {y}) + f[y] /\ Tally(f, S \ {y}) \in Nat
  BY TallySplit
<1>2. Tally(g, S) = Tally(g, S \ {y}) + g[y]
  BY TallySplit
<1>3. Tally(f, S \ {y}) = Tally(g, S \ {y})
  BY TallySame
<1> QED  BY <1>1, <1>2, <1>3

\* What a part of the set adds.
LEMMA TallyParts ==
  ASSUME NEW S, IsFiniteSet(S), NEW f, \A x \in S : f[x] \in Nat, NEW T \in SUBSET S
  PROVE  /\ Tally(f, S) = Tally(f, T) + Tally(f, S \ T)
         /\ Tally(f, T) \in Nat /\ Tally(f, S \ T) \in Nat
<1> DEFINE U == Units(f, T)
           V == Units(f, S \ T)
<1>1. IsFiniteSet(T) /\ IsFiniteSet(S \ T)
  <2>1. S \ T \subseteq S
    OBVIOUS
  <2> QED  BY <2>1, FS_Subset
<1>2. IsFiniteSet(U) /\ IsFiniteSet(V) /\ Tally(f, T) \in Nat /\ Tally(f, S \ T) \in Nat
  BY <1>1, UnitsFinite
<1>3. Units(f, S) = U \cup V
  BY DEF Units
<1>4. U \cap V = {}
  BY DEF Units
<1>5. Tally(f, S) = Cardinality(U \cup V) /\ Tally(f, T) = Cardinality(U)
      /\ Tally(f, S \ T) = Cardinality(V)
  BY <1>3 DEF Tally
<1> HIDE DEF U, V
<1>6. Cardinality(U \cup V) = Cardinality(U) + Cardinality(V) - Cardinality(U \cap V)
  BY <1>2, FS_Union
<1>7. Cardinality(U \cap V) = 0
  BY <1>4, FS_EmptySet, Zenon
<1> QED  BY <1>2, <1>5, <1>6, <1>7

LEMMA TallyZero ==
  ASSUME NEW S, NEW f, \A x \in S : f[x] = 0
  PROVE  Tally(f, S) = 0
<1>1. ASSUME NEW x \in S PROVE {x} \X (1..f[x]) = {}
  <2>1. 1..f[x] = {}
    OBVIOUS
  <2> QED  BY <2>1
<1>2. Units(f, S) = {}
  BY <1>1 DEF Units
<1>3. Cardinality(Units(f, S)) = 0
  BY <1>2, FS_EmptySet, Zenon
<1> QED  BY <1>3 DEF Tally

(* ---- types and steps ---- *)

LEMMA Ops ==
  ASSUME NEW o \in Op
  PROVE  /\ o.kind \in {"write", "append", "delete", "read", "search", "gc"}
         /\ o.kind \notin {"search", "gc"} => o.key \in Keys
         /\ o.kind \in {"write", "append"} =>
              o.content \in Seq(Chunks) /\ Len(o.content) \in Nat
<1>1. CASE o \in [kind : {"write", "append"}, key : Keys, content : Contents]
  <2>1. o.kind \in {"write", "append"} /\ o.key \in Keys /\ o.content \in Contents
    BY <1>1
  <2>2. o.content \in Seq(Chunks)
    BY <2>1, MemoryAssumption
  <2>3. Len(o.content) \in Nat
    BY <2>2
  <2> QED  BY <2>1, <2>2, <2>3
<1>2. CASE o \in [kind : {"delete", "read"}, key : Keys]
  <2>1. o.kind \in {"delete", "read"} /\ o.key \in Keys
    BY <1>2
  <2> QED  BY <2>1
<1>3. CASE o \in [kind : {"search", "gc"}]
  <2>1. o.kind \in {"search", "gc"}
    BY <1>3
  <2> QED  BY <2>1
<1> QED  BY <1>1, <1>2, <1>3 DEF Op

LEMMA Numbers == MaxKeys \in Nat /\ MaxValue \in Nat /\ MaxTotal \in Nat /\ MaxClock \in Nat
                 /\ MaxFaults \in Nat /\ MetaSize \in Nat
BY MemoryAssumption

LEMMA Sizes == \A v \in Value \cup {Missing} : Size(v) \in Nat
<1>1. \A v \in Value : Len(v) \in Nat
  BY DEF Value
<1> QED  BY <1>1 DEF Size

LEMMA BlankLocal == Blank \in Local
<1>1. 0 \in Stamp
  BY Numbers DEF Stamp
<1> QED  BY <1>1 DEF Blank, Local

\* What a step of thread t leaves of the other threads: their calls, their keys, sizes and
\* sums, and of their handles those of files that are still there.
OthersKept(t) ==
  \A u \in Threads \ {t} :
    /\ pc'[u] = pc[u] /\ op'[u] = op[u]
    /\ loc'[u].key = loc[u].key /\ loc'[u].size = loc[u].size
    /\ loc'[u].todo = loc[u].todo /\ loc'[u].total = loc[u].total
    /\ pc[u] = "idle" => loc'[u] = loc[u]
    /\ loc'[u].live => loc[u].live /\ value'[loc[u].key] # Missing

Moved(t) ==
  /\ pc' \in [Threads -> Steps \cup {"idle"}]
  /\ op' \in [Threads -> Op \cup {NoOp}]
  /\ loc' \in [Threads -> Local]
  /\ answer' \in [Threads -> [op : Op, result : Result] \cup {NoAnswer}]
  /\ before' \in [Procs -> Store \cup {NoStore}]
  /\ OthersKept(t)
  /\ AtWork(t)'
  /\ \/ pc'[t] = "idle"
     \/ pc[t] # "idle" /\ op'[t] = op[t]
     \/ MayLock(t, op'[t])

LEMMA OthersAtWork ==
  ASSUME IInv, NEW t \in Threads, OthersKept(t), NEW u \in Threads \ {t}
  PROVE  AtWork(u)'
<1>1. /\ pc'[u] = pc[u] /\ op'[u] = op[u] /\ loc'[u].key = loc[u].key
      /\ pc[u] = "idle" => loc'[u] = loc[u]
      /\ loc'[u].live => loc[u].live /\ value'[loc[u].key] # Missing
  BY DEF OthersKept
<1>2. AtWork(u)
  BY DEF IInv
<1> QED  BY <1>1, <1>2 DEF AtWork

\* Such a step keeps the invariant if it leaves the files as they should be.
LEMMA MovedSafe ==
  ASSUME IInv, NEW t \in Threads, Moved(t),
         value' \in [Keys -> Value \cup {Missing}], meta' \in [Keys -> Stamp \cup {NoStamp}],
         UNCHANGED <<leaked, clock>>, faults' \in 0..MaxFaults
  PROVE  IInv'
<1>1. TypeOK'
  BY DEF TypeOK, Moved, IInv
<1>2. \A u \in Threads : AtWork(u)'
  BY OthersAtWork DEF Moved
<1>3. Locked'
  <2> SUFFICES ASSUME NEW a \in Threads, NEW b \in Threads, a # b, ProcOf[a] = ProcOf[b],
                      pc'[a] # "idle", pc'[b] # "idle"
               PROVE  Shared(op'[a]) /\ Shared(op'[b])
    BY DEF Locked
  <2>1. \A u \in Threads \ {t} : pc'[u] = pc[u] /\ op'[u] = op[u]
    BY DEF Moved, OthersKept
  <2>2. CASE pc[t] # "idle" /\ op'[t] = op[t]
    BY <2>1, <2>2 DEF IInv, Locked
  <2>3. CASE MayLock(t, op'[t])
    BY <2>1, <2>3 DEF IInv, Locked, MayLock
  <2>4. CASE pc'[t] = "idle"
    BY <2>1, <2>4 DEF IInv, Locked
  <2> QED  BY <2>2, <2>3, <2>4 DEF Moved
<1> QED  BY <1>1, <1>2, <1>3 DEF IInv

\* A call goes on at step s with local variables l.
LEMMA GoOn ==
  ASSUME IInv, NEW t \in Threads, pc[t] # "idle", NEW s \in StepsOf(op[t].kind), s \in Steps,
         pc' = [pc EXCEPT ![t] = s], UNCHANGED <<op, answer, before>>,
         NEW l \in Local, loc' = [loc EXCEPT ![t] = l],
         op[t].kind \notin {"search", "gc"} => l.key = loc[t].key,
         s \in {"removeValue", "removeMeta"} => l.key \in Keys,
         l.live => s = "append" /\ value'[l.key] # Missing,
         \A k \in Keys : value[k] # Missing => value'[k] # Missing
  PROVE  Moved(t)
<1>1. TypeOK /\ AtWork(t)
  BY DEF IInv
<1>2. /\ pc' \in [Threads -> Steps \cup {"idle"}] /\ loc' \in [Threads -> Local]
      /\ pc'[t] = s /\ loc'[t] = l /\ op'[t] = op[t]
  BY <1>1 DEF TypeOK
<1>3. s # "idle"
  BY DEF Steps
<1>4. AtWork(t)'
  <2>1. op[t] \in Op /\ (op[t].kind \notin {"search", "gc"} => loc[t].key = op[t].key)
    BY <1>1 DEF AtWork
  <2> QED  BY <1>2, <1>3, <2>1 DEF AtWork
<1>5. OthersKept(t)
  <2> SUFFICES ASSUME NEW u \in Threads \ {t}, loc[u].live PROVE value'[loc[u].key] # Missing
    BY <1>1 DEF OthersKept, TypeOK
  <2>1. AtWork(u)
    BY DEF IInv
  <2>2. pc[u] # "idle"
    BY <2>1 DEF AtWork, Blank
  <2>3. pc[u] = "append" /\ op[u] \in Op /\ pc[u] \in StepsOf(op[u].kind)
        /\ value[loc[u].key] # Missing
        /\ (op[u].kind \notin {"search", "gc"} => loc[u].key = op[u].key)
    BY <2>1, <2>2 DEF AtWork
  <2>4. op[u].kind \notin {"search", "gc"}
    BY <2>3, Ops DEF StepsOf
  <2>5. loc[u].key \in Keys
    BY <2>3, <2>4, Ops
  <2> QED  BY <2>3, <2>5
<1> QED  BY <1>1, <1>2, <1>4, <1>5 DEF Moved, TypeOK

\* A call returns.
LEMMA Returned ==
  ASSUME IInv, NEW t \in Threads, pc[t] # "idle", UNCHANGED value,
         NEW is \in {"ok", "refused", "failed", "expired", "found"},
         NEW at \in [Keys -> Value \cup {Missing}], ReturnFound(t, is, at)
  PROVE  Moved(t) /\ pc'[t] = "idle"
<1>1. TypeOK /\ AtWork(t)
  BY DEF IInv
<1>2. op[t] \in Op
  BY <1>1 DEF AtWork
<1>3. /\ pc' = [pc EXCEPT ![t] = "idle"] /\ op' = [op EXCEPT ![t] = NoOp]
      /\ loc' = [loc EXCEPT ![t] = Blank]
      /\ before' = IF Shared(op[t]) THEN before ELSE [before EXCEPT ![ProcOf[t]] = NoStore]
  BY DEF ReturnFound
<1>4. answer' \in [Threads -> [op : Op, result : Result] \cup {NoAnswer}]
  <2> DEFINE r == [is |-> is, at |-> at]
             a == [op |-> op[t], result |-> r]
  <2>1. r \in Result
    BY DEF Result
  <2>2. a \in [op : Op, result : Result]
    <3> HIDE DEF r
    <3> QED  BY <1>2, <2>1
  <2>3. answer' = [answer EXCEPT ![t] = a]
    BY DEF ReturnFound
  <2> HIDE DEF a
  <2> QED  BY <1>1, <2>2, <2>3 DEF TypeOK
<1>5. before' \in [Procs -> Store \cup {NoStore}]
  BY <1>1, <1>3 DEF TypeOK
<1>6. /\ pc' \in [Threads -> Steps \cup {"idle"}] /\ op' \in [Threads -> Op \cup {NoOp}]
      /\ loc' \in [Threads -> Local]
      /\ pc'[t] = "idle" /\ op'[t] = NoOp /\ loc'[t] = Blank
  BY <1>1, <1>3, BlankLocal DEF TypeOK
<1>7. AtWork(t)'
  BY <1>6 DEF AtWork
<1>8. OthersKept(t)
  <2> SUFFICES ASSUME NEW u \in Threads \ {t}, loc[u].live PROVE value[loc[u].key] # Missing
    BY <1>1, <1>3 DEF OthersKept, TypeOK
  <2>1. AtWork(u)
    BY DEF IInv
  <2> QED  BY <2>1 DEF AtWork, Blank
<1> QED  BY <1>4, <1>5, <1>6, <1>7, <1>8 DEF Moved

LEMMA BeginMoved ==
  ASSUME IInv, NEW t \in Threads, Begin(t)
  PROVE  Moved(t) /\ pc[t] = "idle" /\ pc'[t] \in {"size", "removeValue", "check", "list"}
         /\ UNCHANGED <<files, clock, faults>>
<1>1. TypeOK /\ pc[t] = "idle" /\ op[t] = NoOp /\ loc[t] = Blank
  BY DEF Begin, IInv, AtWork
<1>2. PICK o \in Op :
       /\ MayLock(t, o)
       /\ op' = [op EXCEPT ![t] = o]
       /\ pc' = [pc EXCEPT ![t] =
                   CASE o.kind \in {"write", "append"} -> "size"
                     [] o.kind = "delete" -> "removeValue"
                     [] o.kind = "read" -> "check"
                     [] OTHER -> "list"]
       /\ loc' = [loc EXCEPT ![t].key = IF o.kind \in {"search", "gc"} THEN NoKey ELSE o.key]
       /\ before' = IF Shared(o) THEN before
                    ELSE [before EXCEPT ![ProcOf[t]] = [val |-> value, stamp |-> meta]]
  BY DEF Begin
<1> DEFINE s == CASE o.kind \in {"write", "append"} -> "size"
                  [] o.kind = "delete" -> "removeValue"
                  [] o.kind = "read" -> "check"
                  [] OTHER -> "list"
           k == IF o.kind \in {"search", "gc"} THEN NoKey ELSE o.key
           l == [Blank EXCEPT !.key = k]
           now == [val |-> value, stamp |-> meta]
<1>3. o.kind \in {"write", "append", "delete", "read", "search", "gc"}
      /\ (o.kind \notin {"search", "gc"} => o.key \in Keys)
  BY Ops
<1>4. s \in {"size", "removeValue", "check", "list"} /\ s \in StepsOf(o.kind)
      /\ (s = "removeValue" => o.kind = "delete")
  <2>1. CASE o.kind \in {"write", "append"}  BY <2>1 DEF StepsOf
  <2>2. CASE o.kind = "delete"  BY <2>2 DEF StepsOf
  <2>3. CASE o.kind = "read"  BY <2>3 DEF StepsOf
  <2>4. CASE o.kind = "search"  BY <2>4 DEF StepsOf
  <2>5. CASE o.kind = "gc"  BY <2>5 DEF StepsOf
  <2> QED  BY <1>3, <2>1, <2>2, <2>3, <2>4, <2>5
<1>5. l \in Local /\ l.key = k /\ l.live = FALSE
  <2>1. k \in Keys \cup {NoKey}
    BY <1>3
  <2>2. DOMAIN Blank = {"key", "temp", "size", "now", "live", "todo", "total", "found"}
        /\ Blank.live = FALSE
    BY DEF Blank
  <2> HIDE DEF k
  <2> QED  BY <2>1, <2>2, BlankLocal DEF Local
<1>6. now \in Store
  BY <1>1 DEF TypeOK, Store
<1>7. /\ pc' = [pc EXCEPT ![t] = s] /\ loc' = [loc EXCEPT ![t] = l]
      /\ before' = IF Shared(o) THEN before ELSE [before EXCEPT ![ProcOf[t]] = now]
  BY <1>1, <1>2 DEF TypeOK
<1> HIDE DEF s, l, now
<1>8. s \in Steps /\ s # "idle"
  BY <1>4 DEF Steps
<1>9. /\ pc' \in [Threads -> Steps \cup {"idle"}] /\ op' \in [Threads -> Op \cup {NoOp}]
      /\ loc' \in [Threads -> Local] /\ before' \in [Procs -> Store \cup {NoStore}]
      /\ pc'[t] = s /\ op'[t] = o /\ loc'[t] = l
  <2>1. pc' \in [Threads -> Steps \cup {"idle"}] /\ pc'[t] = s
    BY <1>1, <1>7, <1>8 DEF TypeOK
  <2>2. op' \in [Threads -> Op \cup {NoOp}] /\ op'[t] = o
    BY <1>1, <1>2 DEF TypeOK
  <2>3. loc' \in [Threads -> Local] /\ loc'[t] = l
    BY <1>1, <1>5, <1>7 DEF TypeOK
  <2>4. before' \in [Procs -> Store \cup {NoStore}]
    <3>1. before \in [Procs -> Store \cup {NoStore}]
      BY <1>1 DEF TypeOK
    <3> QED  BY <1>6, <1>7, <3>1
  <2> QED  BY <2>1, <2>2, <2>3, <2>4
<1>10. answer' \in [Threads -> [op : Op, result : Result] \cup {NoAnswer}]
       /\ UNCHANGED <<files, clock, faults>> /\ UNCHANGED value
  BY <1>1 DEF Begin, TypeOK, files
<1>11. AtWork(t)'
  BY <1>3, <1>4, <1>5, <1>8, <1>9 DEF AtWork
<1>12. OthersKept(t)
  <2> SUFFICES ASSUME NEW u \in Threads \ {t}, loc[u].live PROVE value[loc[u].key] # Missing
    BY <1>1, <1>2, <1>7, <1>10 DEF OthersKept, TypeOK
  <2>1. AtWork(u)
    BY DEF IInv
  <2> QED  BY <2>1 DEF AtWork, Blank
<1> QED  BY <1>1, <1>2, <1>4, <1>9, <1>10, <1>11, <1>12 DEF Moved

\* What is known of a call that writes.
LEMMA Writing ==
  ASSUME IInv, NEW t \in Threads,
         pc[t] \in {"size", "count", "total", "stat", "temp", "rename", "open", "append",
                    "metaTemp", "metaRename"}
  PROVE  /\ op[t] \in Op /\ op[t].kind \in {"write", "append"} /\ loc[t].key = op[t].key
         /\ loc[t].key \in Keys /\ op[t].content \in Seq(Chunks) /\ Len(op[t].content) \in Nat
         /\ pc[t] \in {"temp", "rename"} => op[t].kind = "write"
         /\ pc[t] \in {"open", "append"} => op[t].kind = "append"
         /\ loc[t] \in Local /\ pc[t] # "idle"
<1>1. AtWork(t) /\ loc[t] \in Local /\ pc[t] # "idle"
  BY DEF IInv, TypeOK
<1>2. op[t] \in Op /\ pc[t] \in StepsOf(op[t].kind)
      /\ (op[t].kind \notin {"search", "gc"} => loc[t].key = op[t].key)
  BY <1>1 DEF AtWork
<1>3. op[t].kind \in {"write", "append"}
      /\ (pc[t] \in {"temp", "rename"} => op[t].kind = "write")
      /\ (pc[t] \in {"open", "append"} => op[t].kind = "append")
  <2>1. CASE op[t].kind = "write"  BY <1>2, <2>1 DEF StepsOf
  <2>2. CASE op[t].kind = "append"  BY <1>2, <2>2 DEF StepsOf
  <2>3. CASE op[t].kind = "delete"  BY <1>2, <2>3 DEF StepsOf
  <2>4. CASE op[t].kind = "read"  BY <1>2, <2>4 DEF StepsOf
  <2>5. CASE op[t].kind = "search"  BY <1>2, <2>5 DEF StepsOf
  <2>6. CASE op[t].kind = "gc"  BY <1>2, <2>6 DEF StepsOf
  <2> QED  BY <1>2, Ops, <2>1, <2>2, <2>3, <2>4, <2>5, <2>6
<1> QED  BY <1>1, <1>2, <1>3, Ops

\* A call that writes holds no live handle but between its open and its write.
LEMMA LiveAtAppend ==
  ASSUME IInv, NEW t \in Threads, loc[t].live
  PROVE  pc[t] = "append" /\ value[loc[t].key] # Missing
BY DEF IInv, AtWork, Blank

LEMMA Totals ==
  ASSUME IInv
  PROVE  /\ StoredBytes \in Nat /\ leaked \in Nat
         /\ \A T \in SUBSET Threads : TempBytes(T) \in Nat
         /\ \A k \in Keys : Size(value[k]) \in Nat /\ Size(value[k]) <= StoredBytes
<1>1. TypeOK
  BY DEF IInv
<1> DEFINE f == [k \in Keys |-> Size(value[k])]
<1>2. \A k \in Keys : f[k] \in Nat
  BY <1>1, Sizes DEF TypeOK
<1>3. StoredBytes \in Nat
  <2>1. Tally(f, Keys) \in Nat
    <3> HIDE DEF f
    <3> QED  BY <1>2, UnitsFinite, MemoryAssumption
  <2> QED  BY <2>1 DEF StoredBytes
<1>4. ASSUME NEW k \in Keys PROVE f[k] <= StoredBytes
  <2>1. Tally(f, Keys) = Tally(f, Keys \ {k}) + f[k] /\ Tally(f, Keys \ {k}) \in Nat
    <3> HIDE DEF f
    <3> QED  BY <1>2, TallySplit, MemoryAssumption
  <2>2. StoredBytes = Tally(f, Keys)
    BY DEF StoredBytes
  <2> HIDE DEF f
  <2> QED  BY <1>2, <2>1, <2>2
<1>5. ASSUME NEW T \in SUBSET Threads PROVE TempBytes(T) \in Nat
  <2> DEFINE g == [t \in T |-> loc[t].temp]
  <2>1. \A t \in T : g[t] \in Nat
    BY <1>1 DEF TypeOK, Local
  <2>2. IsFiniteSet(T)
    BY FS_Subset, MemoryAssumption
  <2>3. Tally(g, T) \in Nat
    <3> HIDE DEF g
    <3> QED  BY <2>1, <2>2, UnitsFinite
  <2> QED  BY <2>3 DEF TempBytes
<1> QED  BY <1>1, <1>2, <1>3, <1>4, <1>5 DEF TypeOK

\* A step of thread t that keeps the invariant.
Sound(t) ==
  /\ Moved(t)
  /\ value' \in [Keys -> Value \cup {Missing}] /\ meta' \in [Keys -> Stamp \cup {NoStamp}]
  /\ UNCHANGED <<leaked, clock>> /\ faults' \in 0..MaxFaults

LEMMA FilesKept ==
  ASSUME IInv, UNCHANGED <<files, clock, faults>>
  PROVE  /\ value' \in [Keys -> Value \cup {Missing}] /\ meta' \in [Keys -> Stamp \cup {NoStamp}]
         /\ UNCHANGED <<value, leaked, clock>> /\ faults' \in 0..MaxFaults
         /\ \A k \in Keys : value[k] # Missing => value'[k] # Missing
BY DEF IInv, TypeOK, files

\* Nothing handed out.
LEMMA NothingFound == [k \in Keys |-> Missing] \in [Keys -> Value \cup {Missing}]
OBVIOUS

LEMMA NewSizes ==
  ASSUME IInv, NEW t \in Threads, pc[t] = "size"
  PROVE  /\ NewSize(t) \in Nat /\ NewSize(t) >= Len(op[t].content)
         /\ op[t].kind = "write" => NewSize(t) = Len(op[t].content)
         /\ op[t].kind = "append" =>
              NewSize(t) = Len(op[t].content) + Size(value[loc[t].key])
<1>1. /\ loc[t].key \in Keys /\ Len(op[t].content) \in Nat
      /\ op[t].kind \in {"write", "append"}
  BY Writing
<1>2. Size(value[loc[t].key]) \in Nat
  BY <1>1, Totals
<1> QED  BY <1>1, <1>2 DEF NewSize

\* What measuring a value comes to, when it is small enough.
LEMMA SizeTaken ==
  ASSUME IInv, NEW t \in Threads, CheckValueSize(t)
  PROVE  /\ Sound(t) /\ pc[t] = "size" /\ UNCHANGED <<files, clock, faults>>
         /\ \/ pc'[t] = "idle"
            \/ \E s \in {"count", "total"} :
                 /\ Within(MaxValue, NewSize(t))
                 /\ s = "total" => value[loc[t].key] # Missing
                 /\ pc' = [pc EXCEPT ![t] = s] /\ op' = op
                 /\ loc' = [loc EXCEPT ![t] = [loc[t] EXCEPT !.size = NewSize(t)]]
<1>1. pc[t] = "size" /\ UNCHANGED <<files, clock, faults>>
  BY DEF CheckValueSize
<1>2. CASE Return(t, "refused")
  BY <1>1, <1>2, FilesKept, NothingFound, Returned DEF Return, Sound
<1>3. ASSUME ~Return(t, "refused") PROVE Sound(t) /\ \E s \in {"count", "total"} :
                 /\ Within(MaxValue, NewSize(t))
                 /\ s = "total" => value[loc[t].key] # Missing
                 /\ pc' = [pc EXCEPT ![t] = s] /\ op' = op
                 /\ loc' = [loc EXCEPT ![t] = [loc[t] EXCEPT !.size = NewSize(t)]]
  <2> DEFINE s == IF op[t].kind = "append" /\ value[loc[t].key] # Missing THEN "total" ELSE "count"
             n == NewSize(t)
             l == [loc[t] EXCEPT !.size = n]
  <2>1. /\ Within(MaxValue, n) /\ pc' = [pc EXCEPT ![t] = s]
        /\ loc' = [loc EXCEPT ![t].size = n] /\ UNCHANGED <<op, answer, before>>
    BY <1>3 DEF CheckValueSize
  <2>2. n \in Nat
    BY <1>1, NewSizes
  <2>3. /\ op[t].kind \in {"write", "append"} /\ loc[t] \in Local /\ pc[t] # "idle"
        /\ loc[t].live = FALSE
    BY <1>1, Writing, LiveAtAppend DEF Local
  <2>4. s \in {"count", "total"} /\ (s = "total" => value[loc[t].key] # Missing)
    OBVIOUS
  <2>5. loc' = [loc EXCEPT ![t] = l]
    <3> HIDE DEF n
    <3> QED  BY <2>1
  <2> HIDE DEF n, s
  <2>6. l \in Local /\ l.key = loc[t].key /\ l.live = FALSE
    BY <2>2, <2>3 DEF Local
  <2>7. s \in StepsOf(op[t].kind) /\ s \in Steps
    <3>1. CASE op[t].kind = "write"  BY <2>4, <3>1 DEF StepsOf, Steps
    <3>2. CASE op[t].kind = "append"  BY <2>4, <3>2 DEF StepsOf, Steps
    <3> QED  BY <2>3, <3>1, <3>2
  <2>8. s \notin {"removeValue", "removeMeta"}
    BY <2>4
  <2>9. /\ value' \in [Keys -> Value \cup {Missing}] /\ meta' \in [Keys -> Stamp \cup {NoStamp}]
        /\ UNCHANGED <<value, leaked, clock>> /\ faults' \in 0..MaxFaults
        /\ \A k \in Keys : value[k] # Missing => value'[k] # Missing
    BY <1>1, FilesKept
  <2>10. Moved(t)
    <3> HIDE DEF l
    <3> QED  BY <1>1, <2>1, <2>3, <2>5, <2>6, <2>7, <2>8, <2>9, GoOn
  <2>11. l = [loc[t] EXCEPT !.size = NewSize(t)]
    BY DEF n
  <2> HIDE DEF l
  <2> QED  BY <2>1, <2>4, <2>5, <2>9, <2>10, <2>11 DEF Sound, n
<1> QED  BY <1>1, <1>2, <1>3, FilesKept, NothingFound, Returned DEF Return

\* A call goes on with nothing else changed.
LEMMA GoTo ==
  ASSUME IInv, NEW t \in Threads, pc[t] # "idle", NEW s \in StepsOf(op[t].kind), s \in Steps,
         pc' = [pc EXCEPT ![t] = s], UNCHANGED <<op, loc, answer, before>>,
         s \in {"removeValue", "removeMeta"} => loc[t].key \in Keys,
         loc[t].live => s = "append" /\ value'[loc[t].key] # Missing,
         \A k \in Keys : value[k] # Missing => value'[k] # Missing
  PROVE  Moved(t)
<1>1. loc[t] \in Local /\ loc' = [loc EXCEPT ![t] = loc[t]]
  BY DEF IInv, TypeOK
<1> QED  BY <1>1, GoOn

LEMMA CountChecked ==
  ASSUME IInv, NEW t \in Threads, CheckKeyCount(t)
  PROVE  /\ Sound(t) /\ pc[t] = "count" /\ UNCHANGED <<files, clock, faults>>
         /\ \/ pc'[t] = "idle"
            \/ /\ value[loc[t].key] # Missing \/ Within(MaxKeys, Cardinality(Listed) + 1)
               /\ pc' = [pc EXCEPT ![t] = "total"] /\ UNCHANGED <<op, loc>>
<1>1. pc[t] = "count" /\ UNCHANGED <<files, clock, faults>>
  BY DEF CheckKeyCount
<1>2. CASE Return(t, "refused")
  BY <1>1, <1>2, FilesKept, NothingFound, Returned DEF Return, Sound
<1>3. CASE /\ value[loc[t].key] # Missing \/ Within(MaxKeys, Cardinality(Listed) + 1)
           /\ pc' = [pc EXCEPT ![t] = "total"] /\ UNCHANGED <<op, loc, answer, before>>
  <2>1. op[t].kind \in {"write", "append"} /\ pc[t] # "idle" /\ ~loc[t].live
    BY <1>1, Writing, LiveAtAppend
  <2>2. "total" \in StepsOf(op[t].kind) /\ "total" \in Steps
    BY <2>1 DEF StepsOf, Steps
  <2>3. Moved(t)
    BY <1>1, <1>3, <2>1, <2>2, FilesKept, GoTo
  <2> QED  BY <1>1, <1>3, <2>3, FilesKept DEF Sound
<1> QED  BY <1>2, <1>3 DEF CheckKeyCount

\* The check of the total is passed, or needless.
LEMMA TotalAllowed ==
  ASSUME IInv, NEW t \in Threads, pc[t] \in {"total", "stat"}, AllowedTotal(t),
         UNCHANGED <<files, clock, faults>>
  PROVE  /\ Sound(t) /\ pc'[t] \in {"temp", "open"} /\ op' = op
         /\ loc'[t].key = loc[t].key /\ loc'[t].size = loc[t].size
         /\ loc'[t].temp = loc[t].temp
<1> DEFINE s == IF op[t].kind = "write" THEN "temp" ELSE "open"
           l == [loc[t] EXCEPT !.total = 0]
<1>1. /\ op[t].kind \in {"write", "append"} /\ pc[t] # "idle" /\ ~loc[t].live
      /\ loc[t] \in Local
  BY Writing, LiveAtAppend
<1>2. s \in StepsOf(op[t].kind) /\ s \in Steps /\ s \in {"temp", "open"}
  BY <1>1 DEF StepsOf, Steps
<1>3. /\ pc' = [pc EXCEPT ![t] = s] /\ loc' = [loc EXCEPT ![t] = l]
      /\ UNCHANGED <<op, answer, before>>
  BY DEF AllowedTotal
<1>4. /\ l \in Local /\ l.key = loc[t].key /\ l.size = loc[t].size /\ l.temp = loc[t].temp
      /\ l.live = loc[t].live
  BY <1>1 DEF Local
<1> HIDE DEF s, l
<1>5. pc'[t] = s /\ loc'[t] = l
  BY <1>3 DEF IInv, TypeOK
<1>6. Moved(t)
  BY <1>1, <1>2, <1>3, <1>4, FilesKept, GoOn
<1> QED  BY <1>2, <1>3, <1>4, <1>5, <1>6, FilesKept DEF Sound

LEMMA SizesListed ==
  ASSUME IInv, NEW t \in Threads, ListSizes(t)
  PROVE  /\ Sound(t) /\ pc[t] = "total" /\ UNCHANGED <<files, clock, faults>> /\ op' = op
         /\ loc'[t].key = loc[t].key /\ loc'[t].size = loc[t].size
         /\ loc'[t].temp = loc[t].temp
         /\ \/ MaxTotal = 0 /\ AllowedTotal(t) /\ pc'[t] \in {"temp", "open"}
            \/ /\ MaxTotal > 0 /\ pc'[t] = "stat" /\ UNCHANGED <<answer, before>>
               /\ \E T \in SUBSET Threads :
                    loc'[t].todo = Listed /\ loc'[t].total = leaked + TempBytes(T)
<1>1. pc[t] = "total" /\ UNCHANGED <<files, clock, faults>>
  BY DEF ListSizes
<1>2. CASE MaxTotal = 0 /\ AllowedTotal(t)
  <2>1. /\ Sound(t) /\ pc'[t] \in {"temp", "open"} /\ op' = op
        /\ loc'[t].key = loc[t].key /\ loc'[t].size = loc[t].size
        /\ loc'[t].temp = loc[t].temp
    BY <1>1, <1>2, TotalAllowed
  <2> QED  BY <1>1, <1>2, <2>1
<1>3. ASSUME MaxTotal > 0, pc' = [pc EXCEPT ![t] = "stat"], UNCHANGED <<op, answer, before>>,
             NEW T \in SUBSET Threads,
             loc' = [loc EXCEPT ![t].todo = Listed, ![t].total = leaked + TempBytes(T)]
      PROVE  /\ Sound(t) /\ pc'[t] = "stat"
             /\ loc'[t].key = loc[t].key /\ loc'[t].size = loc[t].size
             /\ loc'[t].temp = loc[t].temp
             /\ loc'[t].todo = Listed /\ loc'[t].total = leaked + TempBytes(T)
  <2> DEFINE n == leaked + TempBytes(T)
             l == [loc[t] EXCEPT !.todo = Listed, !.total = n]
  <2>1. /\ op[t].kind \in {"write", "append"} /\ pc[t] # "idle" /\ ~loc[t].live
        /\ loc[t] \in Local
    BY <1>1, Writing, LiveAtAppend
  <2>2. "stat" \in StepsOf(op[t].kind) /\ "stat" \in Steps
    BY <2>1 DEF StepsOf, Steps
  <2>3. n \in Nat /\ Listed \in SUBSET Keys
    BY Totals DEF Listed
  <2> HIDE DEF n, Listed
  <2>4. /\ l \in Local /\ l.key = loc[t].key /\ l.size = loc[t].size /\ l.temp = loc[t].temp
        /\ l.live = loc[t].live /\ l.todo = Listed /\ l.total = n
    BY <2>1, <2>3 DEF Local
  <2>5. loc' = [loc EXCEPT ![t] = l]
    <3>1. loc' = [loc EXCEPT ![t].todo = Listed, ![t].total = n]
      BY <1>3 DEF n
    <3>2. [loc EXCEPT ![t].todo = Listed, ![t].total = n] = [loc EXCEPT ![t] = l]
      BY DEF IInv, TypeOK
    <3> QED  BY <3>1, <3>2
  <2> HIDE DEF l
  <2>6. pc'[t] = "stat" /\ loc'[t] = l
    BY <1>3, <2>5 DEF IInv, TypeOK
  <2>7. Moved(t)
    BY <1>1, <1>3, <2>1, <2>2, <2>4, <2>5, FilesKept, GoOn
  <2> QED  BY <1>1, <2>4, <2>6, <2>7, FilesKept DEF Sound, n
<1> QED  BY <1>1, <1>2, <1>3 DEF ListSizes

LEMMA SizeAdded ==
  ASSUME IInv, NEW t \in Threads, AddSize(t)
  PROVE  /\ Sound(t) /\ pc[t] = "stat" /\ pc'[t] = "stat"
         /\ UNCHANGED <<files, clock, faults>> /\ UNCHANGED <<op, answer, before>>
         /\ loc'[t].key = loc[t].key /\ loc'[t].size = loc[t].size
         /\ loc'[t].temp = loc[t].temp
         /\ \E k \in loc[t].todo :
              /\ loc'[t].todo = loc[t].todo \ {k}
              /\ loc'[t].total = loc[t].total + Size(value[k])
<1>1. PICK k \in loc[t].todo :
        loc' = [loc EXCEPT ![t].todo = @ \ {k}, ![t].total = @ + Size(value[k])]
  BY DEF AddSize
<1>2. /\ pc[t] = "stat" /\ UNCHANGED <<files, clock, faults>>
      /\ UNCHANGED <<pc, op, answer, before>>
  BY DEF AddSize
<1>3. /\ op[t].kind \in {"write", "append"} /\ pc[t] # "idle" /\ ~loc[t].live
      /\ loc[t] \in Local
  BY <1>2, Writing, LiveAtAppend
<1>4. "stat" \in StepsOf(op[t].kind) /\ "stat" \in Steps
  BY <1>3 DEF StepsOf, Steps
<1> DEFINE n == Size(value[k])
           l == [loc[t] EXCEPT !.todo = loc[t].todo \ {k}, !.total = loc[t].total + n]
<1>5. n \in Nat
  BY <1>3, Totals DEF Local
<1> HIDE DEF n
<1>6. /\ l \in Local /\ l.key = loc[t].key /\ l.size = loc[t].size /\ l.temp = loc[t].temp
      /\ l.live = loc[t].live /\ l.todo = loc[t].todo \ {k} /\ l.total = loc[t].total + n
  <2> DEFINE v == loc[t]
             T == v.todo \ {k}
             q == v.total + n
  <2>1. v \in Local
    BY <1>3
  <2>2. T \in SUBSET Keys /\ q \in Nat
    <3> HIDE DEF v
    <3> QED  BY <1>5, <2>1 DEF Local
  <2>3. l = [v EXCEPT !.todo = T, !.total = q]
    OBVIOUS
  <2> HIDE DEF v, T, q, l
  <2>4. l \in Local /\ l.key = v.key /\ l.size = v.size /\ l.temp = v.temp /\ l.live = v.live
        /\ l.todo = T /\ l.total = q
    BY <2>1, <2>2, <2>3 DEF Local
  <2> QED  BY <2>4 DEF v, T, q
<1>7. loc' = [loc EXCEPT ![t] = l] /\ pc' = [pc EXCEPT ![t] = "stat"]
  <2>1. loc' = [loc EXCEPT ![t].todo = @ \ {k}, ![t].total = @ + n]
    BY <1>1 DEF n
  <2>2. [loc EXCEPT ![t].todo = @ \ {k}, ![t].total = @ + n] = [loc EXCEPT ![t] = l]
    BY DEF IInv, TypeOK
  <2>3. pc' = [pc EXCEPT ![t] = "stat"]
    BY <1>2 DEF IInv, TypeOK
  <2> QED  BY <2>1, <2>2, <2>3
<1> HIDE DEF l
<1>8. pc'[t] = "stat" /\ loc'[t] = l
  BY <1>2, <1>7 DEF IInv, TypeOK
<1>9. Moved(t)
  BY <1>2, <1>3, <1>4, <1>6, <1>7, FilesKept, GoOn
<1> QED  BY <1>2, <1>6, <1>8, <1>9, FilesKept DEF Sound, n

LEMMA TotalChecked ==
  ASSUME IInv, NEW t \in Threads, CheckTotalSize(t)
  PROVE  /\ Sound(t) /\ pc[t] = "stat" /\ loc[t].todo = {} /\ UNCHANGED <<files, clock, faults>>
         /\ \/ pc'[t] = "idle"
            \/ /\ Within(MaxTotal, TotalWith(t)) /\ AllowedTotal(t)
               /\ pc'[t] \in {"temp", "open"} /\ op' = op
               /\ loc'[t].key = loc[t].key /\ loc'[t].size = loc[t].size
<1>1. pc[t] = "stat" /\ loc[t].todo = {} /\ UNCHANGED <<files, clock, faults>>
  BY DEF CheckTotalSize
<1>2. CASE Return(t, "refused")
  BY <1>1, <1>2, FilesKept, NothingFound, Returned DEF Return, Sound
<1>3. CASE Within(MaxTotal, TotalWith(t)) /\ AllowedTotal(t)
  <2>1. /\ Sound(t) /\ pc'[t] \in {"temp", "open"} /\ op' = op
        /\ loc'[t].key = loc[t].key /\ loc'[t].size = loc[t].size
    BY <1>1, <1>3, TotalAllowed
  <2> QED  BY <1>1, <1>3, <2>1
<1> QED  BY <1>2, <1>3 DEF CheckTotalSize

LEMMA TempWritten ==
  ASSUME IInv, NEW t \in Threads, WriteTemp(t)
  PROVE  /\ Sound(t) /\ pc[t] = "temp" /\ UNCHANGED <<files, clock, faults>>
         /\ pc' = [pc EXCEPT ![t] = "rename"] /\ op' = op
         /\ loc'[t].key = loc[t].key /\ loc'[t].size = loc[t].size
<1> DEFINE l == [loc[t] EXCEPT !.temp = loc[t].size]
<1>1. /\ pc[t] = "temp" /\ UNCHANGED <<files, clock, faults>>
      /\ pc' = [pc EXCEPT ![t] = "rename"] /\ loc' = [loc EXCEPT ![t] = l]
      /\ UNCHANGED <<op, answer, before>>
  BY DEF WriteTemp, Goto
<1>2. op[t].kind = "write" /\ pc[t] # "idle" /\ ~loc[t].live /\ loc[t] \in Local
  BY <1>1, Writing, LiveAtAppend
<1>3. "rename" \in StepsOf(op[t].kind) /\ "rename" \in Steps
  BY <1>2 DEF StepsOf, Steps
<1>4. l \in Local /\ l.key = loc[t].key /\ l.size = loc[t].size /\ l.live = loc[t].live
  BY <1>2 DEF Local
<1>5. loc'[t] = l
  BY <1>1 DEF IInv, TypeOK
<1> HIDE DEF l
<1>6. Moved(t)
  BY <1>1, <1>2, <1>3, <1>4, FilesKept, GoOn
<1> QED  BY <1>1, <1>4, <1>5, <1>6, FilesKept DEF Sound

LEMMA MetaTempWritten ==
  ASSUME IInv, NEW t \in Threads, WriteMetaTemp(t)
  PROVE  /\ Sound(t) /\ pc[t] = "metaTemp" /\ UNCHANGED <<files, clock, faults>>
         /\ pc' = [pc EXCEPT ![t] = "metaRename"]
<1> DEFINE l == [loc[t] EXCEPT !.temp = MetaSize, !.now = clock]
<1>1. /\ pc[t] = "metaTemp" /\ UNCHANGED <<files, clock, faults>>
      /\ pc' = [pc EXCEPT ![t] = "metaRename"] /\ loc' = [loc EXCEPT ![t] = l]
      /\ UNCHANGED <<op, answer, before>>
  <2>1. loc' = [loc EXCEPT ![t].temp = MetaSize, ![t].now = clock]
    BY DEF WriteMetaTemp
  <2>2. [loc EXCEPT ![t].temp = MetaSize, ![t].now = clock] = [loc EXCEPT ![t] = l]
    BY DEF IInv, TypeOK
  <2> QED  BY <2>1, <2>2 DEF WriteMetaTemp, Goto
<1>2. op[t].kind \in {"write", "append"} /\ pc[t] # "idle" /\ ~loc[t].live /\ loc[t] \in Local
  BY <1>1, Writing, LiveAtAppend
<1>3. "metaRename" \in StepsOf(op[t].kind) /\ "metaRename" \in Steps
  BY <1>2 DEF StepsOf, Steps
<1>4. l \in Local /\ l.key = loc[t].key /\ l.live = loc[t].live
  <2>1. clock \in Stamp /\ MetaSize \in Nat
    BY Numbers DEF IInv, TypeOK
  <2> QED  BY <1>2, <2>1 DEF Local
<1> HIDE DEF l
<1>5. Moved(t)
  BY <1>1, <1>2, <1>3, <1>4, FilesKept, GoOn
<1> QED  BY <1>1, <1>5, FilesKept DEF Sound

LEMMA MetaRenamed ==
  ASSUME IInv, NEW t \in Threads, RenameMeta(t)
  PROVE  Sound(t) /\ pc[t] = "metaRename" /\ pc'[t] = "idle" /\ UNCHANGED value
<1>1. /\ pc[t] = "metaRename" /\ UNCHANGED <<value, leaked, clock, faults>>
      /\ meta' = [meta EXCEPT ![loc[t].key] = loc[t].now] /\ Return(t, "ok")
  BY DEF RenameMeta
<1>2. Moved(t) /\ pc'[t] = "idle"
  BY <1>1, NothingFound, Returned DEF Return
<1>3. meta' \in [Keys -> Stamp \cup {NoStamp}]
  <2>1. loc[t].now \in Stamp /\ meta \in [Keys -> Stamp \cup {NoStamp}]
    BY DEF IInv, TypeOK, Local
  <2> QED  BY <1>1, <2>1
<1> QED  BY <1>1, <1>2, <1>3 DEF Sound, IInv, TypeOK

LEMMA Expiries ==
  ASSUME IInv, NEW t \in Threads, CheckExpired(t) \/ ReadValue(t)
  PROVE  /\ Sound(t) /\ UNCHANGED <<files, clock, faults>> /\ pc[t] \in {"check", "read"}
         /\ pc'[t] \in {"idle", "read"}
<1>1. pc[t] \in {"check", "read"} /\ UNCHANGED <<files, clock, faults>>
  BY DEF CheckExpired, ReadValue
<1>2. TypeOK /\ op[t] \in Op /\ pc[t] \in StepsOf(op[t].kind) /\ ~loc[t].live
  BY <1>1 DEF IInv, AtWork
<1>3. op[t].kind = "read"
  <2>1. op[t].kind \notin {"write", "append", "delete", "search", "gc"}
    BY <1>1, <1>2 DEF StepsOf
  <2> QED  BY <1>2, <2>1, Ops
<1>4. ASSUME NEW is \in {"expired", "found"}, NEW at \in [Keys -> Value \cup {Missing}],
             ReturnFound(t, is, at)
      PROVE  Sound(t) /\ pc'[t] = "idle"
  BY <1>1, <1>4, FilesKept, Returned DEF Sound
<1>5. ASSUME ReadValue(t) PROVE Sound(t) /\ pc'[t] = "idle"
  <2> DEFINE at == Only(loc[t].key, value[loc[t].key])
  <2>1. at \in [Keys -> Value \cup {Missing}]
    BY <1>2 DEF Only, TypeOK
  <2>2. ReturnFound(t, "found", at)
    BY <1>5 DEF ReadValue
  <2> QED  BY <1>4, <2>1, <2>2
<1>6. CASE Return(t, "expired")
  BY <1>1, <1>4, <1>6, NothingFound DEF Return
<1>7. CASE pc' = [pc EXCEPT ![t] = "read"] /\ UNCHANGED <<op, loc, answer, before>>
  <2>1. "read" \in StepsOf(op[t].kind) /\ "read" \in Steps
    BY <1>3 DEF StepsOf, Steps
  <2>2. Moved(t)
    BY <1>1, <1>2, <1>7, <2>1, FilesKept, GoTo
  <2>3. pc'[t] = "read"
    BY <1>2, <1>7 DEF TypeOK
  <2> QED  BY <1>1, <2>2, <2>3, FilesKept DEF Sound
<1> QED  BY <1>1, <1>5, <1>6, <1>7 DEF CheckExpired

\* A call goes on after its key was renamed over or removed: what others hold open of
\* it is no longer in the directory.
LEMMA Orphaned ==
  ASSUME IInv, NEW t \in Threads, pc[t] # "idle", NEW s \in StepsOf(op[t].kind), s \in Steps,
         pc' = [pc EXCEPT ![t] = s], UNCHANGED <<op, answer, before>>,
         NEW mine \in Local, Orphan(t, mine), mine.key = loc[t].key, ~mine.live,
         loc[t].key \in Keys, \A k \in Keys \ {loc[t].key} : value'[k] = value[k]
  PROVE  Moved(t)
<1>1. TypeOK /\ AtWork(t)
  BY DEF IInv
<1>2. ASSUME NEW u \in Threads \ {t}
      PROVE  /\ loc'[u] \in Local /\ loc'[u].key = loc[u].key /\ loc'[u].size = loc[u].size
             /\ loc'[u].todo = loc[u].todo /\ loc'[u].total = loc[u].total
             /\ pc[u] = "idle" => loc'[u] = loc[u]
             /\ loc'[u].live => loc[u].live /\ loc[u].key # loc[t].key
  <2> DEFINE v == loc[u]
             w == [v EXCEPT !.live = FALSE]
  <2>1. v \in Local
    BY <1>1 DEF TypeOK
  <2>2. w \in Local /\ w.key = v.key /\ w.size = v.size /\ w.live = FALSE
        /\ w.todo = v.todo /\ w.total = v.total
    <3> HIDE DEF v
    <3> QED  BY <2>1 DEF Local
  <2>3. loc'[u] = IF v.key = loc[t].key THEN w ELSE v
    BY DEF Orphan
  <2>4. pc[u] = "idle" => v.key \notin Keys
    BY MemoryAssumption DEF IInv, AtWork, Blank
  <2> HIDE DEF v, w
  <2>5. /\ loc'[u] \in Local /\ loc'[u].key = v.key /\ loc'[u].size = v.size
        /\ loc'[u].todo = v.todo /\ loc'[u].total = v.total
        /\ pc[u] = "idle" => loc'[u] = v
        /\ loc'[u].live => v.live /\ v.key # loc[t].key
    BY <2>1, <2>2, <2>3, <2>4
  <2> QED  BY <2>5 DEF v
<1>3. loc'[t] = mine /\ loc' \in [Threads -> Local]
  <2>1. DOMAIN loc' = Threads /\ loc'[t] = mine
    BY DEF Orphan
  <2>2. \A u \in Threads : loc'[u] \in Local
    BY <1>2, <2>1
  <2>3. loc' = [u \in Threads |-> loc'[u]]
    BY DEF Orphan
  <2> QED  BY <2>1, <2>2, <2>3
<1>4. pc' \in [Threads -> Steps \cup {"idle"}] /\ pc'[t] = s /\ op'[t] = op[t]
  BY <1>1 DEF TypeOK
<1>5. s # "idle"
  BY DEF Steps
<1>6. AtWork(t)'
  <2>1. op[t] \in Op /\ (op[t].kind \notin {"search", "gc"} => loc[t].key = op[t].key)
    BY <1>1 DEF AtWork
  <2> QED  BY <1>3, <1>4, <1>5, <2>1 DEF AtWork
<1>7. OthersKept(t)
  <2> SUFFICES ASSUME NEW u \in Threads \ {t}, loc'[u].live PROVE value'[loc[u].key] # Missing
    BY <1>1, <1>2 DEF OthersKept, TypeOK
  <2>1. loc[u].live /\ loc[u].key # loc[t].key
    BY <1>2
  <2>2. pc[u] = "append" /\ value[loc[u].key] # Missing
    BY <2>1, LiveAtAppend
  <2>3. loc[u].key \in Keys
    BY <2>2, Writing
  <2> QED  BY <2>1, <2>2, <2>3
<1> QED  BY <1>1, <1>3, <1>4, <1>6, <1>7 DEF Moved, TypeOK

LEMMA ValueRenamed ==
  ASSUME IInv, NEW t \in Threads, RenameValue(t)
  PROVE  /\ Sound(t) /\ pc[t] = "rename" /\ UNCHANGED <<op, leaked, clock>>
         /\ pc' = [pc EXCEPT ![t] = "metaTemp"]
         /\ value' = [value EXCEPT ![loc[t].key] = op[t].content]
<1> DEFINE mine == [loc[t] EXCEPT !.temp = 0]
<1>1. /\ pc[t] = "rename" /\ UNCHANGED <<meta, leaked, clock, faults, op, answer, before>>
      /\ pc' = [pc EXCEPT ![t] = "metaTemp"] /\ Orphan(t, mine)
      /\ value' = [value EXCEPT ![loc[t].key] = op[t].content]
  BY DEF RenameValue, Goto
<1>2. /\ op[t].kind = "write" /\ pc[t] # "idle" /\ ~loc[t].live /\ loc[t] \in Local
      /\ loc[t].key \in Keys /\ op[t].content \in Value
  BY <1>1, Writing, LiveAtAppend DEF Value
<1>3. "metaTemp" \in StepsOf(op[t].kind) /\ "metaTemp" \in Steps
  BY <1>2 DEF StepsOf, Steps
<1>4. mine \in Local /\ mine.key = loc[t].key /\ mine.live = loc[t].live
  BY <1>2 DEF Local
<1> HIDE DEF mine
<1>5. /\ value' \in [Keys -> Value \cup {Missing}]
      /\ \A k \in Keys \ {loc[t].key} : value'[k] = value[k]
  BY <1>1, <1>2 DEF IInv, TypeOK
<1>6. Moved(t)
  BY <1>1, <1>2, <1>3, <1>4, <1>5, Orphaned
<1> QED  BY <1>1, <1>5, <1>6 DEF Sound, IInv, TypeOK

LEMMA ValueRemoved ==
  ASSUME IInv, NEW t \in Threads, RemoveValue(t)
  PROVE  /\ Sound(t) /\ pc[t] = "removeValue" /\ pc'[t] = "removeMeta" /\ loc[t].key \in Keys
         /\ value' = [value EXCEPT ![loc[t].key] = Missing]
<1>1. /\ pc[t] = "removeValue" /\ UNCHANGED <<meta, leaked, clock, faults, op, answer, before>>
      /\ pc' = [pc EXCEPT ![t] = "removeMeta"] /\ Orphan(t, loc[t])
      /\ value' = [value EXCEPT ![loc[t].key] = Missing]
  BY DEF RemoveValue, Goto
<1>2. /\ TypeOK /\ op[t] \in Op /\ pc[t] \in StepsOf(op[t].kind) /\ loc[t].key \in Keys
      /\ ~loc[t].live /\ loc[t] \in Local
  BY <1>1 DEF IInv, AtWork, TypeOK
<1>3. op[t].kind \in {"delete", "gc"}
  <2>1. op[t].kind \notin {"write", "append", "read", "search"}
    BY <1>1, <1>2 DEF StepsOf
  <2> QED  BY <1>2, <2>1, Ops
<1>4. "removeMeta" \in StepsOf(op[t].kind) /\ "removeMeta" \in Steps
  <2>1. CASE op[t].kind = "delete"  BY <2>1 DEF StepsOf, Steps
  <2>2. CASE op[t].kind = "gc"  BY <2>2 DEF StepsOf, Steps
  <2> QED  BY <1>3, <2>1, <2>2
<1>5. /\ value' \in [Keys -> Value \cup {Missing}]
      /\ \A k \in Keys \ {loc[t].key} : value'[k] = value[k]
  BY <1>1, <1>2 DEF TypeOK
<1>6. Moved(t)
  BY <1>1, <1>2, <1>4, <1>5, Orphaned
<1>7. pc'[t] = "removeMeta"
  BY <1>1, <1>2 DEF TypeOK
<1> QED  BY <1>1, <1>2, <1>5, <1>6, <1>7 DEF Sound, TypeOK

LEMMA AppendOpened ==
  ASSUME IInv, NEW t \in Threads, OpenAppend(t)
  PROVE  /\ Sound(t) /\ pc[t] = "open" /\ op' = op
         /\ pc' = [pc EXCEPT ![t] = "append"]
         /\ value' = [value EXCEPT ![loc[t].key] = IF @ = Missing THEN <<>> ELSE @]
         /\ loc'[t].key = loc[t].key /\ loc'[t].size = loc[t].size
<1> DEFINE l == [loc[t] EXCEPT !.live = TRUE]
           v == IF value[loc[t].key] = Missing THEN <<>> ELSE value[loc[t].key]
<1>1. /\ pc[t] = "open" /\ UNCHANGED <<meta, leaked, clock, faults, op, answer, before>>
      /\ pc' = [pc EXCEPT ![t] = "append"] /\ loc' = [loc EXCEPT ![t] = l]
      /\ value' = [value EXCEPT ![loc[t].key] = v]
  BY DEF OpenAppend, Goto
<1>2. /\ op[t].kind = "append" /\ pc[t] # "idle" /\ loc[t] \in Local /\ loc[t].key \in Keys
      /\ TypeOK
  BY <1>1, Writing DEF IInv
<1>3. "append" \in StepsOf(op[t].kind) /\ "append" \in Steps
  BY <1>2 DEF StepsOf, Steps
<1>4. l \in Local /\ l.key = loc[t].key /\ l.size = loc[t].size
  BY <1>2 DEF Local
<1>5. v \in Value /\ v # Missing
  <2>1. value[loc[t].key] \in Value \cup {Missing} /\ <<>> \in Value
    BY <1>2 DEF TypeOK, Value
  <2>2. \A w \in Value : w # Missing
    BY MemoryAssumption DEF Value
  <2> QED  BY <2>1, <2>2
<1>6. loc'[t] = l
  BY <1>1, <1>2 DEF TypeOK
<1> HIDE DEF l, v
<1>7. /\ value' \in [Keys -> Value \cup {Missing}] /\ value'[loc[t].key] # Missing
      /\ \A k \in Keys : value[k] # Missing => value'[k] # Missing
  BY <1>1, <1>2, <1>5 DEF TypeOK
<1>8. Moved(t)
  BY <1>1, <1>2, <1>3, <1>4, <1>7, GoOn
<1>9. value' = [value EXCEPT ![loc[t].key] = IF @ = Missing THEN <<>> ELSE @]
  BY DEF OpenAppend
<1> QED  BY <1>1, <1>2, <1>4, <1>6, <1>7, <1>8, <1>9 DEF Sound, TypeOK

LEMMA DataAppended ==
  ASSUME IInv, NEW t \in Threads, AppendData(t)
  PROVE  /\ Sound(t) /\ pc[t] = "append" /\ op' = op
         /\ pc' = [pc EXCEPT ![t] = "metaTemp"]
         /\ \/ ~loc[t].live /\ value' = value
            \/ /\ loc[t].live /\ value[loc[t].key] # Missing
               /\ value' = [value EXCEPT ![loc[t].key] = @ \o op[t].content]
               /\ value'[loc[t].key] # Missing
               /\ Size(value'[loc[t].key]) = Size(value[loc[t].key]) + Len(op[t].content)
<1> DEFINE l == [loc[t] EXCEPT !.live = FALSE]
           old == value[loc[t].key]
           c == op[t].content
<1>1. /\ pc[t] = "append" /\ UNCHANGED <<meta, leaked, clock, faults, op, answer, before>>
      /\ pc' = [pc EXCEPT ![t] = "metaTemp"] /\ loc' = [loc EXCEPT ![t] = l]
      /\ value' = IF loc[t].live THEN [value EXCEPT ![loc[t].key] = old \o c] ELSE value
  BY DEF AppendData, Goto
<1>2. /\ op[t].kind = "append" /\ pc[t] # "idle" /\ loc[t] \in Local /\ loc[t].key \in Keys
      /\ c \in Seq(Chunks) /\ TypeOK
  BY <1>1, Writing DEF IInv
<1>3. "metaTemp" \in StepsOf(op[t].kind) /\ "metaTemp" \in Steps
  BY <1>2 DEF StepsOf, Steps
<1>4. l \in Local /\ l.key = loc[t].key /\ l.live = FALSE
  BY <1>2 DEF Local
<1>5. ASSUME loc[t].live
      PROVE  /\ old # Missing /\ old \o c \in Value /\ old \o c # Missing
             /\ Size(old \o c) = Size(old) + Len(c)
  <2>1. old # Missing
    BY <1>5, LiveAtAppend
  <2>2. old \in Seq(Chunks)
    BY <1>2, <2>1 DEF TypeOK, Value
  <2> HIDE DEF old, c
  <2>3. old \o c \in Seq(Chunks) /\ Len(old \o c) = Len(old) + Len(c)
    BY <1>2, <2>2
  <2>4. old \o c # Missing
    BY <2>3, MemoryAssumption
  <2> QED  BY <2>1, <2>3, <2>4 DEF Size, Value
<1> HIDE DEF l, c
<1>6. /\ value' \in [Keys -> Value \cup {Missing}]
      /\ \A k \in Keys : value[k] # Missing => value'[k] # Missing
      /\ loc[t].live => value'[loc[t].key] = old \o c
  <2>1. value \in [Keys -> Value \cup {Missing}]
    BY <1>2 DEF TypeOK
  <2>2. CASE loc[t].live
    <3> DEFINE w == old \o c
    <3>1. w \in Value /\ w # Missing /\ value' = [value EXCEPT ![loc[t].key] = w]
      BY <1>1, <1>5, <2>2
    <3> HIDE DEF w
    <3>2. /\ value' \in [Keys -> Value \cup {Missing}]
          /\ \A k \in Keys : value[k] # Missing => value'[k] # Missing
          /\ value'[loc[t].key] = w
      BY <1>2, <2>1, <3>1
    <3> QED  BY <3>2 DEF w
  <2>3. CASE ~loc[t].live
    BY <1>1, <2>1, <2>3
  <2> QED  BY <2>2, <2>3
<1>7. Moved(t)
  BY <1>1, <1>2, <1>3, <1>4, <1>6, GoOn
<1>8. Sound(t)
  BY <1>1, <1>2, <1>6, <1>7 DEF Sound, TypeOK
<1>9. CASE ~loc[t].live
  BY <1>1, <1>8, <1>9
<1>10. CASE loc[t].live
  <2>1. value' = [value EXCEPT ![loc[t].key] = @ \o op[t].content]
    BY <1>10 DEF AppendData
  <2>2. /\ value'[loc[t].key] # Missing /\ old # Missing
        /\ Size(value'[loc[t].key]) = Size(old) + Len(c)
    BY <1>5, <1>6, <1>10
  <2> QED  BY <1>1, <1>8, <1>10, <2>1, <2>2 DEF c
<1> QED  BY <1>9, <1>10

\* A call that is past its removal.
LEMMA RemovalOver ==
  ASSUME IInv, NEW t \in Threads, pc[t] = "removeMeta", AfterRemoval(t), UNCHANGED value
  PROVE  Moved(t) /\ pc'[t] \in {"idle", "visit"}
<1>1. /\ op[t] \in Op /\ loc[t].key \in Keys /\ ~loc[t].live /\ pc[t] # "idle" /\ TypeOK
  BY DEF IInv, AtWork
<1>2. CASE Return(t, "ok")
  BY <1>1, <1>2, NothingFound, Returned DEF Return
<1>3. CASE /\ op[t].kind = "gc" /\ pc' = [pc EXCEPT ![t] = "visit"]
           /\ UNCHANGED <<op, loc, answer, before>>
  <2>1. "visit" \in StepsOf(op[t].kind) /\ "visit" \in Steps
    BY <1>3 DEF StepsOf, Steps
  <2>2. Moved(t)
    BY <1>1, <1>3, <2>1, GoTo
  <2>3. pc'[t] = "visit"
    BY <1>1, <1>3 DEF TypeOK
  <2> QED  BY <2>2, <2>3
<1> QED  BY <1>2, <1>3 DEF AfterRemoval

LEMMA MetaRemoved ==
  ASSUME IInv, NEW t \in Threads, RemoveMeta(t)
  PROVE  Sound(t) /\ pc'[t] \in {"idle", "visit"} /\ UNCHANGED value
<1>1. /\ pc[t] = "removeMeta" /\ UNCHANGED <<value, leaked, clock, faults>> /\ AfterRemoval(t)
      /\ meta' = [meta EXCEPT ![loc[t].key] = NoStamp]
  BY DEF RemoveMeta
<1>2. Moved(t) /\ pc'[t] \in {"idle", "visit"}
  BY <1>1, RemovalOver
<1>3. meta' \in [Keys -> Stamp \cup {NoStamp}]
  BY <1>1 DEF IInv, TypeOK
<1> QED  BY <1>1, <1>2, <1>3 DEF Sound, IInv, TypeOK

LEMMA KeysListed ==
  ASSUME IInv, NEW t \in Threads, ListKeys(t)
  PROVE  Sound(t) /\ pc'[t] = "visit" /\ UNCHANGED value
<1> DEFINE l == [loc[t] EXCEPT !.todo = Listed]
<1>1. /\ pc[t] = "list" /\ UNCHANGED <<files, clock, faults, op, answer, before>>
      /\ pc' = [pc EXCEPT ![t] = "visit"] /\ loc' = [loc EXCEPT ![t] = l]
  BY DEF ListKeys, Goto
<1>2. /\ op[t] \in Op /\ pc[t] \in StepsOf(op[t].kind) /\ ~loc[t].live /\ TypeOK
      /\ (op[t].kind \notin {"search", "gc"} => loc[t].key = op[t].key)
  BY <1>1 DEF IInv, AtWork
<1>3. op[t].kind \in {"search", "gc"}
  <2>1. op[t].kind \notin {"write", "append", "read", "delete"}
    BY <1>1, <1>2 DEF StepsOf
  <2> QED  BY <1>2, <2>1, Ops
<1>4. "visit" \in StepsOf(op[t].kind) /\ "visit" \in Steps
  BY <1>3 DEF StepsOf, Steps
<1>5. l \in Local /\ l.key = loc[t].key /\ l.live = loc[t].live
  <2>1. loc[t] \in Local /\ Listed \in SUBSET Keys
    BY <1>2 DEF TypeOK, Listed
  <2> HIDE DEF Listed
  <2> QED  BY <2>1 DEF Local
<1> HIDE DEF l
<1>6. Moved(t)
  BY <1>1, <1>2, <1>4, <1>5, FilesKept, GoOn
<1>7. pc'[t] = "visit"
  BY <1>1, <1>2 DEF TypeOK
<1> QED  BY <1>1, <1>6, <1>7, FilesKept DEF Sound

LEMMA Scanned ==
  ASSUME IInv, NEW t \in Threads, Scan(t)
  PROVE  Sound(t) /\ pc'[t] \in {"idle", "visit"} /\ UNCHANGED value
<1>1. /\ pc[t] = "visit" /\ op[t].kind = "search" /\ UNCHANGED <<files, clock, faults>>
      /\ UNCHANGED value
  BY DEF Scan, files
<1>2. TypeOK /\ ~loc[t].live /\ loc[t] \in Local
  BY <1>1 DEF IInv, AtWork, TypeOK
<1>3. ASSUME NEW k \in loc[t].todo,
             loc' = [loc EXCEPT ![t].todo = @ \ {k}, ![t].found[k] = value[k]],
             UNCHANGED <<pc, op, answer, before>>
      PROVE  Sound(t) /\ pc'[t] = "visit"
  <2> DEFINE o == loc[t]
             f == [o.found EXCEPT ![k] = value[k]]
             d == o.todo \ {k}
             l == [o EXCEPT !.todo = d, !.found = f]
  <2>1. loc' = [loc EXCEPT ![t] = l]
    BY <1>2, <1>3 DEF TypeOK, Local
  <2>2. f \in [Keys -> Value \cup {Missing}] /\ d \in SUBSET Keys
    <3>1. /\ o.found \in [Keys -> Value \cup {Missing}] /\ o.todo \in SUBSET Keys
          /\ value \in [Keys -> Value \cup {Missing}]
      BY <1>2 DEF TypeOK, Local
    <3> QED  BY <1>3, <3>1
  <2>3. l \in Local /\ l.key = o.key /\ l.live = o.live
    <3> HIDE DEF f, d, o
    <3>1. o \in Local
      BY <1>2 DEF o
    <3> QED  BY <2>2, <3>1 DEF Local
  <2>4. "visit" \in StepsOf(op[t].kind) /\ "visit" \in Steps /\ pc' = [pc EXCEPT ![t] = "visit"]
    BY <1>1, <1>2, <1>3 DEF StepsOf, Steps, TypeOK
  <2> HIDE DEF l
  <2>5. Moved(t)
    BY <1>1, <1>2, <1>3, <2>1, <2>3, <2>4, GoOn
  <2> QED  BY <1>1, <1>3, <2>5, FilesKept DEF Sound
<1>4. ASSUME ReturnFound(t, "found", loc[t].found)
      PROVE  Sound(t) /\ pc'[t] = "idle"
  <2> DEFINE f == loc[t].found
  <2>1. f \in [Keys -> Value \cup {Missing}] /\ ReturnFound(t, "found", f)
    BY <1>2, <1>4 DEF Local
  <2> HIDE DEF f
  <2> QED  BY <1>1, <2>1, FilesKept, Returned DEF Sound
<1> QED  BY <1>1, <1>3, <1>4 DEF Scan

LEMMA Collected ==
  ASSUME IInv, NEW t \in Threads, Collect(t)
  PROVE  Sound(t) /\ pc'[t] \in {"idle", "visit", "removeValue"} /\ UNCHANGED value
<1>1. /\ pc[t] = "visit" /\ op[t].kind = "gc" /\ UNCHANGED <<files, clock, faults>>
      /\ UNCHANGED value
  BY DEF Collect, files
<1>2. TypeOK /\ ~loc[t].live /\ loc[t] \in Local
  BY <1>1 DEF IInv, AtWork, TypeOK
<1>3. ASSUME NEW k \in loc[t].todo,
             loc' = [loc EXCEPT ![t].todo = @ \ {k}, ![t].key = k],
             pc' = [pc EXCEPT ![t] = IF Expired(k) THEN "removeValue" ELSE "visit"],
             UNCHANGED <<op, answer, before>>
      PROVE  Sound(t) /\ pc'[t] \in {"visit", "removeValue"}
  <2> DEFINE d == loc[t].todo \ {k}
             l == [loc[t] EXCEPT !.todo = d, !.key = k]
             s == IF Expired(k) THEN "removeValue" ELSE "visit"
  <2>1. loc' = [loc EXCEPT ![t] = l]
    BY <1>2, <1>3 DEF TypeOK, Local
  <2>2. k \in Keys /\ d \in SUBSET Keys
    BY <1>2, <1>3 DEF Local
  <2>3. l \in Local /\ l.key = k /\ l.live = loc[t].live
    <3> HIDE DEF d
    <3> QED  BY <1>2, <2>2 DEF Local
  <2>4. s \in StepsOf(op[t].kind) /\ s \in Steps /\ s \in {"visit", "removeValue"}
    BY <1>1 DEF StepsOf, Steps
  <2>5. pc' = [pc EXCEPT ![t] = s]
    BY <1>3
  <2> HIDE DEF l, s, d
  <2>6. Moved(t)
    BY <1>1, <1>2, <1>3, <2>1, <2>2, <2>3, <2>4, <2>5, GoOn
  <2>7. pc'[t] = s
    BY <1>2, <2>5 DEF TypeOK
  <2> QED  BY <1>1, <2>4, <2>6, <2>7, FilesKept DEF Sound
<1>4. ASSUME Return(t, "ok")
      PROVE  Sound(t) /\ pc'[t] = "idle"
  BY <1>1, <1>4, FilesKept, NothingFound, Returned DEF Sound, Return
<1> QED  BY <1>1, <1>3, <1>4 DEF Collect

LEMMA Failed ==
  ASSUME IInv, NEW t \in Threads, Fail(t)
  PROVE  Sound(t) /\ pc'[t] \in {"idle", "visit"} /\ UNCHANGED value
<1>1. /\ UNCHANGED <<files, clock>> /\ UNCHANGED <<value, meta, leaked, clock>>
      /\ faults' = faults + 1 /\ faults < MaxFaults
  BY DEF Fail, files
<1>2. TypeOK /\ faults' \in 0..MaxFaults
  BY <1>1, Numbers DEF IInv, TypeOK
<1>3. ASSUME Moved(t), pc'[t] \in {"idle", "visit"}
      PROVE  Sound(t) /\ pc'[t] \in {"idle", "visit"} /\ UNCHANGED value
  BY <1>1, <1>2, <1>3 DEF Sound, TypeOK
<1>4. CASE pc[t] # "idle" /\ Return(t, "failed")
  BY <1>1, <1>3, <1>4, NothingFound, Returned DEF Return
<1>5. CASE /\ pc[t] = "removeValue" /\ op[t].kind = "gc" /\ pc' = [pc EXCEPT ![t] = "visit"]
           /\ UNCHANGED <<op, loc, answer, before>>
  <2>1. "visit" \in StepsOf(op[t].kind) /\ "visit" \in Steps
    BY <1>5 DEF StepsOf, Steps
  <2>2. ~loc[t].live /\ pc'[t] = "visit"
    BY <1>2, <1>5 DEF IInv, AtWork, TypeOK
  <2>3. Moved(t)
    BY <1>1, <1>5, <2>1, <2>2, GoTo
  <2> QED  BY <1>3, <2>2, <2>3
<1>6. CASE pc[t] = "removeMeta" /\ AfterRemoval(t)
  BY <1>1, <1>3, <1>6, RemovalOver
<1> QED  BY <1>4, <1>5, <1>6 DEF Fail, Steps

\* What a crash leaves.
LEMMA Crashed ==
  ASSUME IInv, NEW p \in Procs, Crash(p)
  PROVE  /\ IInv' /\ UNCHANGED value
         /\ \A t \in Threads : \/ pc'[t] = "idle"
                               \/ pc'[t] = pc[t] /\ op'[t] = op[t] /\ loc'[t] = loc[t]
<1> DEFINE mine == {t \in Threads : ProcOf[t] = p}
<1>1. /\ leaked' = leaked + TempBytes(mine)
      /\ pc' = [t \in Threads |-> IF t \in mine THEN "idle" ELSE pc[t]]
      /\ op' = [t \in Threads |-> IF t \in mine THEN NoOp ELSE op[t]]
      /\ loc' = [t \in Threads |-> IF t \in mine THEN Blank ELSE loc[t]]
      /\ answer' = [t \in Threads |-> IF t \in mine THEN NoAnswer ELSE answer[t]]
      /\ before' = [before EXCEPT ![p] = NoStore]
      /\ UNCHANGED <<value, meta, clock>> /\ faults < MaxFaults /\ faults' = faults + 1
  BY DEF Crash
<1>2. TypeOK
  BY DEF IInv
<1>3. leaked' \in Nat
  <2>1. TempBytes(mine) \in Nat /\ leaked \in Nat
    BY Totals
  <2> QED  BY <1>1, <2>1
<1>4. faults' \in 0..MaxFaults
  BY <1>1, <1>2, Numbers DEF TypeOK
<1> HIDE DEF mine
<1>5. /\ pc' \in [Threads -> Steps \cup {"idle"}]
      /\ op' \in [Threads -> Op \cup {NoOp}]
      /\ loc' \in [Threads -> Local]
      /\ answer' \in [Threads -> [op : Op, result : Result] \cup {NoAnswer}]
      /\ before' \in [Procs -> Store \cup {NoStore}]
  <2>1. pc' \in [Threads -> Steps \cup {"idle"}]
    BY <1>1, <1>2 DEF TypeOK
  <2>2. op' \in [Threads -> Op \cup {NoOp}]
    BY <1>1, <1>2 DEF TypeOK
  <2>3. loc' \in [Threads -> Local]
    BY <1>1, <1>2, BlankLocal DEF TypeOK
  <2>4. answer' \in [Threads -> [op : Op, result : Result] \cup {NoAnswer}]
    BY <1>1, <1>2 DEF TypeOK
  <2>5. before' \in [Procs -> Store \cup {NoStore}]
    BY <1>1, <1>2 DEF TypeOK
  <2> QED  BY <2>1, <2>2, <2>3, <2>4, <2>5
<1>6. TypeOK'
  BY <1>1, <1>2, <1>3, <1>4, <1>5 DEF TypeOK
<1>7. \A t \in Threads : \/ pc'[t] = "idle" /\ op'[t] = NoOp /\ loc'[t] = Blank
                         \/ pc'[t] = pc[t] /\ op'[t] = op[t] /\ loc'[t] = loc[t]
  BY <1>1
<1>8. \A t \in Threads : AtWork(t)'
  BY <1>1, <1>7 DEF IInv, AtWork
<1>9. Locked'
  BY <1>7 DEF IInv, Locked
<1> QED  BY <1>1, <1>6, <1>7, <1>8, <1>9 DEF IInv

LEMMA Ticked ==
  ASSUME IInv, Tick
  PROVE  IInv' /\ UNCHANGED <<value, pc, op, loc>>
<1>1. clock' \in Stamp
  BY Numbers DEF Tick, IInv, TypeOK, Stamp
<1>2. UNCHANGED <<value, meta, leaked, faults, pc, op, loc, answer, before>>
  BY DEF Tick, files
<1> QED  BY <1>1, <1>2 DEF IInv, TypeOK, Locked, AtWork

LEMMA StepSound ==
  ASSUME IInv, NEW t \in Threads, Step(t)
  PROVE  Sound(t)
<1>1. CASE Begin(t)
  <2>1. Moved(t) /\ UNCHANGED <<files, clock, faults>>
    BY <1>1, BeginMoved
  <2> QED  BY <2>1, FilesKept DEF Sound
<1>2. CASE CheckValueSize(t)  BY <1>2, SizeTaken
<1>3. CASE CheckKeyCount(t)  BY <1>3, CountChecked
<1>4. CASE CheckTotalSize(t)  BY <1>4, TotalChecked
<1>18. CASE ListSizes(t)  BY <1>18, SizesListed
<1>19. CASE AddSize(t)  BY <1>19, SizeAdded
<1>5. CASE WriteTemp(t)  BY <1>5, TempWritten
<1>6. CASE RenameValue(t)  BY <1>6, ValueRenamed
<1>7. CASE OpenAppend(t)  BY <1>7, AppendOpened
<1>8. CASE AppendData(t)  BY <1>8, DataAppended
<1>9. CASE WriteMetaTemp(t)  BY <1>9, MetaTempWritten
<1>10. CASE RenameMeta(t)  BY <1>10, MetaRenamed
<1>11. CASE RemoveValue(t)  BY <1>11, ValueRemoved
<1>12. CASE RemoveMeta(t)  BY <1>12, MetaRemoved
<1>13. CASE CheckExpired(t) \/ ReadValue(t)  BY <1>13, Expiries
<1>14. CASE ListKeys(t)  BY <1>14, KeysListed
<1>15. CASE Scan(t)  BY <1>15, Scanned
<1>16. CASE Collect(t)  BY <1>16, Collected
<1>17. CASE Fail(t)  BY <1>17, Failed
<1> QED  BY <1>1, <1>2, <1>3, <1>4, <1>5, <1>6, <1>7, <1>8, <1>9, <1>10, <1>11, <1>12, <1>13,
            <1>14, <1>15, <1>16, <1>17, <1>18, <1>19 DEF Step

LEMMA InitSafe == Init => IInv
<1> SUFFICES ASSUME Init PROVE IInv
  OBVIOUS
<1>1. TypeOK
  <2>1. 0 \in Stamp /\ 0 \in 0..MaxFaults /\ 0 \in Nat
    BY Numbers DEF Stamp
  <2>2. value \in [Keys -> Value \cup {Missing}] /\ meta \in [Keys -> Stamp \cup {NoStamp}]
    BY DEF Init
  <2>3. loc \in [Threads -> Local] /\ pc \in [Threads -> Steps \cup {"idle"}]
    BY BlankLocal DEF Init
  <2>4. /\ op \in [Threads -> Op \cup {NoOp}]
        /\ answer \in [Threads -> [op : Op, result : Result] \cup {NoAnswer}]
        /\ before \in [Procs -> Store \cup {NoStore}]
    BY DEF Init
  <2> QED  BY <2>1, <2>2, <2>3, <2>4 DEF Init, TypeOK
<1>2. \A t \in Threads : AtWork(t)
  BY DEF Init, AtWork
<1>3. Locked
  BY DEF Init, Locked
<1> QED  BY <1>1, <1>2, <1>3 DEF IInv

LEMMA NextSafe ==
  ASSUME IInv, [Next]_vars
  PROVE  IInv'
<1>1. ASSUME NEW t \in Threads, Step(t) PROVE IInv'
  BY <1>1, StepSound, MovedSafe DEF Sound
<1>2. ASSUME NEW p \in Procs, Crash(p) PROVE IInv'
  BY <1>2, Crashed
<1>3. CASE Tick
  BY <1>3, Ticked
<1>4. CASE UNCHANGED vars
  BY <1>4 DEF vars, files, IInv, TypeOK, Locked, AtWork
<1> QED  BY <1>1, <1>2, <1>3, <1>4 DEF Next

\* Every call of a Manager is at a step of its own kind, a handle that is still
\* that of a file in the directory names one that is there, and in one process
\* only calls that share the lock run together (the RWMutex of Manager).
THEOREM Invariance == Spec => []IInv
<1>1. IInv /\ [Next]_vars => IInv'
  BY NextSafe
<1> QED  BY InitSafe, <1>1, PTL DEF Spec

\* The files, the calls and what they return stay within their types.
THEOREM TypeCorrect == Spec => []TypeOK
<1>1. IInv => TypeOK
  BY DEF IInv
<1> QED  BY Invariance, <1>1, PTL

(* ---- keys ---- *)

\* The calls that write, beside that of t, run in other processes than it does, each in
\* its own.
LEMMA Rivals ==
  ASSUME IInv, NEW t \in Threads, pc[t] # "idle", ~Shared(op[t]),
         NEW S \in SUBSET {u \in Threads \ {t} : pc[u] # "idle" /\ ~Shared(op[u])}
  PROVE  /\ IsFiniteSet(S) /\ Cardinality(S) \in Nat /\ Cardinality(Procs) \in Nat
         /\ Cardinality(S) <= Cardinality(Procs) - 1
<1> DEFINE T == Procs \ {ProcOf[t]}
           f == [u \in S |-> ProcOf[u]]
<1>1. IsFiniteSet(S)
  BY FS_Subset, MemoryAssumption
<1>2. ProcOf[t] \in Procs /\ IsFiniteSet(Procs)
  BY MemoryAssumption
<1>3. IsFiniteSet(T) /\ Cardinality(T) = Cardinality(Procs) - 1
  BY <1>2, FS_RemoveElement
<1>4. f \in Injection(S, T)
  <2>1. ASSUME NEW u \in S PROVE ProcOf[u] \in T
    BY MemoryAssumption DEF IInv, Locked
  <2>2. ASSUME NEW u \in S, NEW v \in S, ProcOf[u] = ProcOf[v] PROVE u = v
    BY <2>2 DEF IInv, Locked
  <2>3. f \in [S -> T]
    BY <2>1
  <2>4. \A u, v \in S : f[u] = f[v] => u = v
    BY <2>2
  <2>5. DOMAIN f = S
    OBVIOUS
  <2> HIDE DEF f, T
  <2> QED  BY <2>3, <2>4, <2>5 DEF Injection, IsInjective
<1>5. Cardinality(S) <= Cardinality(T)
  BY <1>3, <1>4, FS_Injection
<1>6. Cardinality(S) \in Nat /\ Cardinality(Procs) \in Nat
  BY <1>1, <1>2, FS_CardinalityType
<1> QED  BY <1>1, <1>3, <1>5, <1>6

\* The steps between the check of the number of keys and the first write.
Adding == {"total", "stat", "temp", "rename", "open"}

LEMMA KeysFinite ==
  ASSUME IInv
  PROVE  /\ Listed \subseteq Keys /\ KeysToCome \subseteq Keys
         /\ IsFiniteSet(Listed) /\ IsFiniteSet(Listed \cup KeysToCome)
<1>1. Listed \subseteq Keys
  BY DEF Listed
<1>2. KeysToCome \subseteq Keys
  BY Writing DEF KeysToCome
<1> QED  BY <1>1, <1>2, FS_Subset, MemoryAssumption

\* A step that brings no new key.
LEMMA NoNewKey ==
  ASSUME IInv, KeysAccounted, Listed' \cup KeysToCome' \subseteq Listed \cup KeysToCome
  PROVE  KeysAccounted'
<1> SUFFICES ASSUME MaxKeys > 0
             PROVE  Cardinality((Listed \cup KeysToCome)') <= MaxKeys + Cardinality(Procs) - 1
  BY DEF KeysAccounted
<1> DEFINE A == Listed \cup KeysToCome
           B == Listed' \cup KeysToCome'
<1>1. IsFiniteSet(A) /\ B \subseteq A
  BY KeysFinite
<1>2. Cardinality(A) <= MaxKeys + Cardinality(Procs) - 1
  BY DEF KeysAccounted
<1>3. (Listed \cup KeysToCome)' = B
  OBVIOUS
<1> HIDE DEF A, B
<1>4. IsFiniteSet(B) /\ Cardinality(B) <= Cardinality(A)
  BY <1>1, FS_Subset
<1>5. Cardinality(A) \in Nat /\ Cardinality(B) \in Nat /\ Cardinality(Procs) \in Nat
  BY <1>1, <1>4, FS_CardinalityType, MemoryAssumption
<1>6. Cardinality(B) <= MaxKeys + Cardinality(Procs) - 1
  BY <1>2, <1>4, <1>5, Numbers
<1> QED  BY <1>3, <1>6

\* A step of t after which no key is listed, or awaited by t, that was not.
LEMMA KeysStep ==
  ASSUME IInv, KeysAccounted, NEW t \in Threads, Moved(t),
         \A k \in Keys : value'[k] # Missing => k \in Listed \cup KeysToCome,
         pc'[t] \in Adding => loc'[t].key \in Listed \cup KeysToCome
  PROVE  KeysAccounted'
<1>1. Listed' \subseteq Listed \cup KeysToCome
  BY DEF Listed
<1>2. ASSUME NEW k \in KeysToCome' PROVE k \in Listed \cup KeysToCome
  <2>1. PICK u \in Threads : pc'[u] \in Adding /\ k = loc'[u].key
    BY <1>2 DEF KeysToCome, Adding
  <2>2. CASE u = t
    BY <2>1, <2>2
  <2>3. CASE u # t
    BY <2>1, <2>3 DEF Moved, OthersKept, KeysToCome, Adding
  <2> QED  BY <2>2, <2>3
<1> QED  BY <1>1, <1>2, NoNewKey

\* The check of a new key: what other calls bring is at most one key for each other
\* process.
LEMMA KeysCounted ==
  ASSUME IInv, NEW t \in Threads, pc[t] = "count", Within(MaxKeys, Cardinality(Listed) + 1),
         pc' = [pc EXCEPT ![t] = "total"], UNCHANGED <<op, loc, value>>
  PROVE  KeysAccounted'
<1> SUFFICES ASSUME MaxKeys > 0
             PROVE  Cardinality((Listed \cup KeysToCome)') <= MaxKeys + Cardinality(Procs) - 1
  BY DEF KeysAccounted
<1> DEFINE S == {u \in Threads \ {t} : pc[u] \in Adding}
           R == {loc[u].key : u \in S}
           A == Listed \cup {loc[t].key}
           f == [u \in S |-> loc[u].key]
<1>1. (Listed \cup KeysToCome)' = A \cup R
  <2>1. Listed' = Listed
    BY DEF Listed
  <2>2. pc'[t] = "total" /\ \A u \in Threads \ {t} : pc'[u] = pc[u]
    BY DEF IInv, TypeOK
  <2>3. KeysToCome' = {loc[t].key} \cup R
    BY <2>2 DEF KeysToCome, Adding
  <2> QED  BY <2>1, <2>3
<1>2. pc[t] # "idle" /\ ~Shared(op[t])
  BY Writing DEF Shared
<1>3. S \subseteq {u \in Threads \ {t} : pc[u] # "idle" /\ ~Shared(op[u])}
  BY Writing DEF Shared, Adding
<1>4. /\ IsFiniteSet(S) /\ Cardinality(S) \in Nat /\ Cardinality(Procs) \in Nat
      /\ Cardinality(S) <= Cardinality(Procs) - 1
  <2> HIDE DEF S
  <2> QED  BY <1>2, <1>3, Rivals
<1>5. IsFiniteSet(R) /\ Cardinality(R) <= Cardinality(S)
  <2>1. f \in [S -> R] /\ \A k \in R : \E u \in S : f[u] = k
    OBVIOUS
  <2> HIDE DEF f, R, S
  <2> QED  BY <1>4, <2>1, FS_Surjection DEF Surjection
<1>6. /\ IsFiniteSet(A) /\ Cardinality(A) <= Cardinality(Listed) + 1 /\ Cardinality(Listed) \in Nat
  <2>1. IsFiniteSet(Listed)
    BY KeysFinite
  <2>2. Cardinality(Listed) \in Nat
    BY <2>1, FS_CardinalityType
  <2> DEFINE k == loc[t].key
             L == Listed
  <2> HIDE DEF k, L
  <2>3. IsFiniteSet(L \cup {k})
        /\ Cardinality(L \cup {k}) = IF k \in L THEN Cardinality(L) ELSE Cardinality(L) + 1
    BY <2>1, FS_AddElement DEF L
  <2>4. IsFiniteSet(L \cup {k}) /\ Cardinality(L \cup {k}) <= Cardinality(L) + 1
    BY <2>2, <2>3 DEF L
  <2> QED  BY <2>2, <2>4 DEF k, L
<1>7. Cardinality(Listed) + 1 <= MaxKeys
  BY <1>6, Numbers DEF Within
<1> HIDE DEF A, R, S
<1>8. /\ Cardinality(A \cup R) = Cardinality(A) + Cardinality(R) - Cardinality(A \cap R)
      /\ IsFiniteSet(A \cap R)
  BY <1>5, <1>6, FS_Union, FS_Subset
<1>9. Cardinality(A) \in Nat /\ Cardinality(R) \in Nat /\ Cardinality(A \cap R) \in Nat
  BY <1>5, <1>6, <1>8, FS_CardinalityType
<1>10. Cardinality(A \cup R) <= MaxKeys + Cardinality(Procs) - 1
  BY <1>4, <1>5, <1>6, <1>7, <1>8, <1>9, Numbers
<1> QED  BY <1>1, <1>10

\* A step of t that adds nothing to what is stored and leaves t with nothing to write.
LEMMA QuietKeys ==
  ASSUME IInv, KeysAccounted, NEW t \in Threads, Moved(t), pc'[t] \notin Adding,
         \A k \in Keys : value'[k] # Missing => value[k] # Missing
  PROVE  KeysAccounted'
BY KeysStep DEF Listed

LEMMA KeysNext ==
  ASSUME IInv, KeysAccounted, NEW t \in Threads, Step(t)
  PROVE  KeysAccounted'
<1>1. Moved(t) /\ pc' \in [Threads -> Steps \cup {"idle"}]
  BY StepSound DEF Sound, Moved
<1>2. TypeOK
  BY DEF IInv
<1>3. CASE Begin(t)
  BY <1>1, <1>3, BeginMoved, QuietKeys DEF Adding, files
<1>4. CASE CheckValueSize(t)
  <2>1. /\ pc[t] = "size" /\ UNCHANGED value
        /\ \/ pc'[t] = "idle"
           \/ \E s \in {"count", "total"} :
                /\ s = "total" => value[loc[t].key] # Missing
                /\ pc' = [pc EXCEPT ![t] = s]
                /\ loc' = [loc EXCEPT ![t] = [loc[t] EXCEPT !.size = NewSize(t)]]
    BY <1>4, SizeTaken DEF files
  <2>2. CASE pc'[t] \notin Adding
    BY <1>1, <2>1, <2>2, QuietKeys
  <2>3. CASE pc'[t] \in Adding
    <3>1. value[loc[t].key] # Missing /\ loc' = [loc EXCEPT ![t] = [loc[t] EXCEPT !.size = NewSize(t)]]
      BY <1>2, <2>1, <2>3 DEF Adding, TypeOK
    <3>2. loc'[t].key = loc[t].key
      BY <1>2, <3>1 DEF TypeOK, Local
    <3>3. loc[t].key \in Keys
      BY <2>1, Writing
    <3> QED  BY <1>1, <2>1, <3>1, <3>2, <3>3, KeysStep DEF Listed
  <2> QED  BY <2>2, <2>3
<1>5. CASE CheckKeyCount(t)
  <2>1. /\ pc[t] = "count" /\ UNCHANGED value
        /\ \/ pc'[t] = "idle"
           \/ /\ value[loc[t].key] # Missing \/ Within(MaxKeys, Cardinality(Listed) + 1)
              /\ pc' = [pc EXCEPT ![t] = "total"] /\ UNCHANGED <<op, loc>>
    BY <1>5, CountChecked DEF files
  <2>2. CASE pc'[t] = "idle"
    BY <1>1, <2>1, <2>2, QuietKeys DEF Adding
  <2>3. CASE value[loc[t].key] # Missing /\ UNCHANGED loc
    <3>1. loc[t].key \in Keys
      BY <2>1, Writing
    <3> QED  BY <1>1, <2>1, <2>3, <3>1, KeysStep DEF Listed
  <2>4. CASE /\ Within(MaxKeys, Cardinality(Listed) + 1)
             /\ pc' = [pc EXCEPT ![t] = "total"] /\ UNCHANGED <<op, loc>>
    BY <2>1, <2>4, KeysCounted
  <2> QED  BY <2>1, <2>2, <2>3, <2>4
<1>6. ASSUME pc[t] \in Adding, loc'[t].key = loc[t].key,
             \A k \in Keys : value'[k] # Missing => value[k] # Missing \/ k = loc[t].key
      PROVE  KeysAccounted'
  BY <1>1, <1>6, KeysStep DEF Listed, KeysToCome, Adding
<1>7. CASE CheckTotalSize(t)
  <2>1. /\ pc[t] = "stat" /\ UNCHANGED value
        /\ pc'[t] = "idle" \/ loc'[t].key = loc[t].key
    BY <1>7, TotalChecked DEF files
  <2> QED  BY <1>1, <1>6, <2>1, QuietKeys DEF Adding
<1>16. CASE ListSizes(t) \/ AddSize(t)
  <2>1. pc[t] \in {"total", "stat"} /\ UNCHANGED value /\ loc'[t].key = loc[t].key
    BY <1>16, SizesListed, SizeAdded DEF files
  <2> QED  BY <1>6, <2>1 DEF Adding
<1>8. CASE WriteTemp(t)
  BY <1>6, <1>8, TempWritten DEF Adding, files
<1>9. CASE OpenAppend(t)
  <2>1. /\ pc[t] = "open" /\ loc'[t].key = loc[t].key
        /\ \A k \in Keys \ {loc[t].key} : value'[k] = value[k]
    BY <1>2, <1>9, AppendOpened DEF TypeOK
  <2> QED  BY <1>6, <2>1 DEF Adding
<1>10. CASE RenameValue(t)
  <2>1. /\ pc[t] = "rename" /\ pc'[t] = "metaTemp"
        /\ \A k \in Keys \ {loc[t].key} : value'[k] = value[k]
    BY <1>2, <1>10, ValueRenamed DEF TypeOK
  <2> QED  BY <1>1, <2>1, KeysStep DEF Adding, Listed, KeysToCome
<1>11. CASE AppendData(t)
  <2>1. /\ pc[t] = "append" /\ pc'[t] = "metaTemp"
        /\ \A k \in Keys : value'[k] # Missing => value[k] # Missing
    <3>1. /\ pc[t] = "append" /\ pc' = [pc EXCEPT ![t] = "metaTemp"]
          /\ \/ value' = value
             \/ /\ value[loc[t].key] # Missing
                /\ value' = [value EXCEPT ![loc[t].key] = @ \o op[t].content]
      BY <1>11, DataAppended
    <3> QED  BY <1>2, <3>1 DEF TypeOK
  <2> QED  BY <1>1, <2>1, QuietKeys DEF Adding
<1>12. CASE RemoveValue(t)
  <2>1. pc'[t] = "removeMeta" /\ \A k \in Keys : value'[k] # Missing => value[k] # Missing
    BY <1>2, <1>12, ValueRemoved DEF TypeOK
  <2> QED  BY <1>1, <2>1, QuietKeys DEF Adding
<1>13. CASE WriteMetaTemp(t)
  <2>1. UNCHANGED value /\ pc'[t] = "metaRename"
    BY <1>2, <1>13, MetaTempWritten DEF files, TypeOK
  <2> QED  BY <1>1, <2>1, QuietKeys DEF Adding
<1>14. CASE CheckExpired(t) \/ ReadValue(t)
  <2>1. UNCHANGED value /\ pc'[t] \in {"idle", "read"}
    BY <1>14, Expiries DEF files
  <2> QED  BY <1>1, <2>1, QuietKeys DEF Adding
<1>15. CASE RenameMeta(t) \/ RemoveMeta(t) \/ ListKeys(t) \/ Scan(t) \/ Collect(t) \/ Fail(t)
  <2>1. UNCHANGED value /\ pc'[t] \in {"idle", "visit", "removeValue"}
    BY <1>15, MetaRenamed, MetaRemoved, KeysListed, Scanned, Collected, Failed
  <2> QED  BY <1>1, <2>1, QuietKeys DEF Adding
<1> QED  BY <1>3, <1>4, <1>5, <1>7, <1>8, <1>9, <1>10, <1>11, <1>12, <1>13, <1>14, <1>15,
            <1>16 DEF Step

\* Stored keys and keys to come stay within the limit and one more for each process
\* but one.
LEMMA KeysAlways == Spec => [](IInv /\ KeysAccounted)
<1>1. Init => KeysAccounted
  <2> SUFFICES ASSUME Init, MaxKeys > 0
               PROVE  Cardinality(Listed \cup KeysToCome) <= MaxKeys + Cardinality(Procs) - 1
    BY DEF KeysAccounted
  <2>1. Listed \cup KeysToCome = {}
    BY DEF Init, Listed, KeysToCome
  <2>2. Cardinality({}) = 0
    BY FS_EmptySet
  <2>3. Cardinality(Listed \cup KeysToCome) = 0
    BY <2>1, <2>2, Zenon
  <2>4. Cardinality(Procs) \in Nat
    BY FS_CardinalityType, MemoryAssumption
  <2> QED  BY <2>3, <2>4, Numbers
<1>2. IInv /\ KeysAccounted /\ [Next]_vars => KeysAccounted'
  <2> SUFFICES ASSUME IInv, KeysAccounted, [Next]_vars PROVE KeysAccounted'
    OBVIOUS
  <2>1. ASSUME NEW t \in Threads, Step(t) PROVE KeysAccounted'
    BY <2>1, KeysNext
  <2>2. ASSUME NEW p \in Procs, Crash(p) PROVE KeysAccounted'
    <3>1. /\ UNCHANGED value
          /\ \A t \in Threads : pc'[t] = "idle" \/ (pc'[t] = pc[t] /\ loc'[t] = loc[t])
      BY <2>2, Crashed
    <3> QED  BY <3>1, NoNewKey DEF Listed, KeysToCome
  <2>3. CASE UNCHANGED <<value, pc, loc>>
    BY <2>3, NoNewKey DEF Listed, KeysToCome
  <2> QED  BY <2>1, <2>2, <2>3, Ticked DEF Next, vars, files
<1>3. IInv /\ [Next]_vars => IInv'
  BY NextSafe
<1> QED  BY InitSafe, <1>1, <1>2, <1>3, PTL DEF Spec

\* Between processes a check of the number of keys can be stale when its write
\* happens, but only by one key for each other process: each has at most one call
\* that writes (checkKeyCount in FileStore, the lock of Manager).
THEOREM KeysBounded == Spec => []KeysOvershoot
<1>1. IInv /\ KeysAccounted => KeysOvershoot
  <2> SUFFICES ASSUME IInv, KeysAccounted, MaxKeys > 0
               PROVE  Cardinality(Listed) <= MaxKeys + Cardinality(Procs) - 1
    BY DEF KeysOvershoot
  <2>1. IsFiniteSet(Listed \cup KeysToCome) /\ IsFiniteSet(Listed)
    BY KeysFinite
  <2>2. Cardinality(Listed) <= Cardinality(Listed \cup KeysToCome)
    BY <2>1, FS_Subset
  <2>3. /\ Cardinality(Listed) \in Nat /\ Cardinality(Listed \cup KeysToCome) \in Nat
        /\ Cardinality(Procs) \in Nat
    BY <2>1, FS_CardinalityType, MemoryAssumption
  <2> QED  BY <2>2, <2>3, Numbers DEF KeysAccounted
<1> QED  BY KeysAlways, <1>1, PTL

(* ---- bytes ---- *)

LEMMA Scaled ==
  ASSUME NEW m \in Nat, NEW n \in Nat, NEW c \in Nat, m <= n
  PROVE  m * c \in Nat /\ m * c <= n * c
<1>1. PICK d \in Nat : n = m + d
  <2>1. n - m \in Nat /\ n = m + (n - m)
    OBVIOUS
  <2> QED  BY <2>1
<1>2. d * c \in Nat /\ m * c \in Nat /\ n * c = m * c + d * c
  BY <1>1
<1> HIDE <1>1
<1> QED  BY <1>2

LEMMA OneMore ==
  ASSUME NEW n \in Nat, NEW c \in Nat
  PROVE  (n + 1) * c = n * c + c /\ n * c \in Nat
OBVIOUS

\* The other calls with a value to write are as many as the other processes at most, and
\* what they write fits the slack.
LEMMA Slacks ==
  /\ Slack \in Nat
  /\ IInv => \A t \in Threads : \A S \in SUBSET (BytesToCome \ {t}) :
       pc[t] # "idle" /\ ~Shared(op[t]) =>
         MostOf(S) \in Nat /\ MostOf(S) <= Slack
<1> DEFINE n == Cardinality(Procs) - 1
<1>1. n \in Nat
  <2>1. Cardinality(Procs) \in Nat
    BY FS_CardinalityType, MemoryAssumption
  <2>2. Cardinality(Procs) # 0
    BY FS_EmptySet, MemoryAssumption
  <2> QED  BY <2>1, <2>2
<1>2. Slack \in Nat
  BY <1>1, Numbers DEF Slack
<1>3. ASSUME IInv, NEW t \in Threads, NEW S \in SUBSET (BytesToCome \ {t}),
             pc[t] # "idle", ~Shared(op[t])
      PROVE  MostOf(S) \in Nat /\ MostOf(S) <= Slack
  <2>1. S \subseteq {u \in Threads \ {t} : pc[u] # "idle" /\ ~Shared(op[u])}
    BY <1>3, Writing DEF BytesToCome, Sized, Checked, Shared
  <2>2. Cardinality(S) \in Nat /\ Cardinality(S) <= n
    BY <1>3, <2>1, Rivals
  <2> HIDE DEF n
  <2>3. MostOf(S) \in Nat /\ MostOf(S) <= n * MaxValue
    BY <1>1, <2>2, Numbers, Scaled DEF MostOf
  <2> QED  BY <2>3 DEF Slack, n
<1> QED  BY <1>2, <1>3

\* What is known of a call with a value to write.
LEMMA ToCome ==
  ASSUME IInv, NEW t \in BytesToCome
  PROVE  /\ t \in Threads /\ pc[t] # "idle" /\ ~Shared(op[t]) /\ loc[t].key \in Keys
         /\ op[t].kind \in {"write", "append"} /\ Len(op[t].content) \in Nat
         /\ loc[t].size \in Nat /\ Size(value[loc[t].key]) \in Nat
         /\ Size(value[loc[t].key]) <= StoredBytes /\ BytesAfter(t) \in Nat
<1>1. /\ t \in Threads
      /\ pc[t] \in {"size", "count", "total", "stat", "temp", "rename", "open", "append",
                    "metaTemp", "metaRename"}
  BY DEF BytesToCome, Sized, Checked
<1>2. /\ pc[t] # "idle" /\ op[t].kind \in {"write", "append"} /\ Len(op[t].content) \in Nat
      /\ loc[t].key \in Keys /\ loc[t] \in Local
  BY <1>1, Writing
<1>3. /\ Size(value[loc[t].key]) \in Nat /\ Size(value[loc[t].key]) <= StoredBytes
      /\ StoredBytes \in Nat
  BY <1>2, Totals
<1>4. loc[t].size \in Nat
  BY <1>2 DEF Local
<1>5. BytesAfter(t) \in Nat
  BY <1>2, <1>3, <1>4 DEF BytesAfter
<1> QED  BY <1>1, <1>2, <1>3, <1>4, <1>5 DEF Shared

LEMMA ComeFinite ==
  /\ BytesToCome \subseteq Threads /\ IsFiniteSet(BytesToCome)
  /\ \A S \in SUBSET BytesToCome : IsFiniteSet(S) /\ Cardinality(S) \in Nat
<1>1. BytesToCome \subseteq Threads
  BY DEF BytesToCome, Sized, Checked
<1>2. \A S \in SUBSET Threads : IsFiniteSet(S) /\ Cardinality(S) \in Nat
  BY FS_Subset, FS_CardinalityType, MemoryAssumption
<1> QED  BY <1>1, <1>2

\* What is stored under the keys of S.
SizesOf(S) == Tally([k \in Keys |-> Size(value[k])], S)

\* What is stored, and what is stored but for some keys, grows by d at most.
GrownBy(d) ==
  /\ StoredBytes' \in Nat /\ StoredBytes' <= StoredBytes + d
  /\ \A k \in Keys : /\ Size(value'[k]) \in Nat /\ Size(value'[k]) <= Size(value[k]) + d
                     /\ StoredBytes' + Size(value[k]) <= StoredBytes + Size(value'[k]) + d
  /\ \A S \in SUBSET Keys : /\ SizesOf(S) \in Nat /\ SizesOf(S)' \in Nat
                            /\ StoredBytes' + SizesOf(S) <= StoredBytes + SizesOf(S)' + d

LEMMA SizesTyped ==
  ASSUME NEW v \in [Keys -> Value \cup {Missing}]
  PROVE  \A k \in Keys : [j \in Keys |-> Size(v[j])][k] = Size(v[k]) /\ Size(v[k]) \in Nat
BY Sizes

LEMMA NotGrown ==
  ASSUME IInv, IInv', \A k \in Keys : Size(value'[k]) <= Size(value[k])
  PROVE  GrownBy(0)
<1> DEFINE f == [j \in Keys |-> Size(value[j])]
           g == [j \in Keys |-> Size(value'[j])]
<1>1. \A k \in Keys : /\ f[k] = Size(value[k]) /\ f[k] \in Nat
                      /\ g[k] = Size(value'[k]) /\ g[k] \in Nat
  BY Sizes DEF IInv, TypeOK
<1>2. StoredBytes = Tally(f, Keys) /\ StoredBytes' = Tally(g, Keys)
  BY DEF StoredBytes
<1> HIDE DEF f, g
<1>3. \A k \in Keys : g[k] <= f[k]
  BY <1>1
<1>4. Tally(g, Keys) <= Tally(f, Keys) /\ Tally(g, Keys) \in Nat /\ Tally(f, Keys) \in Nat
  BY <1>1, <1>3, TallyMonotone, UnitsFinite, MemoryAssumption
<1>5. ASSUME NEW k \in Keys PROVE Tally(g, Keys) + f[k] <= Tally(f, Keys) + g[k]
  <2>1. /\ Tally(g, Keys) = Tally(g, Keys \ {k}) + g[k] /\ Tally(g, Keys \ {k}) \in Nat
        /\ Tally(f, Keys) = Tally(f, Keys \ {k}) + f[k] /\ Tally(f, Keys \ {k}) \in Nat
    BY <1>1, TallySplit, MemoryAssumption
  <2>2. IsFiniteSet(Keys \ {k})
    BY FS_RemoveElement, MemoryAssumption
  <2>3. Tally(g, Keys \ {k}) <= Tally(f, Keys \ {k})
    BY <1>1, <1>3, <2>2, TallyMonotone
  <2> QED  BY <1>1, <2>1, <2>3
<1>6. ASSUME NEW S \in SUBSET Keys
      PROVE  /\ Tally(f, S) \in Nat /\ Tally(g, S) \in Nat
             /\ Tally(g, Keys) + Tally(f, S) <= Tally(f, Keys) + Tally(g, S)
  <2> DEFINE R == Keys \ S
  <2>1. /\ Tally(g, Keys) = Tally(g, S) + Tally(g, R) /\ Tally(g, R) \in Nat
        /\ Tally(f, Keys) = Tally(f, S) + Tally(f, R) /\ Tally(f, R) \in Nat
        /\ Tally(f, S) \in Nat /\ Tally(g, S) \in Nat
    BY <1>1, TallyParts, MemoryAssumption
  <2>2. IsFiniteSet(R) /\ R \subseteq Keys
    BY FS_Subset, MemoryAssumption
  <2> HIDE DEF R
  <2>3. Tally(g, R) <= Tally(f, R)
    BY <1>1, <1>3, <2>2, TallyMonotone
  <2> QED  BY <2>1, <2>3
<1>7. \A S \in SUBSET Keys : SizesOf(S) = Tally(f, S) /\ SizesOf(S)' = Tally(g, S)
  BY DEF SizesOf, f, g
<1> QED  BY <1>1, <1>2, <1>3, <1>4, <1>5, <1>6, <1>7 DEF GrownBy

LEMMA GrownAt ==
  ASSUME IInv, IInv', NEW y \in Keys, \A k \in Keys \ {y} : value'[k] = value[k],
         NEW d \in Nat, Size(value'[y]) <= Size(value[y]) + d
  PROVE  GrownBy(d) /\ StoredBytes' + Size(value[y]) = StoredBytes + Size(value'[y])
<1> DEFINE f == [j \in Keys |-> Size(value[j])]
           g == [j \in Keys |-> Size(value'[j])]
<1>1. \A k \in Keys : /\ f[k] = Size(value[k]) /\ f[k] \in Nat
                      /\ g[k] = Size(value'[k]) /\ g[k] \in Nat
  BY Sizes DEF IInv, TypeOK
<1>2. StoredBytes = Tally(f, Keys) /\ StoredBytes' = Tally(g, Keys)
  BY DEF StoredBytes
<1>3. \A k \in Keys \ {y} : f[k] = g[k]
  OBVIOUS
<1> HIDE DEF f, g
<1>4. /\ Tally(f, Keys) \in Nat /\ Tally(g, Keys) \in Nat
      /\ Tally(g, Keys) + f[y] = Tally(f, Keys) + g[y]
  <2>1. IsFiniteSet(Keys) /\ \A k \in Keys : f[k] \in Nat /\ g[k] \in Nat
    BY <1>1, MemoryAssumption
  <2> QED  BY <1>3, <2>1, TallyChange
<1>5. g[y] <= f[y] + d
  BY <1>1
<1>6. Tally(g, Keys) <= Tally(f, Keys) + d
  BY <1>1, <1>4, <1>5
<1>7. ASSUME NEW k \in Keys
      PROVE  g[k] <= f[k] + d /\ Tally(g, Keys) + f[k] <= Tally(f, Keys) + g[k] + d
  <2>1. CASE k = y
    BY <1>1, <1>4, <1>5, <2>1
  <2>2. CASE k # y
    <3>1. f[k] = g[k] /\ f[k] \in Nat
      BY <1>1, <1>3, <2>2
    <3> QED  BY <1>4, <1>6, <3>1
  <2> QED  BY <2>1, <2>2
<1>8. ASSUME NEW S \in SUBSET Keys
      PROVE  /\ Tally(f, S) \in Nat /\ Tally(g, S) \in Nat
             /\ Tally(g, Keys) + Tally(f, S) <= Tally(f, Keys) + Tally(g, S) + d
  <2> DEFINE R == Keys \ S
  <2>1. /\ Tally(g, Keys) = Tally(g, S) + Tally(g, R) /\ Tally(g, R) \in Nat
        /\ Tally(f, Keys) = Tally(f, S) + Tally(f, R) /\ Tally(f, R) \in Nat
        /\ Tally(f, S) \in Nat /\ Tally(g, S) \in Nat
    BY <1>1, TallyParts, MemoryAssumption
  <2>2. Tally(g, R) <= Tally(f, R) + d
    <3>1. CASE y \in S
      <4>1. Tally(g, R) = Tally(f, R)
        BY <1>3, <3>1, TallySame
      <4> QED  BY <2>1, <4>1
    <3>2. CASE y \notin S
      <4>1. IsFiniteSet(R) /\ y \in R /\ R \subseteq Keys
        BY <3>2, FS_Subset, MemoryAssumption
      <4> HIDE DEF R
      <4>2. Tally(g, R) + f[y] = Tally(f, R) + g[y]
        BY <1>1, <1>3, <4>1, TallyChange
      <4> QED  BY <1>1, <1>5, <2>1, <4>2
    <3> QED  BY <3>1, <3>2
  <2> HIDE DEF R
  <2> QED  BY <2>1, <2>2
<1>9. \A S \in SUBSET Keys : SizesOf(S) = Tally(f, S) /\ SizesOf(S)' = Tally(g, S)
  BY DEF SizesOf, f, g
<1> QED  BY <1>1, <1>2, <1>4, <1>6, <1>7, <1>8, <1>9 DEF GrownBy

\* The call, key and size of a thread stay, and so does the sum of one that adds up.
CallKept(u) ==
  /\ op'[u] = op[u] /\ loc'[u].key = loc[u].key /\ loc'[u].size = loc[u].size
  /\ pc'[u] = "stat" =>
       pc[u] = "stat" /\ loc'[u].todo = loc[u].todo /\ loc'[u].total = loc[u].total

\* What a call was promised holds on, if what is stored grew by no more than the older
\* calls are fewer.
LEMMA CoverKept ==
  ASSUME IInv, IInv', NEW u \in BytesToCome, CallKept(u),
         u \in BytesToCome', u \in Sized' => u \in Sized, u \in Checked' => u \in Checked,
         NEW older, NEW o, NEW d \in Nat, GrownBy(d), Covered(older, u),
         MostOf(older[u]) \in Nat, MostOf(o[u]) \in Nat, MostOf(o[u]) + d <= MostOf(older[u])
  PROVE  Covered(o, u)'
<1> DEFINE a == MostOf(older[u])
           b == MostOf(o[u])
           m == Slack
           lim == MaxTotal + 2 * m
           c == Len(op[u].content)
           n == loc[u].size
           x == Size(value[loc[u].key])
           y == Size(value'[loc[u].key])
           s == StoredBytes
           r == StoredBytes'
<1>1. /\ a \in Nat /\ b \in Nat /\ b + d <= a /\ d \in Nat /\ m \in Nat /\ MaxTotal \in Nat
      /\ lim \in Nat
  BY Slacks, Numbers
<1>2. /\ c \in Nat /\ n \in Nat /\ x \in Nat /\ s \in Nat /\ x <= s /\ loc[u].key \in Keys
      /\ op[u].kind \in {"write", "append"} /\ loc[u] \in Local
  BY ToCome, Totals DEF IInv, TypeOK
<1>3. /\ r \in Nat /\ r <= s + d /\ y \in Nat /\ y <= x + d /\ r + x <= s + y + d
  BY <1>2 DEF GrownBy
<1>4. op'[u] = op[u] /\ loc'[u].key = loc[u].key /\ loc'[u].size = loc[u].size
  BY DEF CallKept
<1>5. ASSUME u \in Checked'
      PROVE  BytesAfter(u)' + 2 * b <= lim
  <2>1. BytesAfter(u) + 2 * a <= lim
    BY <1>5 DEF Covered
  <2>2. CASE op[u].kind = "write"
    <3>1. BytesAfter(u) = s - x + n /\ BytesAfter(u)' = r - y + n
      BY <1>4, <2>2 DEF BytesAfter
    <3> HIDE DEF a, b, m, lim, c, n, x, y, s, r
    <3>2. s - x + n + 2 * a <= lim
      BY <2>1, <3>1
    <3>3. r - y + n + 2 * b <= lim
      BY <1>1, <1>2, <1>3, <3>2
    <3> QED  BY <3>1, <3>3
  <2>3. CASE op[u].kind = "append"
    <3>1. BytesAfter(u) = s + c /\ BytesAfter(u)' = r + c
      BY <1>4, <2>3 DEF BytesAfter
    <3> HIDE DEF a, b, m, lim, c, n, x, y, s, r
    <3>2. s + c + 2 * a <= lim
      BY <2>1, <3>1
    <3>3. r + c + 2 * b <= lim
      BY <1>1, <1>2, <1>3, <3>2
    <3> QED  BY <3>1, <3>3
  <2> QED  BY <1>2, <2>2, <2>3
<1>6. ASSUME u \in Sized', op[u].kind = "append"
      PROVE  y + c + b <= n + m
  <2>1. x + c + a <= n + m
    BY <1>6 DEF Covered
  <2> HIDE DEF a, b, m, lim, c, n, x, y, s, r
  <2> QED  BY <1>1, <1>2, <1>3, <2>1
<1>7. ASSUME pc'[u] = "stat"
      PROVE  r + b <= loc'[u].total + SizesToAdd(u)' + m
  <2>a. PICK S \in SUBSET Keys : S = loc[u].todo
    BY <1>2 DEF Local
  <2> DEFINE z == SizesOf(S)
             w == SizesOf(S)'
             q == loc[u].total
  <2>1. pc[u] = "stat" /\ loc'[u].todo = S /\ loc'[u].total = q
    BY <1>7, <2>a DEF CallKept
  <2>2. q \in Nat
    BY <1>2 DEF Local
  <2>3. z \in Nat /\ w \in Nat /\ r + z <= s + w + d
    BY <2>a DEF GrownBy
  <2>4. SizesToAdd(u) = z /\ SizesToAdd(u)' = w
    BY <2>1, <2>a DEF SizesToAdd, SizesOf
  <2>5. s + a <= q + z + m
    BY <2>1, <2>4 DEF Covered
  <2> HIDE DEF a, b, m, lim, c, n, x, y, s, r, z, w, q
  <2>6. r + b <= q + w + m
    BY <1>1, <1>2, <1>3, <2>2, <2>3, <2>5
  <2> QED  BY <2>1, <2>4, <2>6
<1>8. Covered(o, u)' <=> /\ u \in Checked' => BytesAfter(u)' + 2 * b <= lim
                         /\ u \in Sized' /\ op[u].kind = "append" => y + c + b <= n + m
                         /\ pc'[u] = "stat" => r + b <= loc'[u].total + SizesToAdd(u)' + m
  BY <1>4 DEF Covered, Slack, MostOf
<1> QED  BY <1>5, <1>6, <1>7, <1>8

LEMMA MostMonotone ==
  ASSUME NEW S \in SUBSET Threads, NEW T \in SUBSET S
  PROVE  MostOf(T) \in Nat /\ MostOf(S) \in Nat /\ MostOf(T) <= MostOf(S)
<1>1. IsFiniteSet(S)
  BY FS_Subset, MemoryAssumption
<1>2. IsFiniteSet(T) /\ Cardinality(T) <= Cardinality(S)
  BY <1>1, FS_Subset
<1>3. Cardinality(S) \in Nat /\ Cardinality(T) \in Nat
  BY <1>1, <1>2, FS_CardinalityType
<1>4. /\ Cardinality(T) * MaxValue \in Nat /\ Cardinality(S) * MaxValue \in Nat
      /\ Cardinality(T) * MaxValue <= Cardinality(S) * MaxValue
  BY <1>2, <1>3, Numbers, Scaled
<1> QED  BY <1>4 DEF MostOf

LEMMA MostLess ==
  ASSUME NEW S \in SUBSET Threads, NEW t \in S
  PROVE  MostOf(S \ {t}) \in Nat /\ MostOf(S) = MostOf(S \ {t}) + MaxValue
<1>1. IsFiniteSet(S)
  BY FS_Subset, MemoryAssumption
<1>2. IsFiniteSet(S \ {t}) /\ Cardinality(S \ {t}) = Cardinality(S) - 1
  BY <1>1, FS_RemoveElement
<1>3. Cardinality(S) \in Nat /\ Cardinality(S \ {t}) \in Nat
  BY <1>1, <1>2, FS_CardinalityType
<1> DEFINE n == Cardinality(S \ {t})
<1>4. Cardinality(S) = n + 1 /\ n \in Nat
  BY <1>2, <1>3
<1> HIDE DEF n
<1>5. (n + 1) * MaxValue = n * MaxValue + MaxValue /\ n * MaxValue \in Nat
  BY <1>4, Numbers, OneMore
<1>6. MostOf(S) = (n + 1) * MaxValue /\ MostOf(S \ {t}) = n * MaxValue
  BY <1>4 DEF MostOf, n
<1> QED  BY <1>5, <1>6

LEMMA TurnsKept ==
  ASSUME NEW older, TakenInTurn(older), BytesToCome' \subseteq BytesToCome,
         NEW o, \A u \in BytesToCome' : o[u] = older[u] \cap BytesToCome'
  PROVE  TakenInTurn(o)'
BY DEF TakenInTurn

\* What there is to show after a step.
LEMMA RoomLeft ==
  ASSUME NEW o \in [Threads -> SUBSET BytesToCome'], NEW D \in SUBSET BytesToCome',
         TakenInTurn(o)', StoredBytes' + 2 * MostOf(D) <= MaxTotal + 2 * Slack,
         \A u \in BytesToCome' \ D : D \subseteq o[u] /\ Covered(o, u)'
  PROVE  BytesAccounted'
<1>1. RoomFor(o, D)'
  BY DEF RoomFor, MostOf, Slack
<1> QED  BY <1>1 DEF BytesAccounted

\* What there is to start from.
LEMMA RoomBefore ==
  ASSUME BytesAccounted, MaxTotal > 0, MaxValue > 0
  PROVE  \E older \in [Threads -> SUBSET BytesToCome], C \in SUBSET BytesToCome :
           /\ TakenInTurn(older) /\ StoredBytes + 2 * MostOf(C) <= MaxTotal + 2 * Slack
           /\ \A u \in BytesToCome \ C : C \subseteq older[u] /\ Covered(older, u)
BY DEF BytesAccounted, RoomFor

LEMMA Unlimited ==
  ASSUME MaxTotal > 0 /\ MaxValue > 0 => BytesAccounted'
  PROVE  BytesAccounted'
BY DEF BytesAccounted

\* A step that adds no call with a value to write, and no bytes.
BytesQuiet ==
  /\ \A u \in Threads : /\ u \in Sized' => u \in Sized /\ CallKept(u)
                        /\ u \in Checked' => u \in Checked /\ CallKept(u)
  /\ \A k \in Keys : Size(value'[k]) <= Size(value[k])

LEMMA QuietBytes ==
  ASSUME IInv, IInv', BytesAccounted, BytesQuiet
  PROVE  BytesAccounted'
<1> SUFFICES ASSUME MaxTotal > 0, MaxValue > 0 PROVE BytesAccounted'
  BY Unlimited
<1>1. PICK older \in [Threads -> SUBSET BytesToCome], C \in SUBSET BytesToCome :
        /\ TakenInTurn(older) /\ StoredBytes + 2 * MostOf(C) <= MaxTotal + 2 * Slack
        /\ \A u \in BytesToCome \ C : C \subseteq older[u] /\ Covered(older, u)
  BY RoomBefore
<1>2. /\ BytesToCome' \subseteq BytesToCome /\ BytesToCome \subseteq Threads
      /\ \A u \in BytesToCome' : /\ CallKept(u)
                                 /\ u \in Sized' => u \in Sized
                                 /\ u \in Checked' => u \in Checked
  BY DEF BytesQuiet, BytesToCome, Sized, Checked
<1>3. PICK o \in [Threads -> SUBSET BytesToCome'] :
        \A u \in Threads : o[u] = older[u] \cap BytesToCome'
  <2>1. [u \in Threads |-> older[u] \cap BytesToCome'] \in [Threads -> SUBSET BytesToCome']
    OBVIOUS
  <2> QED  BY <2>1
<1>4. PICK D \in SUBSET BytesToCome' : D = C \cap BytesToCome'
  OBVIOUS
<1>5. TakenInTurn(o)'
  BY <1>1, <1>2, <1>3, TurnsKept
<1>6. GrownBy(0)
  BY NotGrown DEF BytesQuiet
<1>7. StoredBytes' + 2 * MostOf(D) <= MaxTotal + 2 * Slack
  <2>1. MostOf(D) \in Nat /\ MostOf(C) \in Nat /\ MostOf(D) <= MostOf(C)
    BY <1>2, <1>4, MostMonotone
  <2>2. /\ StoredBytes \in Nat /\ StoredBytes' \in Nat /\ StoredBytes' <= StoredBytes + 0
        /\ Slack \in Nat
    BY <1>6, Totals, Slacks DEF GrownBy
  <2> QED  BY <1>1, <2>1, <2>2, Numbers
<1>8. ASSUME NEW u \in BytesToCome' \ D PROVE D \subseteq o[u] /\ Covered(o, u)'
  <2>1. u \in BytesToCome \ C /\ u \in Threads
    BY <1>2, <1>4
  <2>2. C \subseteq older[u] /\ Covered(older, u)
    BY <1>1, <2>1
  <2>3. D \subseteq o[u]
    BY <1>3, <1>4, <2>1, <2>2
  <2>4. MostOf(o[u]) \in Nat /\ MostOf(older[u]) \in Nat /\ MostOf(o[u]) <= MostOf(older[u])
    <3>1. older[u] \in SUBSET Threads /\ o[u] \in SUBSET older[u]
      BY <1>2, <1>3, <2>1
    <3> QED  BY <3>1, MostMonotone
  <2>5. MostOf(o[u]) + 0 <= MostOf(older[u])
    BY <2>4
  <2>6. Covered(o, u)'
    BY <1>2, <1>6, <2>1, <2>2, <2>4, <2>5, CoverKept
  <2> QED  BY <2>3, <2>6
<1> QED  BY <1>5, <1>7, <1>8, RoomLeft

\* A call takes the size of its value: it is younger than all the others.
LEMMA SizeJoins ==
  ASSUME IInv, IInv', BytesAccounted, NEW t \in Threads, pc[t] = "size",
         NEW s \in {"count", "total"}, pc' = [pc EXCEPT ![t] = s], UNCHANGED <<op, value>>,
         loc' = [loc EXCEPT ![t] = [loc[t] EXCEPT !.size = NewSize(t)]]
  PROVE  BytesAccounted'
<1> SUFFICES ASSUME MaxTotal > 0, MaxValue > 0 PROVE BytesAccounted'
  BY Unlimited
<1>1. PICK older \in [Threads -> SUBSET BytesToCome], C \in SUBSET BytesToCome :
        /\ TakenInTurn(older) /\ StoredBytes + 2 * MostOf(C) <= MaxTotal + 2 * Slack
        /\ \A u \in BytesToCome \ C : C \subseteq older[u] /\ Covered(older, u)
  BY RoomBefore
<1>2. /\ pc'[t] = s /\ loc'[t].size = NewSize(t) /\ loc'[t].key = loc[t].key
      /\ \A u \in Threads \ {t} : pc'[u] = pc[u] /\ loc'[u] = loc[u]
  <2>1. loc[t] \in Local /\ pc'[t] = s /\ loc'[t] = [loc[t] EXCEPT !.size = NewSize(t)]
        /\ \A u \in Threads \ {t} : pc'[u] = pc[u] /\ loc'[u] = loc[u]
    BY DEF IInv, TypeOK
  <2> QED  BY <2>1 DEF Local
<1>3. /\ t \notin BytesToCome /\ BytesToCome' = BytesToCome \cup {t}
      /\ t \in Sized' /\ t \notin Checked'
      /\ \A u \in Threads \ {t} : (u \in Sized' <=> u \in Sized) /\ (u \in Checked' <=> u \in Checked)
  BY <1>2 DEF BytesToCome, Sized, Checked
<1>4. BytesToCome \subseteq Threads
  BY ComeFinite
<1>5. PICK o \in [Threads -> SUBSET BytesToCome'] : o = [older EXCEPT ![t] = BytesToCome]
  <2>1. [older EXCEPT ![t] = BytesToCome] \in [Threads -> SUBSET BytesToCome']
    BY <1>3
  <2> QED  BY <2>1
<1>6. o[t] = BytesToCome /\ \A u \in Threads \ {t} : o[u] = older[u]
  BY <1>5
<1>7. TakenInTurn(o)'
  <2>1. \A u \in BytesToCome : o[u] = older[u] /\ u # t
    BY <1>3, <1>4, <1>6
  <2> QED  BY <1>1, <1>3, <1>6, <2>1 DEF TakenInTurn
<1>8. StoredBytes' = StoredBytes /\ GrownBy(0)
  BY NotGrown, Sizes DEF StoredBytes, IInv, TypeOK
<1>9. ASSUME NEW u \in BytesToCome' \ C PROVE C \subseteq o[u] /\ Covered(o, u)'
  <2>1. CASE u # t
    <3>1. u \in BytesToCome \ C /\ o[u] = older[u] /\ u \in Threads
      BY <1>3, <1>4, <1>6, <2>1
    <3>2. C \subseteq older[u] /\ Covered(older, u) /\ CallKept(u)
      BY <1>1, <1>2, <2>1, <3>1 DEF CallKept
    <3>3. MostOf(older[u]) \in Nat /\ MostOf(o[u]) + 0 <= MostOf(older[u])
      <4>1. older[u] \in SUBSET Threads
        BY <1>4, <3>1
      <4>2. MostOf(older[u]) \in Nat
        BY <4>1, MostMonotone
      <4> QED  BY <3>1, <4>2
    <3>4. Covered(o, u)'
      BY <1>3, <1>8, <2>1, <3>1, <3>2, <3>3, CoverKept
    <3> QED  BY <3>1, <3>2, <3>4
  <2>2. CASE u = t
    <3> DEFINE x == Size(value[loc[t].key])
               c == Len(op[t].content)
               m == MostOf(BytesToCome)
    <3>1. /\ loc[t].key \in Keys /\ c \in Nat /\ pc[t] # "idle" /\ ~Shared(op[t])
          /\ (op[t].kind = "append" => NewSize(t) = c + x)
      BY Writing, NewSizes DEF Shared
    <3>2. x \in Nat
      BY <3>1, Totals
    <3>3. m \in Nat /\ m <= Slack /\ Slack \in Nat
      <4>1. BytesToCome \in SUBSET (BytesToCome \ {t})
        BY <1>3
      <4> QED  BY <3>1, <4>1, Slacks DEF MostOf
    <3>4. op[t].kind = "append" => x + c + m <= NewSize(t) + Slack
      <4> HIDE DEF x, c, m
      <4> QED  BY <3>1, <3>2, <3>3
    <3>5. Covered(o, t)' <=> (op[t].kind = "append" => x + c + m <= NewSize(t) + Slack)
      <4>1. pc'[t] # "stat"
        BY <1>2
      <4> QED  BY <1>2, <1>3, <1>6, <4>1 DEF Covered, MostOf, Slack
    <3> QED  BY <1>6, <2>2, <3>4, <3>5
  <2> QED  BY <2>1, <2>2
<1>10. C \in SUBSET BytesToCome' /\ StoredBytes' + 2 * MostOf(C) <= MaxTotal + 2 * Slack
  BY <1>1, <1>3, <1>8
<1> QED  BY <1>7, <1>9, <1>10, RoomLeft

\* A step of a call with its size taken that stores nothing: its own promise is to be
\* shown, with whatever calls are older.
LEMMA OwnTurn ==
  ASSUME IInv, IInv', BytesAccounted, NEW t \in BytesToCome, BytesToCome' = BytesToCome,
         OthersKept(t), UNCHANGED value,
         MaxTotal > 0 =>
           \A older \in [Threads -> SUBSET BytesToCome] :
             older[t] \subseteq BytesToCome \ {t} /\ Covered(older, t) => Covered(older, t)'
  PROVE  BytesAccounted'
<1> SUFFICES ASSUME MaxTotal > 0, MaxValue > 0 PROVE BytesAccounted'
  BY Unlimited
<1>1. PICK older \in [Threads -> SUBSET BytesToCome], C \in SUBSET BytesToCome :
        /\ TakenInTurn(older) /\ StoredBytes + 2 * MostOf(C) <= MaxTotal + 2 * Slack
        /\ \A u \in BytesToCome \ C : C \subseteq older[u] /\ Covered(older, u)
  BY RoomBefore
<1>2. BytesToCome \subseteq Threads
  BY ComeFinite
<1>3. TakenInTurn(older)'
  BY <1>1 DEF TakenInTurn
<1>4. StoredBytes' = StoredBytes /\ GrownBy(0)
  BY NotGrown, Sizes DEF StoredBytes, IInv, TypeOK
<1>5. ASSUME NEW u \in BytesToCome' \ C PROVE C \subseteq older[u] /\ Covered(older, u)'
  <2>1. u \in BytesToCome \ C /\ u \in Threads
    BY <1>2
  <2>2. C \subseteq older[u] /\ Covered(older, u)
    BY <1>1, <2>1
  <2>3. CASE u # t
    <3>1. older[u] \in SUBSET Threads
      BY <1>2, <2>1
    <3>2. MostOf(older[u]) \in Nat
      BY <3>1, MostMonotone
    <3>3. MostOf(older[u]) + 0 <= MostOf(older[u])
      BY <3>2
    <3>4. CallKept(u) /\ (u \in Sized' => u \in Sized) /\ (u \in Checked' => u \in Checked)
      BY <2>1, <2>3 DEF OthersKept, CallKept, Sized, Checked
    <3> QED  BY <1>4, <2>1, <2>2, <3>2, <3>3, <3>4, CoverKept
  <2>4. CASE u = t
    <3>1. older[t] \subseteq BytesToCome \ {t}
      BY <1>1 DEF TakenInTurn
    <3> QED  BY <2>2, <2>4, <3>1
  <2> QED  BY <2>3, <2>4
<1>6. C \in SUBSET BytesToCome' /\ StoredBytes' + 2 * MostOf(C) <= MaxTotal + 2 * Slack
      /\ older \in [Threads -> SUBSET BytesToCome']
  BY <1>1, <1>4
<1> QED  BY <1>3, <1>5, <1>6, RoomLeft

\* What the older calls may write fits the slack.
LEMMA OlderFit ==
  ASSUME IInv, NEW t \in BytesToCome, NEW older, older[t] \subseteq BytesToCome \ {t}
  PROVE  MostOf(older[t]) \in Nat /\ MostOf(older[t]) <= Slack /\ Slack \in Nat
<1>1. t \in Threads /\ pc[t] # "idle" /\ ~Shared(op[t])
  BY ToCome
<1>2. older[t] \in SUBSET (BytesToCome \ {t})
  OBVIOUS
<1> QED  BY <1>1, <1>2, Slacks

\* The sizes of all that is listed are the bytes stored.
LEMMA ListedBytes ==
  ASSUME IInv
  PROVE  SizesOf(Listed) = StoredBytes
<1> DEFINE f == [k \in Keys |-> Size(value[k])]
           L == Listed
<1>1. \A k \in Keys : f[k] \in Nat
  BY Totals
<1>2. L \in SUBSET Keys /\ \A k \in Keys \ L : f[k] = 0
  BY DEF Listed, Size
<1>3. StoredBytes = Tally(f, Keys) /\ SizesOf(Listed) = Tally(f, L)
  BY DEF StoredBytes, SizesOf
<1> HIDE DEF f, L
<1>4. Tally(f, Keys) = Tally(f, L) + Tally(f, Keys \ L) /\ Tally(f, L) \in Nat
  BY <1>1, <1>2, TallyParts, MemoryAssumption
<1>5. Tally(f, Keys \ L) = 0
  BY <1>2, TallyZero
<1> QED  BY <1>3, <1>4, <1>5

\* One listed key less to look at.
LEMMA OneSizeLess ==
  ASSUME IInv, NEW S \in SUBSET Keys, NEW k \in S
  PROVE  /\ SizesOf(S) = SizesOf(S \ {k}) + Size(value[k])
         /\ SizesOf(S) \in Nat /\ SizesOf(S \ {k}) \in Nat /\ Size(value[k]) \in Nat
<1> DEFINE f == [j \in Keys |-> Size(value[j])]
<1>1. \A j \in Keys : f[j] \in Nat /\ f[j] = Size(value[j])
  BY Totals
<1>2. SizesOf(S) = Tally(f, S) /\ SizesOf(S \ {k}) = Tally(f, S \ {k})
  BY DEF SizesOf
<1> HIDE DEF f
<1>3. IsFiniteSet(S)
  BY FS_Subset, MemoryAssumption
<1>4. Tally(f, S) = Tally(f, S \ {k}) + f[k] /\ Tally(f, S \ {k}) \in Nat
  BY <1>1, <1>3, TallySplit
<1> QED  BY <1>1, <1>2, <1>4

\* A call lists the directory: nothing has been added behind its back yet.
LEMMA ListingStarts ==
  ASSUME IInv, IInv', BytesAccounted, NEW t \in Threads, ListSizes(t)
  PROVE  BytesAccounted'
<1>1. /\ Moved(t) /\ OthersKept(t) /\ pc[t] = "total" /\ UNCHANGED <<value, leaked>> /\ op' = op
      /\ loc'[t].key = loc[t].key /\ loc'[t].size = loc[t].size
  BY SizesListed DEF Sound, Moved, files
<1>2. CASE MaxTotal = 0
  BY <1>2, Unlimited
<1>3. CASE MaxTotal > 0
  <2>1. PICK T \in SUBSET Threads :
          pc'[t] = "stat" /\ loc'[t].todo = Listed /\ loc'[t].total = leaked + TempBytes(T)
    BY <1>3, SizesListed
  <2>2. t \in BytesToCome /\ BytesToCome' = BytesToCome /\ t \in Sized /\ t \notin Checked'
    BY <1>1, <2>1 DEF OthersKept, BytesToCome, Sized, Checked
  <2>3. leaked + TempBytes(T) \in Nat /\ StoredBytes \in Nat /\ StoredBytes' = StoredBytes
    BY <1>1, Totals DEF StoredBytes
  <2>4. SizesToAdd(t)' = StoredBytes
    <3>1. SizesToAdd(t)' = SizesOf(Listed)
      BY <1>1, <2>1 DEF SizesToAdd, SizesOf
    <3> QED  BY <3>1, ListedBytes
  <2>5. ASSUME NEW older \in [Threads -> SUBSET BytesToCome],
               older[t] \subseteq BytesToCome \ {t}, Covered(older, t)
        PROVE  Covered(older, t)'
    <3> DEFINE m == MostOf(older[t])
               q == leaked + TempBytes(T)
    <3>1. m \in Nat /\ m <= Slack /\ Slack \in Nat
      BY <2>2, <2>5, OlderFit
    <3>2. StoredBytes' + m <= loc'[t].total + SizesToAdd(t)' + Slack
      <4>1. StoredBytes + m <= q + StoredBytes + Slack
        <5> HIDE DEF m, q
        <5>1. q \in Nat
          BY <2>3 DEF q
        <5> QED  BY <2>3, <3>1, <5>1
      <4> QED  BY <2>1, <2>3, <2>4, <4>1
    <3>3. op[t].kind = "append" =>
            Size(value'[loc'[t].key]) + Len(op'[t].content) + m <= loc'[t].size + Slack
      BY <1>1, <2>2, <2>5 DEF Covered
    <3> QED  BY <1>1, <2>2, <3>2, <3>3 DEF Covered, MostOf, Slack
  <2> QED  BY <1>1, <2>2, <2>5, OwnTurn
<1> QED  BY <1>2, <1>3, Numbers

\* A size moves from what there is to add to what has been added.
LEMMA SumGoesOn ==
  ASSUME IInv, IInv', BytesAccounted, NEW t \in Threads, AddSize(t)
  PROVE  BytesAccounted'
<1>1. /\ Moved(t) /\ OthersKept(t) /\ pc[t] = "stat" /\ pc'[t] = "stat" /\ UNCHANGED value
      /\ op' = op /\ loc'[t].key = loc[t].key /\ loc'[t].size = loc[t].size
  BY SizeAdded DEF Sound, Moved, files
<1>2. PICK k \in loc[t].todo :
        loc'[t].todo = loc[t].todo \ {k} /\ loc'[t].total = loc[t].total + Size(value[k])
  BY SizeAdded
<1>3. t \in BytesToCome /\ BytesToCome' = BytesToCome /\ t \in Sized /\ t \notin Checked'
  BY <1>1 DEF OthersKept, BytesToCome, Sized, Checked
<1>4. loc[t].todo \in SUBSET Keys /\ loc[t].total \in Nat
  BY DEF IInv, TypeOK, Local
<1>5. loc'[t].total + SizesToAdd(t)' = loc[t].total + SizesToAdd(t)
  <2> DEFINE S == loc[t].todo
             x == Size(value[k])
             q == loc[t].total
  <2>1. SizesToAdd(t) = SizesOf(S) /\ SizesToAdd(t)' = SizesOf(S \ {k})
    BY <1>1, <1>2 DEF SizesToAdd, SizesOf
  <2>2. /\ SizesOf(S) = SizesOf(S \ {k}) + x
        /\ SizesOf(S \ {k}) \in Nat /\ x \in Nat
    BY <1>4, OneSizeLess
  <2>3. loc'[t].total = q + x /\ q \in Nat
    BY <1>2, <1>4
  <2> HIDE DEF S, x
  <2> QED  BY <2>1, <2>2, <2>3
<1>6. ASSUME NEW older \in [Threads -> SUBSET BytesToCome], Covered(older, t)
      PROVE  Covered(older, t)'
  <2>1. StoredBytes' + MostOf(older[t]) <= loc'[t].total + SizesToAdd(t)' + Slack
    <3>1. StoredBytes + MostOf(older[t]) <= loc[t].total + SizesToAdd(t) + Slack
      BY <1>1, <1>6 DEF Covered
    <3>2. StoredBytes' = StoredBytes
      BY <1>1 DEF StoredBytes
    <3> QED  BY <1>5, <3>1, <3>2
  <2>2. op[t].kind = "append" =>
          Size(value'[loc'[t].key]) + Len(op'[t].content) + MostOf(older[t])
            <= loc'[t].size + Slack
    BY <1>1, <1>3, <1>6 DEF Covered
  <2> QED  BY <1>1, <1>3, <2>1, <2>2 DEF Covered, MostOf, Slack
<1> QED  BY <1>1, <1>3, <1>6, OwnTurn

\* A call passes the check of the total: what it compared is behind by what the older
\* calls have written since, and the slack has room for the rest of them.
LEMMA TotalPasses ==
  ASSUME IInv, IInv', BytesAccounted, NEW t \in Threads, CheckTotalSize(t), pc'[t] # "idle"
  PROVE  BytesAccounted'
<1>1. /\ Moved(t) /\ OthersKept(t) /\ pc[t] = "stat" /\ loc[t].todo = {} /\ UNCHANGED value
      /\ Within(MaxTotal, TotalWith(t)) /\ pc'[t] \in {"temp", "open"} /\ op' = op
      /\ loc'[t].key = loc[t].key /\ loc'[t].size = loc[t].size
  BY TotalChecked DEF Sound, Moved, files
<1>2. /\ t \in Sized /\ BytesToCome' = BytesToCome /\ t \notin Sized' /\ t \in BytesToCome
      /\ t \in Checked' /\ pc'[t] # "stat"
  BY <1>1 DEF OthersKept, BytesToCome, Sized, Checked
<1>3. StoredBytes' = StoredBytes
  BY <1>1 DEF StoredBytes
<1>4. ASSUME MaxTotal > 0, NEW older \in [Threads -> SUBSET BytesToCome],
             older[t] \subseteq BytesToCome \ {t}, Covered(older, t)
      PROVE  Covered(older, t)'
  <2> DEFINE x == Size(value[loc[t].key])
             c == Len(op[t].content)
             n == loc[t].size
             m == MostOf(older[t])
             b == StoredBytes
             q == loc[t].total
             l == Slack
  <2>1. /\ x \in Nat /\ c \in Nat /\ n \in Nat /\ x <= b /\ b \in Nat /\ q \in Nat
        /\ op[t].kind \in {"write", "append"} /\ l \in Nat /\ MaxTotal \in Nat
    BY <1>2, ToCome, Totals, Slacks, Numbers DEF IInv, TypeOK, Local
  <2>2. q - x + n <= MaxTotal
    BY <1>1, <1>4 DEF TotalWith, Within
  <2>3. m \in Nat /\ m <= l
    BY <1>2, <1>4, OlderFit
  <2>4. b + m <= q + l
    <3>1. SizesToAdd(t) = 0
      BY <1>1, TallyZero DEF SizesToAdd
    <3>2. b + m <= q + SizesToAdd(t) + l
      BY <1>1, <1>4 DEF Covered
    <3> HIDE DEF b, m, q, l
    <3> QED  BY <2>1, <3>1, <3>2
  <2>5. BytesAfter(t) + 2 * m <= MaxTotal + 2 * l
    <3>1. CASE op[t].kind = "write"
      <4>1. BytesAfter(t) = b - x + n
        BY <3>1 DEF BytesAfter
      <4> HIDE DEF x, c, n, m, b, q, l
      <4> QED  BY <2>1, <2>2, <2>3, <2>4, <4>1
    <3>2. CASE op[t].kind = "append"
      <4>1. BytesAfter(t) = b + c
        BY <3>2 DEF BytesAfter
      <4>2. x + c + m <= n + l
        BY <1>2, <1>4, <3>2 DEF Covered
      <4> HIDE DEF x, c, n, m, b, q, l
      <4> QED  BY <2>1, <2>2, <2>3, <2>4, <4>1, <4>2
    <3> QED  BY <2>1, <3>1, <3>2
  <2>6. BytesAfter(t)' = BytesAfter(t)
    BY <1>1, <1>3 DEF BytesAfter
  <2>7. BytesAfter(t)' + 2 * m <= MaxTotal + 2 * l
    BY <2>5, <2>6
  <2> QED  BY <1>2, <2>7 DEF Covered, MostOf, Slack
<1> QED  BY <1>1, <1>2, <1>4, OwnTurn

\* A call stores its value: it is among those there is room for, or there is room for
\* the older ones beside it; every call left has it behind it.
LEMMA ValueStored ==
  ASSUME IInv, IInv', BytesAccounted, NEW t \in Checked, pc'[t] = "metaTemp", OthersKept(t),
         \A k \in Keys \ {loc[t].key} : value'[k] = value[k],
         Size(value'[loc[t].key]) <= Size(value[loc[t].key]) + MaxValue,
         StoredBytes' = BytesAfter(t)
  PROVE  BytesAccounted'
<1> SUFFICES ASSUME MaxTotal > 0, MaxValue > 0 PROVE BytesAccounted'
  BY Unlimited
<1>1. PICK older \in [Threads -> SUBSET BytesToCome], C \in SUBSET BytesToCome :
        /\ TakenInTurn(older) /\ StoredBytes + 2 * MostOf(C) <= MaxTotal + 2 * Slack
        /\ \A u \in BytesToCome \ C : C \subseteq older[u] /\ Covered(older, u)
  BY RoomBefore
<1>2. t \in Threads /\ t \in BytesToCome /\ BytesToCome \subseteq Threads
  BY ComeFinite DEF Checked, BytesToCome
<1>3. /\ BytesToCome' = BytesToCome \ {t}
      /\ \A u \in BytesToCome' : /\ CallKept(u)
                                 /\ u \in Sized' => u \in Sized
                                 /\ u \in Checked' => u \in Checked
  BY <1>2 DEF BytesToCome, Sized, Checked, OthersKept, CallKept
<1>4. PICK o \in [Threads -> SUBSET BytesToCome'] :
        \A u \in Threads : o[u] = older[u] \cap BytesToCome'
  <2>1. [u \in Threads |-> older[u] \cap BytesToCome'] \in [Threads -> SUBSET BytesToCome']
    OBVIOUS
  <2> QED  BY <2>1
<1>5. TakenInTurn(o)'
  BY <1>1, <1>2, <1>3, <1>4, TurnsKept
<1>6. loc[t].key \in Keys /\ BytesAfter(t) \in Nat
  BY <1>2, ToCome
<1>7. GrownBy(MaxValue)
  BY <1>6, GrownAt, Numbers
<1>8. /\ StoredBytes \in Nat /\ StoredBytes' \in Nat /\ StoredBytes' <= StoredBytes + MaxValue
      /\ Slack \in Nat /\ MaxTotal \in Nat /\ MaxValue \in Nat
  BY <1>7, Totals, Slacks, Numbers DEF GrownBy
<1>9. ASSUME NEW u \in BytesToCome', t \in older[u], Covered(older, u) PROVE Covered(o, u)'
  <2>1. u \in BytesToCome /\ u \in Threads /\ older[u] \in SUBSET Threads
    BY <1>2, <1>3
  <2>2. o[u] = older[u] \ {t}
    BY <1>3, <1>4, <2>1
  <2>3. MostOf(older[u] \ {t}) \in Nat /\ MostOf(older[u]) = MostOf(older[u] \ {t}) + MaxValue
    BY <1>9, <2>1, MostLess
  <2>4. /\ MostOf(o[u]) \in Nat /\ MostOf(older[u]) \in Nat
        /\ MostOf(o[u]) + MaxValue <= MostOf(older[u])
    BY <1>8, <2>2, <2>3
  <2> QED  BY <1>3, <1>7, <1>8, <1>9, <2>1, <2>4, CoverKept
<1>10. CASE t \in C
  <2>1. PICK D \in SUBSET BytesToCome' : D = C \ {t}
    BY <1>3
  <2>2. MostOf(D) \in Nat /\ MostOf(C) = MostOf(D) + MaxValue
    BY <1>2, <1>10, <2>1, MostLess
  <2>3. StoredBytes' + 2 * MostOf(D) <= MaxTotal + 2 * Slack
    BY <1>1, <1>8, <2>2
  <2>4. ASSUME NEW u \in BytesToCome' \ D PROVE D \subseteq o[u] /\ Covered(o, u)'
    <3>1. u \in BytesToCome \ C /\ u \in Threads
      BY <1>2, <1>3, <2>1
    <3>2. C \subseteq older[u] /\ Covered(older, u)
      BY <1>1, <3>1
    <3>3. D \subseteq o[u]
      BY <1>4, <2>1, <3>1, <3>2
    <3> QED  BY <1>9, <1>10, <3>2, <3>3
  <2> QED  BY <1>5, <2>3, <2>4, RoomLeft
<1>11. CASE t \notin C
  <2>1. C \subseteq older[t] /\ Covered(older, t) /\ older[t] \subseteq BytesToCome \ {t}
    BY <1>1, <1>2, <1>11 DEF TakenInTurn
  <2>2. PICK D \in SUBSET BytesToCome' : D = older[t]
    BY <1>3, <2>1
  <2>3. StoredBytes' + 2 * MostOf(D) <= MaxTotal + 2 * Slack
    BY <2>1, <2>2 DEF Covered
  <2>4. ASSUME NEW u \in BytesToCome' \ D PROVE D \subseteq o[u] /\ Covered(o, u)'
    <3>1. u \in BytesToCome \ C /\ u # t /\ u \in Threads /\ u \notin older[t]
      BY <1>2, <1>3, <2>1, <2>2
    <3>2. t \in older[u] /\ older[t] \subseteq older[u] \ {t}
      BY <1>1, <1>2, <3>1 DEF TakenInTurn
    <3>3. D \subseteq o[u]
      BY <1>4, <2>2, <3>1, <3>2
    <3>4. Covered(older, u)
      BY <1>1, <3>1
    <3> QED  BY <1>9, <3>2, <3>3, <3>4
  <2> QED  BY <1>5, <2>3, <2>4, RoomLeft
<1> QED  BY <1>10, <1>11

LEMMA SizesStay ==
  ASSUME SizesFit,
         \A u \in BytesToCome' : u \in BytesToCome /\ op'[u] = op[u] /\ loc'[u].size = loc[u].size
  PROVE  SizesFit'
BY DEF SizesFit

\* A step of t that neither stores bytes nor takes a size.
LEMMA QuietStep ==
  ASSUME IInv, IInv', SizesFit, BytesAccounted, NEW t \in Threads, Moved(t),
         t \in Sized' => t \in Sized /\ CallKept(t),
         t \in Checked' => t \in Checked /\ CallKept(t),
         \A k \in Keys : Size(value'[k]) <= Size(value[k])
  PROVE  SizesFit' /\ BytesAccounted'
<1>1. BytesQuiet
  BY DEF BytesQuiet, Moved, OthersKept, CallKept, Sized, Checked
<1>2. SizesFit'
  BY <1>1, SizesStay DEF BytesQuiet, CallKept, BytesToCome, Sized, Checked
<1> QED  BY <1>1, <1>2, QuietBytes

LEMMA SameSizes ==
  ASSUME IInv, UNCHANGED value
  PROVE  \A k \in Keys : Size(value'[k]) <= Size(value[k])
<1>1. \A k \in Keys : Size(value[k]) \in Nat
  BY Totals
<1> QED  BY <1>1

LEMMA BytesNext ==
  ASSUME IInv, IInv', SizesFit, BytesAccounted, NEW t \in Threads, Step(t)
  PROVE  SizesFit' /\ BytesAccounted'
<1>1. TypeOK /\ Moved(t) /\ OthersKept(t)
  BY StepSound DEF IInv, Sound, Moved
<1>2. ASSUME UNCHANGED value,
             pc'[t] \notin {"count", "total", "stat", "temp", "rename", "open", "append"}
      PROVE  SizesFit' /\ BytesAccounted'
  BY <1>1, <1>2, SameSizes, QuietStep DEF Sized, Checked
<1>3. CASE Begin(t)
  BY <1>2, <1>3, BeginMoved DEF files
<1>4. CASE CheckValueSize(t)
  <2>1. /\ pc[t] = "size" /\ UNCHANGED value
        /\ \/ pc'[t] = "idle"
           \/ \E s \in {"count", "total"} :
                /\ Within(MaxValue, NewSize(t))
                /\ pc' = [pc EXCEPT ![t] = s] /\ op' = op
                /\ loc' = [loc EXCEPT ![t] = [loc[t] EXCEPT !.size = NewSize(t)]]
    BY <1>4, SizeTaken DEF files
  <2>2. ASSUME NEW s \in {"count", "total"}, Within(MaxValue, NewSize(t)),
               pc' = [pc EXCEPT ![t] = s], op' = op,
               loc' = [loc EXCEPT ![t] = [loc[t] EXCEPT !.size = NewSize(t)]]
        PROVE  SizesFit' /\ BytesAccounted'
    <3>1. BytesAccounted'
      BY <2>1, <2>2, SizeJoins
    <3>2. loc'[t].size = NewSize(t)
      <4>1. loc[t] \in Local /\ loc'[t] = [loc[t] EXCEPT !.size = NewSize(t)]
        BY <1>1, <2>2 DEF TypeOK
      <4> QED  BY <4>1 DEF Local
    <3>3. /\ NewSize(t) \in Nat /\ NewSize(t) >= Len(op[t].content)
          /\ op[t].kind = "write" => NewSize(t) = Len(op[t].content)
      BY <2>1, NewSizes
    <3>4. MaxValue > 0 => NewSize(t) <= MaxValue
      BY <2>2, <3>3, Numbers DEF Within
    <3>5. SizesFit'
      <4> SUFFICES ASSUME NEW u \in BytesToCome'
                   PROVE  /\ MaxValue > 0 => loc'[u].size <= MaxValue
                          /\ loc'[u].size >= Len(op'[u].content)
                          /\ op'[u].kind = "write" => loc'[u].size = Len(op'[u].content)
        BY DEF SizesFit
      <4>1. CASE u = t
        BY <2>2, <3>2, <3>3, <3>4, <4>1
      <4>2. CASE u # t
        <5>1. u \in Threads
          BY DEF BytesToCome, Sized, Checked
        <5>2. u \in BytesToCome /\ op'[u] = op[u] /\ loc'[u].size = loc[u].size
          BY <1>1, <4>2, <5>1 DEF OthersKept, BytesToCome, Sized, Checked
        <5> QED  BY <5>2 DEF SizesFit
      <4> QED  BY <4>1, <4>2
    <3> QED  BY <3>1, <3>5
  <2> QED  BY <1>2, <2>1, <2>2
<1>5. CASE CheckKeyCount(t)
  <2>1. /\ pc[t] = "count" /\ UNCHANGED value
        /\ pc'[t] = "idle" \/ (pc' = [pc EXCEPT ![t] = "total"] /\ UNCHANGED <<op, loc>>)
    BY <1>5, CountChecked DEF files
  <2>2. CASE pc' = [pc EXCEPT ![t] = "total"] /\ UNCHANGED <<op, loc>>
    <3>1. pc'[t] = "total" /\ CallKept(t)
      BY <1>1, <2>2 DEF TypeOK, CallKept
    <3> QED  BY <1>1, <2>1, <3>1, SameSizes, QuietStep DEF Sized, Checked
  <2> QED  BY <1>2, <2>1, <2>2
<1>16. ASSUME t \in BytesToCome, op' = op, loc'[t].size = loc[t].size PROVE SizesFit'
  BY <1>1, <1>16, SizesStay DEF OthersKept, BytesToCome, Sized, Checked
<1>6. CASE CheckTotalSize(t)
  <2>1. CASE pc'[t] = "idle"
    BY <1>2, <1>6, <2>1, TotalChecked DEF files
  <2>2. CASE pc'[t] # "idle"
    <3>1. BytesAccounted'
      BY <1>6, <2>2, TotalPasses
    <3>2. t \in BytesToCome /\ op' = op /\ loc'[t].size = loc[t].size
      BY <1>6, <2>2, TotalChecked DEF BytesToCome, Sized
    <3> QED  BY <1>16, <3>1, <3>2
  <2> QED  BY <2>1, <2>2
<1>17. CASE ListSizes(t)
  <2>1. t \in BytesToCome /\ op' = op /\ loc'[t].size = loc[t].size
    BY <1>17, SizesListed DEF BytesToCome, Sized
  <2> QED  BY <1>16, <1>17, <2>1, ListingStarts
<1>18. CASE AddSize(t)
  <2>1. t \in BytesToCome /\ op' = op /\ loc'[t].size = loc[t].size
    BY <1>18, SizeAdded DEF BytesToCome, Sized
  <2> QED  BY <1>16, <1>18, <2>1, SumGoesOn
<1>7. CASE WriteTemp(t)
  <2>1. /\ pc[t] = "temp" /\ pc'[t] = "rename" /\ UNCHANGED value /\ CallKept(t)
    BY <1>1, <1>7, TempWritten DEF files, TypeOK, CallKept
  <2> QED  BY <1>1, <2>1, SameSizes, QuietStep DEF Sized, Checked
<1>8. CASE OpenAppend(t)
  <2>1. /\ pc[t] = "open" /\ pc'[t] = "append" /\ CallKept(t)
        /\ value' = [value EXCEPT ![loc[t].key] = IF @ = Missing THEN <<>> ELSE @]
    BY <1>1, <1>8, AppendOpened DEF TypeOK, CallKept
  <2>2. ASSUME NEW k \in Keys PROVE Size(value'[k]) <= Size(value[k])
    <3>1. Size(value[k]) \in Nat
      BY Totals
    <3>2. Size(<<>>) = 0
      BY DEF Size
    <3>3. value'[k] = value[k] \/ (value[k] = Missing /\ value'[k] = <<>>)
      BY <1>1, <2>1 DEF TypeOK
    <3> QED  BY <3>1, <3>2, <3>3
  <2> QED  BY <1>1, <2>1, <2>2, QuietStep DEF Sized, Checked
<1>9. ASSUME t \in Checked, pc'[t] = "metaTemp",
             \A k \in Keys \ {loc[t].key} : value'[k] = value[k],
             Size(value'[loc[t].key]) <= Size(value[loc[t].key]) + MaxValue,
             StoredBytes' = BytesAfter(t)
      PROVE  SizesFit' /\ BytesAccounted'
  <2>1. BytesAccounted'
    BY <1>1, <1>9, ValueStored
  <2>2. SizesFit'
    BY <1>1, <1>9, SizesStay DEF OthersKept, CallKept, BytesToCome, Sized, Checked
  <2> QED  BY <2>1, <2>2
<1>10. CASE RenameValue(t)
  <2> DEFINE k == loc[t].key
             x == Size(value[k])
             n == loc[t].size
  <2>1. /\ pc[t] = "rename" /\ pc'[t] = "metaTemp" /\ k \in Keys /\ op[t].kind = "write"
        /\ value' = [value EXCEPT ![k] = op[t].content]
        /\ op[t].content \in Seq(Chunks)
    BY <1>1, <1>10, ValueRenamed, Writing DEF TypeOK
  <2>2. t \in Checked /\ t \in BytesToCome
    BY <2>1 DEF Checked, BytesToCome
  <2>3. /\ value'[k] = op[t].content /\ \A j \in Keys \ {k} : value'[j] = value[j]
    BY <1>1, <2>1 DEF TypeOK
  <2>4. Size(value'[k]) = n
    <3>1. op[t].content # Missing
      BY <2>1, MemoryAssumption
    <3>2. n = Len(op[t].content)
      BY <2>1, <2>2 DEF SizesFit
    <3> QED  BY <2>3, <3>1, <3>2 DEF Size
  <2>5. n \in Nat /\ x \in Nat /\ x <= StoredBytes /\ StoredBytes \in Nat /\ MaxValue \in Nat
    BY <2>2, ToCome, Totals, Numbers
  <2>6. GrownBy(n) /\ StoredBytes' + x = StoredBytes + n
    <3>1. Size(value'[k]) <= x + n
      <4> HIDE DEF x, n
      <4> QED  BY <2>4, <2>5
    <3>2. GrownBy(n) /\ StoredBytes' + x = StoredBytes + Size(value'[k])
      <4> HIDE DEF n, k
      <4> QED  BY <2>1, <2>3, <2>5, <3>1, GrownAt
    <3> QED  BY <2>4, <3>2
  <2>7. StoredBytes' \in Nat
    BY <2>6 DEF GrownBy
  <2>8. StoredBytes' = BytesAfter(t)
    <3> DEFINE b == StoredBytes
               r == StoredBytes'
    <3>1. BytesAfter(t) = b - x + n
      BY <2>1 DEF BytesAfter
    <3>2. n \in Nat /\ x \in Nat /\ b \in Nat /\ r \in Nat /\ r + x = b + n
      BY <2>5, <2>6, <2>7
    <3> HIDE DEF x, n, b, r
    <3>3. r = b - x + n
      BY <3>2
    <3> QED  BY <3>1, <3>3 DEF r
  <2>9. CASE MaxValue > 0
    <3>1. n <= MaxValue
      BY <2>2, <2>9 DEF SizesFit
    <3>2. Size(value'[k]) <= x + MaxValue
      <4> HIDE DEF x, n
      <4> QED  BY <2>4, <2>5, <3>1
    <3> QED  BY <1>9, <2>1, <2>2, <2>3, <2>8, <3>2
  <2>10. CASE ~(MaxValue > 0)
    <3>1. SizesFit'
      BY <1>1, <2>1, SizesStay DEF OthersKept, CallKept, BytesToCome, Sized, Checked
    <3> QED  BY <2>10, <3>1 DEF BytesAccounted
  <2> QED  BY <2>9, <2>10
<1>11. CASE AppendData(t)
  <2> DEFINE k == loc[t].key
             x == Size(value[k])
             c == Len(op[t].content)
  <2>1. /\ pc[t] = "append" /\ pc'[t] = "metaTemp" /\ k \in Keys /\ op[t].kind = "append"
        /\ \/ value' = value
           \/ /\ value' = [value EXCEPT ![k] = @ \o op[t].content]
              /\ Size(value'[k]) = x + c
    <3>1. /\ pc[t] = "append" /\ pc' = [pc EXCEPT ![t] = "metaTemp"]
          /\ \/ value' = value
             \/ /\ value' = [value EXCEPT ![k] = @ \o op[t].content]
                /\ Size(value'[k]) = x + c
      BY <1>11, DataAppended
    <3>2. k \in Keys /\ op[t].kind = "append"
      BY <3>1, Writing
    <3>3. pc'[t] = "metaTemp"
      BY <1>1, <3>1 DEF TypeOK
    <3> QED  BY <3>1, <3>2, <3>3
  <2>2. CASE value' = value
    BY <1>2, <2>1, <2>2
  <2>3. CASE value' = [value EXCEPT ![k] = @ \o op[t].content] /\ Size(value'[k]) = x + c
    <3>1. t \in Checked /\ t \in BytesToCome
      BY <2>1 DEF Checked, BytesToCome
    <3>2. \A j \in Keys \ {k} : value'[j] = value[j]
      BY <1>1, <2>3 DEF TypeOK
    <3>3. c \in Nat /\ x \in Nat /\ StoredBytes \in Nat /\ MaxValue \in Nat /\ loc[t].size \in Nat
      BY <3>1, ToCome, Totals, Numbers
    <3>4. GrownBy(c) /\ StoredBytes' + x = StoredBytes + (x + c)
      <4>1. Size(value'[k]) <= x + c
        <5> HIDE DEF x, c
        <5> QED  BY <2>3, <3>3
      <4>2. GrownBy(c) /\ StoredBytes' + x = StoredBytes + Size(value'[k])
        <5> HIDE DEF c, k
        <5> QED  BY <2>1, <3>2, <3>3, <4>1, GrownAt
      <4> QED  BY <2>3, <4>2
    <3>5. StoredBytes' \in Nat
      BY <3>4 DEF GrownBy
    <3>6. StoredBytes' = BytesAfter(t)
      <4> DEFINE r == StoredBytes'
                 b == StoredBytes
      <4>1. BytesAfter(t) = b + c
        BY <2>1 DEF BytesAfter
      <4>2. r \in Nat /\ b \in Nat /\ x \in Nat /\ c \in Nat /\ r + x = b + (x + c)
        BY <3>3, <3>4, <3>5
      <4> HIDE DEF x, c, r, b
      <4>3. r = b + c
        BY <4>2
      <4> QED  BY <4>1, <4>3 DEF r
    <3>7. CASE MaxValue > 0
      <4>1. loc[t].size <= MaxValue /\ loc[t].size >= c
        BY <3>1, <3>7 DEF SizesFit
      <4>2. Size(value'[k]) <= x + MaxValue
        <5> HIDE DEF x, c
        <5> QED  BY <2>3, <3>3, <4>1
      <4> QED  BY <1>9, <2>1, <3>1, <3>2, <3>6, <4>2
    <3>8. CASE ~(MaxValue > 0)
      <4>1. SizesFit'
        BY <1>1, <2>1, SizesStay DEF OthersKept, CallKept, BytesToCome, Sized, Checked
      <4> QED  BY <3>8, <4>1 DEF BytesAccounted
    <3> QED  BY <3>7, <3>8
  <2> QED  BY <2>1, <2>2, <2>3
<1>12. CASE RemoveValue(t)
  <2>1. pc'[t] = "removeMeta" /\ loc[t].key \in Keys
        /\ value' = [value EXCEPT ![loc[t].key] = Missing]
    BY <1>12, ValueRemoved
  <2>2. ASSUME NEW k \in Keys PROVE Size(value'[k]) <= Size(value[k])
    <3>1. Size(value[k]) \in Nat /\ Size(Missing) = 0
      BY Totals DEF Size
    <3>2. value'[k] = value[k] \/ value'[k] = Missing
      BY <1>1, <2>1 DEF TypeOK
    <3> QED  BY <3>1, <3>2
  <2> QED  BY <1>1, <2>1, <2>2, QuietStep DEF Sized, Checked
<1>13. CASE WriteMetaTemp(t)
  <2>1. UNCHANGED value /\ pc'[t] = "metaRename"
    BY <1>1, <1>13, MetaTempWritten DEF files, TypeOK
  <2> QED  BY <1>2, <2>1
<1>14. CASE CheckExpired(t) \/ ReadValue(t)
  <2>1. UNCHANGED value /\ pc'[t] \in {"idle", "read"}
    BY <1>14, Expiries DEF files
  <2> QED  BY <1>2, <2>1
<1>15. CASE RenameMeta(t) \/ RemoveMeta(t) \/ ListKeys(t) \/ Scan(t) \/ Collect(t) \/ Fail(t)
  <2>1. UNCHANGED value /\ pc'[t] \in {"idle", "visit", "removeValue"}
    BY <1>15, MetaRenamed, MetaRemoved, KeysListed, Scanned, Collected, Failed
  <2> QED  BY <1>2, <2>1
<1> QED  BY <1>3, <1>4, <1>5, <1>6, <1>7, <1>8, <1>10, <1>11, <1>12, <1>13, <1>14, <1>15,
            <1>17, <1>18 DEF Step

\* What is stored, and what the calls under way may still store, stays within the limit
\* and two values more for each process but one.
LEMMA BytesAlways == Spec => [](IInv /\ SizesFit /\ BytesAccounted)
<1>1. Init => SizesFit /\ BytesAccounted
  <2> SUFFICES ASSUME Init PROVE SizesFit /\ BytesAccounted
    OBVIOUS
  <2>1. BytesToCome = {}
    BY DEF Init, BytesToCome, Sized, Checked
  <2>2. SizesFit
    BY <2>1 DEF SizesFit
  <2>3. BytesAccounted
    <3> SUFFICES ASSUME MaxTotal > 0, MaxValue > 0
                 PROVE  \E older \in [Threads -> SUBSET BytesToCome], C \in SUBSET BytesToCome :
                          RoomFor(older, C)
      BY DEF BytesAccounted
    <3>1. PICK older \in [Threads -> SUBSET BytesToCome] : older = [t \in Threads |-> {}]
      OBVIOUS
    <3>2. MostOf({}) = 0
      <4>1. Cardinality({}) = 0
        BY FS_EmptySet
      <4> QED  BY <4>1, Numbers DEF MostOf
    <3>3. StoredBytes = 0
      <4> DEFINE f == [k \in Keys |-> Size(value[k])]
      <4>1. \A k \in Keys : f[k] = 0
        BY DEF Init, Size
      <4>2. StoredBytes = Tally(f, Keys)
        BY DEF StoredBytes
      <4> HIDE DEF f
      <4>3. Units(f, Keys) = {}
        <5>1. ASSUME NEW k \in Keys PROVE {k} \X (1..f[k]) = {}
          <6>1. 1..f[k] = {}
            BY <4>1
          <6> QED  BY <6>1
        <5> QED  BY <5>1 DEF Units
      <4>4. Cardinality(Units(f, Keys)) = 0
        BY <4>3, FS_EmptySet, Zenon
      <4> QED  BY <4>2, <4>4 DEF Tally
    <3>4. StoredBytes + 2 * MostOf({}) <= MaxTotal + 2 * Slack
      BY <3>2, <3>3, Slacks, Numbers
    <3>5. RoomFor(older, {})
      BY <2>1, <3>4 DEF RoomFor, TakenInTurn
    <3> QED  BY <3>5
  <2> QED  BY <2>2, <2>3
<1>2. IInv /\ [Next]_vars => IInv'
  BY NextSafe
<1>3. IInv /\ SizesFit /\ BytesAccounted /\ [Next]_vars /\ IInv' => SizesFit' /\ BytesAccounted'
  <2> SUFFICES ASSUME IInv, SizesFit, BytesAccounted, [Next]_vars, IInv'
               PROVE  SizesFit' /\ BytesAccounted'
    OBVIOUS
  <2>1. ASSUME NEW t \in Threads, Step(t) PROVE SizesFit' /\ BytesAccounted'
    BY <2>1, BytesNext
  <2>2. ASSUME UNCHANGED value,
               \A t \in Threads : \/ pc'[t] = "idle"
                                  \/ pc'[t] = pc[t] /\ op'[t] = op[t] /\ loc'[t] = loc[t]
        PROVE  SizesFit' /\ BytesAccounted'
    <3>1. BytesQuiet
      BY <2>2, SameSizes DEF BytesQuiet, CallKept, Sized, Checked
    <3>2. SizesFit'
      BY <3>1, SizesStay DEF BytesQuiet, BytesToCome, Sized, Checked, CallKept
    <3> QED  BY <3>1, <3>2, QuietBytes
  <2>3. ASSUME NEW p \in Procs, Crash(p) PROVE SizesFit' /\ BytesAccounted'
    BY <2>2, <2>3, Crashed
  <2>4. CASE UNCHANGED <<value, pc, op, loc>>
    BY <2>2, <2>4
  <2> QED  BY <2>1, <2>3, <2>4, Ticked DEF Next, vars, files
<1> QED  BY InitSafe, <1>1, <1>2, <1>3, PTL DEF Spec

\* Between processes the sizes a call has added up can be stale when it writes, and so
\* can the size it takes off for its key: but only by a value for each other process, so
\* that the limit is exceeded by two for each at most (checkTotalSize and checkValueSize
\* in FileStore, the lock of Manager).
THEOREM BytesBounded == Spec => []BytesOvershoot
<1>1. 2 * (Cardinality(Procs) - 1) * MaxValue = 2 * Slack
  <2> DEFINE n == Cardinality(Procs) - 1
  <2>1. n \in Int /\ MaxValue \in Nat
    BY FS_CardinalityType, MemoryAssumption, Numbers
  <2> HIDE DEF n
  <2>2. 2 * n * MaxValue = 2 * (n * MaxValue)
    BY <2>1
  <2> QED  BY <2>2 DEF n, Slack
<1>2. IInv /\ BytesAccounted => BytesOvershoot
  <2> SUFFICES ASSUME IInv, BytesAccounted, MaxTotal > 0, MaxValue > 0
               PROVE  StoredBytes <= MaxTotal + 2 * Slack
    BY <1>1 DEF BytesOvershoot
  <2>1. PICK C \in SUBSET BytesToCome : StoredBytes + 2 * MostOf(C) <= MaxTotal + 2 * Slack
    BY RoomBefore
  <2>2. MostOf(C) \in Nat
    <3>1. C \in SUBSET Threads
      BY ComeFinite
    <3> QED  BY <3>1, MostMonotone
  <2> QED  BY <2>1, <2>2, Totals, Slacks, Numbers
<1> QED  BY BytesAlways, <1>2, PTL

(* ---- one process ---- *)

\* All callers share one Manager.
Sole == Procs = {OneProcess}

LEMMA SoleProcess ==
  ASSUME Sole
  PROVE  OneProcess \in Procs /\ \A t \in Threads : ProcOf[t] = OneProcess
BY MemoryAssumption DEF Sole

\* While a call excludes the others, they are idle.
LEMMA OthersIdle ==
  ASSUME Sole, IInv, NEW t \in Threads, Excluding(t)
  PROVE  \A u \in Threads \ {t} : pc[u] = "idle" /\ op[u] = NoOp /\ loc[u] = Blank
BY SoleProcess DEF IInv, Locked, AtWork, Excluding

\* While a call shares the lock, none excludes it.
LEMMA NoneExcludes ==
  ASSUME Sole, IInv, NEW t \in Threads, pc[t] # "idle", Shared(op[t])
  PROVE  \A u \in Threads : ~Excluding(u)
BY SoleProcess DEF IInv, Locked, Excluding

LEMMA SeenTyped ==
  ASSUME Sole, IInv
  PROVE  /\ Seen \in Store /\ Seen.val \in [Keys -> Value \cup {Missing}]
         /\ Seen.stamp \in [Keys -> Stamp \cup {NoStamp}]
<1>1. [val |-> value, stamp |-> meta] \in Store
  BY DEF IInv, TypeOK, Store
<1>2. before[OneProcess] \in Store \cup {NoStore}
  BY SoleProcess DEF IInv, TypeOK
<1>3. Seen \in Store
  BY <1>1, <1>2 DEF Seen, SeenBy
<1> QED  BY <1>3 DEF Store

\* Which calls exclude the others, and where they can be.
LEMMA Excluders ==
  ASSUME IInv, NEW t \in Threads, Excluding(t)
  PROVE  /\ op[t] \in Op /\ op[t].kind \in {"write", "append", "delete", "gc"}
         /\ pc[t] \in StepsOf(op[t].kind) /\ pc[t] # "read" /\ pc[t] # "idle"
         /\ op[t].kind # "gc" => op[t].key \in Keys /\ loc[t].key = op[t].key
<1>1. AtWork(t) /\ pc[t] # "idle" /\ ~Shared(op[t])
  BY DEF IInv, Excluding
<1>2. /\ op[t] \in Op /\ pc[t] \in StepsOf(op[t].kind)
      /\ (op[t].kind \notin {"search", "gc"} => loc[t].key = op[t].key)
  BY <1>1 DEF AtWork
<1>3. op[t].kind \in {"write", "append", "delete", "gc"}
  BY <1>1, <1>2, Ops DEF Shared
<1>4. pc[t] # "read"
  <2>1. CASE op[t].kind = "write"  BY <1>2, <2>1 DEF StepsOf
  <2>2. CASE op[t].kind = "append"  BY <1>2, <2>2 DEF StepsOf
  <2>3. CASE op[t].kind = "delete"  BY <1>2, <2>3 DEF StepsOf
  <2>4. CASE op[t].kind = "gc"  BY <1>2, <2>4 DEF StepsOf
  <2> QED  BY <1>3, <2>1, <2>2, <2>3, <2>4
<1> QED  BY <1>1, <1>2, <1>3, <1>4, Ops

\* What callers see does not change while a call excludes them.
LEMMA Within1 ==
  ASSUME Sole, IInv, IInv', AddsUp, NEW t \in Threads, Excluding(t), Moved(t),
         pc'[t] # "idle", op'[t] = op[t], UNCHANGED <<before, answer, leaked, clock>>,
         faults' >= faults, faults' \in Nat, faults \in Nat,
         \A k \in Keys : meta'[k] \in {meta[k], NoStamp}, SoFar(t)'
  PROVE  AddsUp' /\ Seen' = Seen /\ SettledAnswer' = SettledAnswer
<1>1. \A u \in Threads \ {t} : pc[u] = "idle" /\ pc'[u] = "idle"
  BY OthersIdle DEF Moved, OthersKept
<1>2. Excluding(t)' /\ before[OneProcess] # NoStore
  BY DEF Excluding, AddsUp
<1>3. Seen' = Seen
  BY <1>2 DEF Seen, SeenBy
<1>4. SettledAnswer' = SettledAnswer
  <2>1. pc[t] # "read" /\ pc'[t] # "read"
    <3>1. pc'[t] # "read"
      <4>1. AtWork(t)' /\ op[t].kind \in {"write", "append", "delete", "gc"}
        BY Excluders DEF IInv
      <4>2. pc'[t] \in StepsOf(op[t].kind)
        BY <4>1 DEF AtWork
      <4>3. CASE op[t].kind = "write"  BY <4>2, <4>3 DEF StepsOf
      <4>4. CASE op[t].kind = "append"  BY <4>2, <4>4 DEF StepsOf
      <4>5. CASE op[t].kind = "delete"  BY <4>2, <4>5 DEF StepsOf
      <4>6. CASE op[t].kind = "gc"  BY <4>2, <4>6 DEF StepsOf
      <4> QED  BY <4>1, <4>3, <4>4, <4>5, <4>6
    <3> QED  BY <3>1, Excluders
  <2>2. \A u \in Threads : Settled(u)' = Settled(u)
    BY <1>1, <2>1 DEF Settled
  <2> QED  BY <2>2 DEF SettledAnswer
<1>5. \A u \in Threads : Excluding(u)' => u = t
  BY <1>1 DEF Excluding
<1>6. op[t].kind # "search"
  BY Excluders
<1>7. \A u \in Threads : pc'[u] # "idle" /\ op'[u].kind = "search" => SearchSoFar(u)'
  BY <1>1, <1>6
<1>8. leaked' > 0 => faults' > 0
  BY DEF AddsUp, IInv, TypeOK
<1>9. \A k \in Keys : meta'[k] # NoStamp => meta'[k] <= clock'
  BY DEF AddsUp
<1>10. before'[OneProcess] # NoStore <=> \E u \in Threads : Excluding(u)'
  BY <1>2
<1>11. \A u \in Threads : Excluding(u)' => SoFar(u)'
  BY <1>5
<1> QED  BY <1>3, <1>4, <1>7, <1>8, <1>9, <1>10, <1>11 DEF AddsUp

\* When a call that excluded the others is over, they see the files.
LEMMA Over ==
  ASSUME Sole, IInv, IInv', AddsUp, NEW t \in Threads, Excluding(t), NEW is, NEW at,
         ReturnFound(t, is, at), UNCHANGED <<leaked, clock>>,
         faults' >= faults, faults' \in Nat, faults \in Nat,
         \A k \in Keys : meta'[k] # NoStamp => meta'[k] <= clock
  PROVE  /\ AddsUp' /\ Seen' = [val |-> value', stamp |-> meta']
         /\ SettledAnswer' =
              [SettledAnswer EXCEPT ![t] = [op |-> op[t], result |-> [is |-> is, at |-> at]]]
<1> DEFINE r == [op |-> op[t], result |-> [is |-> is, at |-> at]]
<1>1. /\ pc' = [pc EXCEPT ![t] = "idle"] /\ answer' = [answer EXCEPT ![t] = r]
      /\ before' = [before EXCEPT ![ProcOf[t]] = NoStore]
  BY DEF ReturnFound, Excluding
<1> HIDE DEF r
<1>2. TypeOK /\ ProcOf[t] = OneProcess /\ OneProcess \in Procs
  BY SoleProcess DEF IInv
<1>3. \A u \in Threads : pc'[u] = "idle"
  BY <1>1, <1>2, OthersIdle DEF TypeOK
<1>4. before'[OneProcess] = NoStore
  BY <1>1, <1>2 DEF TypeOK
<1>5. Seen' = [val |-> value', stamp |-> meta']
  BY <1>4 DEF Seen, SeenBy
<1>6. SettledAnswer' = [SettledAnswer EXCEPT ![t] = r]
  <2>1. \A u \in Threads \ {t} : pc[u] # "read"
    BY OthersIdle
  <2>2. \A u \in Threads : Settled(u)' = answer'[u]
    BY <1>3 DEF Settled
  <2>3. \A u \in Threads \ {t} : Settled(u) = answer[u] /\ answer'[u] = answer[u]
    BY <1>1, <1>2, <2>1 DEF Settled, TypeOK
  <2>4. answer'[t] = r
    BY <1>1, <1>2 DEF TypeOK
  <2>5. \A u \in Threads : Settled(u)' = [SettledAnswer EXCEPT ![t] = r][u]
    BY <2>2, <2>3, <2>4 DEF SettledAnswer
  <2>6. SettledAnswer' = [u \in Threads |-> Settled(u)']
    BY DEF SettledAnswer
  <2>7. [SettledAnswer EXCEPT ![t] = r] = [u \in Threads |-> [SettledAnswer EXCEPT ![t] = r][u]]
    BY DEF SettledAnswer
  <2> QED  BY <2>5, <2>6, <2>7, Zenon
<1>7. leaked' > 0 => faults' > 0
  BY DEF AddsUp, IInv, TypeOK
<1>8. AddsUp'
  BY <1>3, <1>4, <1>7 DEF AddsUp, Excluding
<1> QED  BY <1>5, <1>6, <1>8 DEF r

\* One answer changes.
LEMMA Answered ==
  ASSUME NEW t \in Threads, \A u \in Threads \ {t} : Settled(u)' = Settled(u),
         NEW r, Settled(t)' = r
  PROVE  SettledAnswer' = [SettledAnswer EXCEPT ![t] = r]
<1>1. \A u \in Threads : Settled(u)' = [SettledAnswer EXCEPT ![t] = r][u]
  BY DEF SettledAnswer
<1>2. SettledAnswer' = [u \in Threads |-> Settled(u)']
  BY DEF SettledAnswer
<1>3. [SettledAnswer EXCEPT ![t] = r] = [u \in Threads |-> [SettledAnswer EXCEPT ![t] = r][u]]
  BY DEF SettledAnswer
<1> QED  BY <1>1, <1>2, <1>3, Zenon

\* A step of thread t is of no concern to the others.
Untouched(t) ==
  \A u \in Threads \ {t} : /\ pc'[u] = pc[u] /\ op'[u] = op[u] /\ loc'[u] = loc[u]
                           /\ answer'[u] = answer[u]

LEMMA ReturnUntouched ==
  ASSUME IInv, NEW t \in Threads, NEW is, NEW at, ReturnFound(t, is, at)
  PROVE  /\ Untouched(t) /\ pc'[t] = "idle" /\ (Shared(op[t]) => before' = before)
         /\ answer'[t] = [op |-> op[t], result |-> [is |-> is, at |-> at]]
<1> DEFINE r == [op |-> op[t], result |-> [is |-> is, at |-> at]]
<1>1. /\ pc' = [pc EXCEPT ![t] = "idle"] /\ answer' = [answer EXCEPT ![t] = r]
      /\ op' = [op EXCEPT ![t] = NoOp] /\ loc' = [loc EXCEPT ![t] = Blank]
      /\ (Shared(op[t]) => before' = before)
  BY DEF ReturnFound
<1> HIDE DEF r
<1>2. Untouched(t)
  BY <1>1 DEF IInv, TypeOK, Untouched
<1>3. pc'[t] = "idle" /\ answer'[t] = r
  BY <1>1 DEF IInv, TypeOK
<1> QED  BY <1>1, <1>2, <1>3 DEF r

\* With no call that excludes the others, callers see the files.
LEMMA SeenFiles ==
  ASSUME Sole, IInv, AddsUp, \A u \in Threads : ~Excluding(u)
  PROVE  before[OneProcess] = NoStore /\ Seen = [val |-> value, stamp |-> meta]
BY DEF AddsUp, Seen, SeenBy

\* A call that shares the lock goes on or returns.
LEMMA Sharing ==
  ASSUME Sole, IInv, IInv', AddsUp, NEW t \in Threads, pc[t] # "idle", Shared(op[t]),
         Untouched(t), UNCHANGED <<value, meta, leaked, clock, before>>,
         faults' >= faults, faults' \in Nat, faults \in Nat,
         pc'[t] # "idle" => op'[t] = op[t],
         pc'[t] # "idle" /\ op[t].kind = "search" => SearchSoFar(t)'
  PROVE  /\ AddsUp' /\ Seen' = Seen /\ Seen = [val |-> value, stamp |-> meta]
         /\ \A u \in Threads \ {t} : Settled(u)' = Settled(u)
<1>1. \A u \in Threads : ~Excluding(u)
  BY NoneExcludes
<1>2. \A u \in Threads : ~Excluding(u)'
  BY <1>1 DEF Excluding, Untouched
<1>3. before[OneProcess] = NoStore /\ Seen = [val |-> value, stamp |-> meta]
  BY <1>1, SeenFiles
<1>4. Seen' = Seen
  BY <1>3 DEF Seen, SeenBy
<1>5. \A u \in Threads \ {t} : Settled(u)' = Settled(u)
  BY DEF Settled, Untouched
<1>6. \A u \in Threads : pc'[u] # "idle" /\ op'[u].kind = "search" => SearchSoFar(u)'
  <2> SUFFICES ASSUME NEW u \in Threads, u # t, pc'[u] # "idle", op'[u].kind = "search"
               PROVE  SearchSoFar(u)'
    OBVIOUS
  <2>1. SearchSoFar(u) /\ pc'[u] = pc[u] /\ loc'[u] = loc[u]
    BY DEF AddsUp, Untouched
  <2> QED  BY <2>1 DEF SearchSoFar
<1>7. leaked' > 0 => faults' > 0
  BY DEF AddsUp, IInv, TypeOK
<1>8. AddsUp'
  BY <1>2, <1>3, <1>6, <1>7 DEF AddsUp
<1> QED  BY <1>3, <1>4, <1>5, <1>8

\* What a step of the store is to its callers.
AbstractStep == Abstract!Next \/ UNCHANGED Abstract!vars

LEMMA Stutter ==
  ASSUME Seen' = Seen, SettledAnswer' = SettledAnswer, UNCHANGED <<clock, faults>>
  PROVE  AbstractStep
BY DEF AbstractStep, Abstract!vars

\* What there is to show of a collection after a step.
LEMMA CollectMeans ==
  ASSUME NEW t \in Threads, NEW R, NEW S \in SUBSET R, R \subseteq Abstract!Stored',
         \A k \in R : Abstract!Expired(k)',
         value' = [k \in Keys |-> IF k \in R THEN Missing ELSE Seen.val'[k]],
         meta' = [k \in Keys |-> IF k \in S THEN NoStamp ELSE Seen.stamp'[k]],
         loc'[t].todo \subseteq Abstract!Stored' \ R,
         pc'[t] = "list" => R = {},
         pc'[t] = "removeValue" =>
           loc'[t].key \in Abstract!Stored' /\ Abstract!Expired(loc[t].key)',
         pc'[t] = "removeMeta" => loc'[t].key \in R,
         pc'[t] \in {"removeValue", "removeMeta"} => loc'[t].key \notin loc'[t].todo,
         faults' > 0 \/ R = IF pc'[t] = "removeMeta" THEN S \cup {loc'[t].key} ELSE S
  PROVE  CollectSoFar(t)'
BY DEF CollectSoFar

LEMMA BeginRefines ==
  ASSUME Sole, IInv, IInv', AddsUp, NEW t \in Threads, Begin(t)
  PROVE  AddsUp' /\ AbstractStep
<1>1. TypeOK /\ pc[t] = "idle" /\ op[t] = NoOp /\ loc[t] = Blank
  BY DEF Begin, IInv, AtWork
<1>2. PICK o \in Op :
       /\ MayLock(t, o)
       /\ op' = [op EXCEPT ![t] = o]
       /\ pc' = [pc EXCEPT ![t] =
                   CASE o.kind \in {"write", "append"} -> "size"
                     [] o.kind = "delete" -> "removeValue"
                     [] o.kind = "read" -> "check"
                     [] OTHER -> "list"]
       /\ loc' = [loc EXCEPT ![t].key = IF o.kind \in {"search", "gc"} THEN NoKey ELSE o.key]
       /\ before' = IF Shared(o) THEN before
                    ELSE [before EXCEPT ![ProcOf[t]] = [val |-> value, stamp |-> meta]]
  BY DEF Begin
<1>3. /\ UNCHANGED <<value, meta, leaked, clock, faults>>
      /\ answer' = [answer EXCEPT ![t] = NoAnswer]
  BY DEF Begin, files
<1>4. pc'[t] \in {"size", "removeValue", "check", "list"}
  BY BeginMoved
<1>5. op'[t] = o /\ Untouched(t) /\ answer'[t] = NoAnswer
  BY <1>1, <1>2, <1>3 DEF TypeOK, Untouched
<1>6. loc'[t].temp = 0 /\ loc'[t].found = [k \in Keys |-> Missing] /\ loc'[t].todo = {}
  <2> DEFINE b == Blank
  <2>1. b.temp = 0 /\ b.found = [k \in Keys |-> Missing] /\ b.todo = {}
    BY DEF Blank
  <2>2. DOMAIN b = {"key", "temp", "size", "now", "live", "todo", "total", "found"}
    BY DEF Blank
  <2>3. loc[t] = b
    BY <1>1
  <2> HIDE DEF b
  <2>4. \E x : loc'[t] = [b EXCEPT !.key = x]
    BY <1>1, <1>2, <2>3 DEF TypeOK
  <2> QED  BY <2>1, <2>2, <2>4
<1>7. \A u \in Threads : ~Excluding(u)
  <2>1. o.kind \in {"write", "append", "delete", "read", "search", "gc"}
    BY Ops
  <2>2. ASSUME NEW u \in Threads \ {t}, Excluding(u) PROVE FALSE
    BY <1>2, <2>2, SoleProcess DEF MayLock, Excluding
  <2> QED  BY <1>1, <2>2 DEF Excluding
<1>8. before[OneProcess] = NoStore /\ Seen = [val |-> value, stamp |-> meta]
  BY <1>7, SeenFiles
<1>9. Seen' = Seen
  <2>1. CASE Shared(o)
    BY <1>2, <1>3, <1>8, <2>1 DEF Seen, SeenBy
  <2>2. CASE ~Shared(o)
    <3> DEFINE now == [val |-> value, stamp |-> meta]
    <3>1. now \in Store
      BY <1>1 DEF TypeOK, Store
    <3>2. before'[OneProcess] = now
      BY <1>1, <1>2, <2>2, SoleProcess DEF TypeOK
    <3>3. now # NoStore
      BY <3>1, NoneAssumption
    <3> QED  BY <1>8, <3>2, <3>3 DEF Seen, SeenBy
  <2> QED  BY <2>1, <2>2
<1>10. \A u \in Threads \ {t} : Settled(u)' = Settled(u)
  BY <1>3, <1>5 DEF Settled, Untouched
<1>11. SettledAnswer' = [SettledAnswer EXCEPT ![t] = NoAnswer]
  <2>1. Settled(t)' = NoAnswer
    BY <1>4, <1>5 DEF Settled
  <2> QED  BY <1>10, <2>1, Answered
<1>12. Abstract!Call(t)
  BY <1>3, <1>9, <1>11 DEF Abstract!Call
<1>13. AbstractStep
  BY <1>12 DEF AbstractStep, Abstract!Next
<1>14. before'[OneProcess] # NoStore <=> ~Shared(o)
  <2>1. CASE Shared(o)
    BY <1>2, <1>8, <2>1
  <2>2. CASE ~Shared(o)
    <3> DEFINE now == [val |-> value, stamp |-> meta]
    <3>1. now \in Store
      BY <1>1 DEF TypeOK, Store
    <3>2. before'[OneProcess] = now
      BY <1>1, <1>2, <2>2, SoleProcess DEF TypeOK
    <3>3. now # NoStore
      BY <3>1, NoneAssumption
    <3> QED  BY <2>2, <3>2, <3>3
  <2> QED  BY <2>1, <2>2
<1>15. \A u \in Threads : Excluding(u)' <=> u = t /\ ~Shared(o)
  BY <1>4, <1>5, <1>7 DEF Excluding, Untouched
<1>16. ASSUME ~Shared(o) PROVE SoFar(t)'
  <2>1. meta' = Seen.stamp' /\ value' = Seen.val'
    BY <1>3, <1>8, <1>9
  <2>2. /\ o.kind \in {"write", "append"} => pc'[t] = "size"
        /\ o.kind = "delete" => pc'[t] = "removeValue"
        /\ o.kind = "gc" => pc'[t] = "list"
    BY <1>1, <1>2 DEF TypeOK
  <2>3. o.kind \in {"write", "append"} => WriteSoFar(t)'
    BY <1>6, <2>1, <2>2 DEF WriteSoFar
  <2>4. o.kind = "delete" => DeleteSoFar(t)'
    BY <2>1, <2>2 DEF DeleteSoFar
  <2>5. ASSUME o.kind = "gc" PROVE CollectSoFar(t)'
    <3>1. /\ value = [k \in Keys |-> IF k \in {} THEN Missing ELSE Seen.val[k]]
          /\ meta = [k \in Keys |-> IF k \in {} THEN NoStamp ELSE Seen.stamp[k]]
      BY <1>1, <1>8 DEF TypeOK
    <3>2. \A k \in Keys : k \notin {}
      OBVIOUS
    <3> QED  BY <1>3, <1>6, <1>9, <2>2, <2>5, <3>1, <3>2, CollectMeans
  <2> QED  BY <1>5, <2>3, <2>4, <2>5 DEF SoFar
<1>17. \A u \in Threads : pc'[u] # "idle" /\ op'[u].kind = "search" => SearchSoFar(u)'
  <2>1. ASSUME o.kind = "search" PROVE SearchSoFar(t)'
    <3>1. pc'[t] = "list"
      BY <1>1, <1>2, <2>1 DEF TypeOK
    <3> QED  BY <1>6, <3>1 DEF SearchSoFar
  <2>2. ASSUME NEW u \in Threads \ {t}, pc'[u] # "idle", op'[u].kind = "search"
        PROVE  SearchSoFar(u)'
    <3>1. SearchSoFar(u) /\ pc'[u] = pc[u] /\ loc'[u] = loc[u]
      BY <1>5, <2>2 DEF AddsUp, Untouched
    <3> QED  BY <1>3, <3>1 DEF SearchSoFar
  <2> QED  BY <1>5, <2>1, <2>2
<1>18. AddsUp'
  <2>1. before'[OneProcess] # NoStore <=> \E u \in Threads : Excluding(u)'
    BY <1>14, <1>15
  <2>2. leaked' > 0 => faults' > 0
    BY <1>3 DEF AddsUp
  <2>3. \A k \in Keys : meta'[k] # NoStamp => meta'[k] <= clock'
    BY <1>3 DEF AddsUp
  <2>4. \A u \in Threads : Excluding(u)' => SoFar(u)'
    BY <1>15, <1>16
  <2> QED  BY <1>17, <2>1, <2>2, <2>3, <2>4 DEF AddsUp
<1> QED  BY <1>13, <1>18

LEMMA SeenKept ==
  ASSUME AddsUp, NEW t \in Threads, Excluding(t), UNCHANGED before
  PROVE  Seen' = Seen
BY DEF AddsUp, Seen, SeenBy

\* A step inside a call that excludes the others is none to them.
LEMMA Inside ==
  ASSUME Sole, IInv, IInv', AddsUp, NEW t \in Threads, Excluding(t), Moved(t),
         pc'[t] # "idle", op'[t] = op[t], UNCHANGED <<before, answer, leaked, clock, faults>>,
         \A k \in Keys : meta'[k] \in {meta[k], NoStamp}, SoFar(t)'
  PROVE  AddsUp' /\ AbstractStep
<1>1. faults \in Nat /\ faults' >= faults /\ faults' \in Nat
  BY DEF IInv, TypeOK
<1>2. AddsUp' /\ Seen' = Seen /\ SettledAnswer' = SettledAnswer
  BY <1>1, Within1
<1> QED  BY <1>2, Stutter

\* The abstract operators depend on what is seen.
LEMMA SameView ==
  ASSUME Seen' = Seen, NEW t \in Threads, op'[t] = op[t]
  PROVE  /\ Abstract!NewValue(op[t])' = Abstract!NewValue(op[t])
         /\ Abstract!Stored' = Abstract!Stored
         /\ \A k, n : Abstract!Fits(k, n)' = Abstract!Fits(k, n)
BY DEF Abstract!NewValue, Abstract!Stored, Abstract!Fits, Abstract!TotalOf, Abstract!Size

\* The length of what a write or an append leaves under its key.
LEMMA NewLength ==
  ASSUME Sole, IInv, NEW t \in Threads, Excluding(t), op[t].kind \in {"write", "append"}
  PROVE  /\ op[t].key \in Keys /\ op[t].content \in Seq(Chunks)
         /\ Abstract!NewValue(op[t]) \in Seq(Chunks)
         /\ Len(Abstract!NewValue(op[t])) \in Nat /\ Len(op[t].content) \in Nat
         /\ Len(Abstract!NewValue(op[t])) = Len(op[t].content)
              + (IF op[t].kind = "append" THEN Size(Seen.val[op[t].key]) ELSE 0)
         /\ Size(Seen.val[op[t].key]) \in Nat
<1> DEFINE v == Seen.val[op[t].key]
           c == op[t].content
<1>1. op[t].key \in Keys /\ c \in Seq(Chunks) /\ Len(c) \in Nat
  BY Excluders, Ops
<1>2. v \in Seq(Chunks) \cup {Missing} /\ Size(v) \in Nat
  BY <1>1, SeenTyped, Sizes DEF Value
<1>3. Abstract!NewValue(op[t]) = IF op[t].kind = "append" /\ v # Missing THEN v \o c ELSE c
  BY DEF Abstract!NewValue
<1>4. v # Missing => v \o c \in Seq(Chunks) /\ Len(v \o c) = Len(v) + Len(c) /\ Size(v) = Len(v)
  <2> SUFFICES ASSUME v # Missing
               PROVE  v \o c \in Seq(Chunks) /\ Len(v \o c) = Len(v) + Len(c) /\ Size(v) = Len(v)
    OBVIOUS
  <2>1. v \in Seq(Chunks)
    BY <1>2
  <2>2. Size(v) = Len(v)
    BY DEF Size
  <2> HIDE DEF v, c
  <2> QED  BY <1>1, <2>1, <2>2
<1>5. v = Missing => Size(v) = 0
  BY DEF Size
<1> HIDE DEF v, c
<1>6. /\ Abstract!NewValue(op[t]) \in Seq(Chunks) /\ Len(Abstract!NewValue(op[t])) \in Nat
      /\ Len(Abstract!NewValue(op[t])) =
           Len(c) + (IF op[t].kind = "append" THEN Size(v) ELSE 0)
  <2>1. CASE op[t].kind = "append" /\ v # Missing
    <3> DEFINE w == v \o c
    <3>1. v \in Seq(Chunks) /\ Len(v) \in Nat
      BY <1>2, <2>1
    <3>2. w \in Seq(Chunks) /\ Len(w) = Len(v) + Len(c) /\ Size(v) = Len(v)
      BY <1>4, <2>1
    <3>3. Abstract!NewValue(op[t]) = w
      BY <1>3, <2>1
    <3> HIDE DEF w
    <3>4. Len(w) = Len(c) + Size(v) /\ Len(w) \in Nat
      BY <1>1, <3>1, <3>2
    <3> QED  BY <2>1, <3>2, <3>3, <3>4
  <2>2. CASE ~(op[t].kind = "append" /\ v # Missing)
    BY <1>1, <1>3, <1>5, <2>2
  <2> QED  BY <2>1, <2>2
<1> QED  BY <1>1, <1>2, <1>6 DEF v, c

\* The total that a call which excludes the others finds.
LEMMA TotalSeen ==
  ASSUME Sole, IInv, NEW t \in Threads, Excluding(t), NEW k \in Keys, value = Seen.val
  PROVE  /\ Abstract!TotalOf(Seen.val, Keys \ {k}) \in Nat
         /\ StoredBytes = Abstract!TotalOf(Seen.val, Keys \ {k}) + Size(value[k])
         /\ loc[t].temp = 0 => \A T \in SUBSET Threads : TempBytes(T) = 0
<1> DEFINE f == [j \in Keys |-> Size(value[j])]
           g == [j \in Keys \ {k} |-> Abstract!Size(Seen.val[j])]
<1>1. \A j \in Keys : f[j] = Size(value[j]) /\ f[j] \in Nat
  BY Sizes DEF IInv, TypeOK
<1>2. \A j \in Keys \ {k} : g[j] = f[j]
  BY DEF Size, Abstract!Size
<1>3. Abstract!TotalOf(Seen.val, Keys \ {k}) = Tally(g, Keys \ {k})
  <2>1. Abstract!TotalOf(Seen.val, Keys \ {k}) = Abstract!Tally(g, Keys \ {k})
    BY DEF Abstract!TotalOf
  <2> HIDE DEF g
  <2>2. Abstract!Units(g, Keys \ {k}) = Units(g, Keys \ {k})
    BY DEF Abstract!Units, Units
  <2>3. Abstract!Tally(g, Keys \ {k}) = Tally(g, Keys \ {k})
    BY <2>2, Zenon DEF Abstract!Tally, Tally, Abstract!Cardinality, Cardinality
  <2> QED  BY <2>1, <2>3
<1>4. StoredBytes = Tally(f, Keys)
  BY DEF StoredBytes
<1> HIDE DEF f, g
<1>5. Tally(f, Keys) = Tally(f, Keys \ {k}) + f[k] /\ Tally(f, Keys \ {k}) \in Nat
  BY <1>1, TallySplit, MemoryAssumption
<1>6. Tally(g, Keys \ {k}) = Tally(f, Keys \ {k})
  BY <1>2, TallySame
<1>7. ASSUME loc[t].temp = 0, NEW T \in SUBSET Threads PROVE TempBytes(T) = 0
  <2> DEFINE h == [u \in T |-> loc[u].temp]
  <2>1. \A u \in T : h[u] = 0
    BY <1>7, OthersIdle DEF Blank
  <2>2. TempBytes(T) = Tally(h, T)
    BY DEF TempBytes
  <2> HIDE DEF h
  <2> QED  BY <2>1, <2>2, TallyZero
<1> QED  BY <1>1, <1>3, <1>4, <1>5, <1>6, <1>7

\* A call that writes, seen from within the process.
LEMMA Writer ==
  ASSUME Sole, IInv, AddsUp, NEW t \in Threads,
         pc[t] \in {"size", "count", "total", "stat", "temp", "rename", "open", "append",
                    "metaTemp", "metaRename"}
  PROVE  /\ Excluding(t) /\ WriteSoFar(t)
         /\ op[t] \in Op /\ op[t].kind \in {"write", "append"}
         /\ op[t].key \in Keys /\ loc[t].key = op[t].key
<1>1. op[t] \in Op /\ op[t].kind \in {"write", "append"} /\ loc[t].key = op[t].key
      /\ op[t].key \in Keys
  BY Writing
<1>2. Excluding(t)
  BY <1>1 DEF Excluding, Shared
<1>3. SoFar(t)
  BY <1>2 DEF AddsUp
<1> QED  BY <1>1, <1>2, <1>3 DEF SoFar

\* A call that writes has checked what it had to check: it goes on.
LEMMA WriteGoesOn ==
  ASSUME Sole, IInv, IInv', AddsUp, NEW t \in Threads, Moved(t), pc'[t] # "idle",
         pc[t] \in {"size", "count", "total", "stat", "temp", "rename", "open", "append",
                    "metaTemp"},
         op'[t] = op[t], UNCHANGED <<before, answer, leaked, clock, faults, meta>>,
         NEW new, new = Abstract!NewValue(op[t]), NEW k, k = op[t].key,
         pc'[t] \in {"size", "count", "total", "stat"} => loc'[t].temp = 0,
         pc'[t] \in {"count", "total", "stat", "temp", "rename", "open"} =>
           loc'[t].size = Len(new),
         pc'[t] \in {"count", "total", "stat"} => Within(MaxValue, Len(new)),
         pc'[t] \in {"total", "stat"} =>
           k \in Abstract!Stored \/ Within(MaxKeys, Cardinality(Abstract!Stored) + 1),
         pc'[t] = "stat" => loc'[t].total + SizesToAdd(t)' = (StoredBytes + leaked)',
         pc'[t] \in {"temp", "rename", "open", "append", "metaTemp", "metaRename"} =>
           Abstract!Fits(k, Len(new)),
         pc'[t] = "append" => loc'[t].live,
         pc'[t] = "metaRename" =>
           loc'[t].now <= clock /\ (meta[k] # NoStamp => meta[k] <= loc'[t].now),
         value' = IF pc'[t] \in {"metaTemp", "metaRename"} THEN [Seen.val EXCEPT ![k] = new]
                  ELSE IF pc'[t] = "append" /\ Seen.val[k] = Missing
                       THEN [Seen.val EXCEPT ![k] = <<>>]
                  ELSE Seen.val
  PROVE  AddsUp' /\ AbstractStep
<1>1. Excluding(t) /\ WriteSoFar(t) /\ op[t].kind \in {"write", "append"}
  BY Writer
<1>2. Seen' = Seen
  BY <1>1, SeenKept
<1>3. /\ Abstract!NewValue(op[t])' = new
      /\ Abstract!Stored' = Abstract!Stored
      /\ Abstract!Fits(k, Len(new))' <=> Abstract!Fits(k, Len(new))
  BY <1>2, SameView
<1>4. meta' = Seen.stamp
  BY <1>1 DEF WriteSoFar
<1>5. WriteSoFar(t)'
  BY <1>2, <1>3, <1>4 DEF WriteSoFar
<1>6. SoFar(t)'
  BY <1>1, <1>5 DEF SoFar
<1>7. \A j \in Keys : meta'[j] \in {meta[j], NoStamp}
  OBVIOUS
<1> QED  BY <1>1, <1>6, <1>7, Inside

\* The limits as a call checks them.
LEMMA FitsMeans ==
  ASSUME NEW k, NEW n
  PROVE  Abstract!Fits(k, n)
           <=> /\ Within(MaxValue, n)
               /\ k \in Abstract!Stored \/ Within(MaxKeys, Cardinality(Abstract!Stored) + 1)
               /\ Within(MaxTotal, Abstract!TotalOf(Seen.val, Keys \ {k}) + n)
<1> DEFINE S == Abstract!Stored
           T == Abstract!TotalOf(Seen.val, Keys \ {k})
<1>1. Abstract!Cardinality(S) = Cardinality(S)
  BY Zenon DEF Abstract!Cardinality, Cardinality
<1>2. Abstract!Fits(k, n)
        <=> /\ Abstract!Within(MaxValue, n)
            /\ k \in S \/ Abstract!Within(MaxKeys, Abstract!Cardinality(S) + 1)
            /\ Abstract!Within(MaxTotal, T + n)
  BY DEF Abstract!Fits
<1> HIDE DEF S, T
<1>3. Abstract!Fits(k, n)
        <=> /\ Within(MaxValue, n)
            /\ k \in S \/ Within(MaxKeys, Cardinality(S) + 1)
            /\ Within(MaxTotal, T + n)
  BY <1>1, <1>2 DEF Abstract!Within, Within
<1> QED  BY <1>3 DEF S, T

\* A call that has not yet touched the files.
LEMMA StillToWrite ==
  ASSUME Sole, IInv, AddsUp, NEW t \in Threads, pc[t] \in {"size", "count", "total", "stat"}
  PROVE  value = Seen.val /\ meta = Seen.stamp /\ loc[t].temp = 0
         /\ Listed = Abstract!Stored
<1>1. WriteSoFar(t)
  BY Writer
<1>2. value = Seen.val /\ meta = Seen.stamp /\ loc[t].temp = 0
  BY <1>1 DEF WriteSoFar
<1> QED  BY <1>2 DEF Listed, Abstract!Stored

\* It is refused for the limits, or a fault has left debris.
LEMMA WriteRefused ==
  ASSUME Sole, IInv, IInv', AddsUp, NEW t \in Threads,
         pc[t] \in {"size", "count", "total", "stat"},
         Return(t, "refused"), UNCHANGED <<files, clock, faults>>,
         \/ ~Abstract!Fits(op[t].key, Len(Abstract!NewValue(op[t])))
         \/ faults > 0
  PROVE  AddsUp' /\ AbstractStep
<1> DEFINE none == [k \in Keys |-> Missing]
<1>1. Excluding(t) /\ op[t] \in Op /\ op[t].kind \in {"write", "append"}
  BY Writer
<1>2. value = Seen.val /\ meta = Seen.stamp
  BY StillToWrite
<1>3. UNCHANGED <<value, meta, leaked, clock, faults>>
  BY DEF files
<1>4. \A k \in Keys : meta'[k] # NoStamp => meta'[k] <= clock
  BY <1>3 DEF AddsUp
<1>5. faults \in Nat /\ faults' \in Nat /\ faults' >= faults
  BY <1>3 DEF IInv, TypeOK
<1>6. ReturnFound(t, "refused", none)
  BY DEF Return
<1>7. /\ AddsUp' /\ Seen' = [val |-> value', stamp |-> meta']
      /\ SettledAnswer' =
           [SettledAnswer EXCEPT ![t] = [op |-> op[t], result |-> [is |-> "refused", at |-> none]]]
  <2> HIDE DEF none
  <2> QED  BY <1>1, <1>3, <1>4, <1>5, <1>6, Over
<1>8. Abstract!Answer(t, op[t], "refused")
  BY <1>7 DEF Abstract!Answer, Abstract!AnswerWith
<1>9. Seen.val' = Seen.val /\ Seen.stamp' = Seen.stamp
  BY <1>2, <1>3, <1>7
<1>10. op[t] \in Abstract!Op
  BY <1>1 DEF Op, Abstract!Op
<1>11. Abstract!Refuse(t)
  BY <1>1, <1>3, <1>8, <1>9, <1>10 DEF Abstract!Refuse
<1> QED  BY <1>7, <1>11 DEF AbstractStep, Abstract!Next

LEMMA ValueSizeRefines ==
  ASSUME Sole, IInv, IInv', AddsUp, NEW t \in Threads, CheckValueSize(t)
  PROVE  AddsUp' /\ AbstractStep
<1> DEFINE new == Abstract!NewValue(op[t])
           k == op[t].key
<1>1. pc[t] = "size" /\ UNCHANGED <<files, clock, faults>> /\ UNCHANGED <<value, meta, leaked>>
  BY DEF CheckValueSize, files
<1>2. /\ Excluding(t) /\ op[t].kind \in {"write", "append"} /\ k \in Keys /\ loc[t].key = k
  BY <1>1, Writer
<1>3. value = Seen.val /\ meta = Seen.stamp /\ loc[t].temp = 0 /\ Listed = Abstract!Stored
  BY <1>1, StillToWrite
<1>4. NewSize(t) = Len(new)
  <2>1. Len(new) = Len(op[t].content)
              + (IF op[t].kind = "append" THEN Size(Seen.val[op[t].key]) ELSE 0)
    BY <1>2, NewLength
  <2> HIDE DEF new
  <2> QED  BY <1>2, <1>3, <2>1 DEF NewSize
<1>5. Moved(t)
  BY SizeTaken DEF Sound
<1>6. CASE /\ Within(MaxValue, NewSize(t))
           /\ pc' = [pc EXCEPT ![t] =
                       IF op[t].kind = "append" /\ value[loc[t].key] # Missing
                       THEN "total" ELSE "count"]
           /\ loc' = [loc EXCEPT ![t].size = NewSize(t)]
           /\ UNCHANGED <<op, answer, before>>
  <2>1. /\ pc' = [pc EXCEPT ![t] =
                    IF op[t].kind = "append" /\ value[loc[t].key] # Missing
                    THEN "total" ELSE "count"]
        /\ loc' = [loc EXCEPT ![t].size = NewSize(t)]
        /\ UNCHANGED <<op, answer, before>>
    BY <1>6
  <2>2. /\ pc'[t] = IF op[t].kind = "append" /\ value[k] # Missing THEN "total" ELSE "count"
        /\ op'[t] = op[t]
    BY <1>2, <2>1 DEF IInv, TypeOK
  <2>3. loc'[t].size = NewSize(t) /\ loc'[t].temp = loc[t].temp
    <3> DEFINE n == NewSize(t)
    <3> HIDE DEF n
    <3>1. loc' = [loc EXCEPT ![t].size = n] /\ loc[t] \in Local
      BY <2>1 DEF IInv, TypeOK, n
    <3>2. loc'[t].size = n /\ loc'[t].temp = loc[t].temp
      BY <3>1 DEF IInv, TypeOK, Local
    <3> QED  BY <3>2 DEF n
  <2>4. pc'[t] = "total" => k \in Abstract!Stored
    BY <1>2, <1>3, <2>2 DEF Listed
  <2>5. pc'[t] \in {"count", "total"}
    BY <2>2
  <2>6. Within(MaxValue, Len(new)) /\ loc'[t].size = Len(new)
    BY <1>4, <1>6, <2>3
  <2> HIDE DEF new
  <2>7. new = Abstract!NewValue(op[t])
    BY DEF new
  <2> QED  BY <1>1, <1>2, <1>3, <1>5, <2>1, <2>2, <2>3, <2>4, <2>5, <2>6, <2>7, WriteGoesOn
<1>7. CASE ~Within(MaxValue, NewSize(t)) /\ Return(t, "refused")
  <2>1. ~Abstract!Fits(k, Len(new))
    BY <1>4, <1>7, FitsMeans
  <2> QED  BY <1>1, <1>7, <2>1, WriteRefused
<1> QED  BY <1>6, <1>7 DEF CheckValueSize

LEMMA KeyCountRefines ==
  ASSUME Sole, IInv, IInv', AddsUp, NEW t \in Threads, CheckKeyCount(t)
  PROVE  AddsUp' /\ AbstractStep
<1> DEFINE new == Abstract!NewValue(op[t])
           k == op[t].key
<1>1. pc[t] = "count" /\ UNCHANGED <<files, clock, faults>> /\ UNCHANGED <<value, meta, leaked>>
  BY DEF CheckKeyCount, files
<1>2. /\ Excluding(t) /\ op[t].kind \in {"write", "append"} /\ k \in Keys /\ loc[t].key = k
      /\ WriteSoFar(t)
  BY <1>1, Writer
<1>3. value = Seen.val /\ meta = Seen.stamp /\ loc[t].temp = 0 /\ Listed = Abstract!Stored
  BY <1>1, StillToWrite
<1>4. Within(MaxValue, Len(new)) /\ loc[t].size = Len(new)
  BY <1>1, <1>2 DEF WriteSoFar
<1>5. Moved(t)
  BY CountChecked DEF Sound
<1>6. k \in Abstract!Stored <=> value[k] # Missing
  BY <1>2, <1>3 DEF Abstract!Stored
<1>7. CASE /\ value[loc[t].key] # Missing \/ Within(MaxKeys, Cardinality(Listed) + 1)
           /\ pc' = [pc EXCEPT ![t] = "total"]
           /\ UNCHANGED <<op, loc, answer, before>>
  <2>1. pc'[t] = "total" /\ op'[t] = op[t] /\ loc'[t] = loc[t]
    BY <1>7 DEF IInv, TypeOK
  <2>2. k \in Abstract!Stored \/ Within(MaxKeys, Cardinality(Abstract!Stored) + 1)
    BY <1>2, <1>3, <1>6, <1>7
  <2> HIDE DEF new
  <2>3. new = Abstract!NewValue(op[t])
    BY DEF new
  <2> QED  BY <1>1, <1>2, <1>3, <1>4, <1>5, <1>7, <2>1, <2>2, <2>3, WriteGoesOn
<1>8. CASE /\ value[loc[t].key] = Missing /\ ~Within(MaxKeys, Cardinality(Listed) + 1)
           /\ Return(t, "refused")
  <2>1. ~Abstract!Fits(k, Len(new))
    BY <1>2, <1>3, <1>6, <1>8, FitsMeans
  <2> QED  BY <1>1, <1>8, <2>1, WriteRefused
<1> QED  BY <1>7, <1>8 DEF CheckKeyCount

\* What a call that is checking the total knows.
LEMMA Checking ==
  ASSUME Sole, IInv, AddsUp, NEW t \in Threads, pc[t] \in {"total", "stat"},
         NEW new, new = Abstract!NewValue(op[t]), NEW k, k = op[t].key,
         NEW rest, rest = Abstract!TotalOf(Seen.val, Keys \ {k})
  PROVE  /\ Excluding(t) /\ WriteSoFar(t) /\ k \in Keys /\ loc[t].key = k
         /\ value = Seen.val /\ meta = Seen.stamp /\ loc[t].temp = 0
         /\ \A T \in SUBSET Threads : TempBytes(T) = 0
         /\ Within(MaxValue, Len(new)) /\ loc[t].size = Len(new) /\ Len(new) \in Nat
         /\ k \in Abstract!Stored \/ Within(MaxKeys, Cardinality(Abstract!Stored) + 1)
         /\ leaked \in Nat /\ rest \in Nat /\ Size(value[k]) \in Nat
         /\ StoredBytes = rest + Size(value[k])
         /\ Abstract!Fits(k, Len(new)) <=> Within(MaxTotal, rest + Len(new))
<1>1. /\ Excluding(t) /\ WriteSoFar(t) /\ k \in Keys /\ loc[t].key = k
      /\ op[t].kind \in {"write", "append"}
  BY Writer
<1>2. value = Seen.val /\ meta = Seen.stamp /\ loc[t].temp = 0
  BY StillToWrite
<1>3. /\ Within(MaxValue, Len(new)) /\ loc[t].size = Len(new)
      /\ k \in Abstract!Stored \/ Within(MaxKeys, Cardinality(Abstract!Stored) + 1)
  BY <1>1 DEF WriteSoFar
<1>4. Len(new) \in Nat /\ leaked \in Nat /\ Size(value[k]) \in Nat
  <2>1. Len(new) \in Nat
    BY <1>1, NewLength
  <2>2. leaked \in Nat /\ Size(value[k]) \in Nat
    BY <1>1, Totals
  <2> QED  BY <2>1, <2>2
<1>5. /\ rest \in Nat /\ StoredBytes = rest + Size(value[k])
      /\ \A T \in SUBSET Threads : TempBytes(T) = 0
  BY <1>1, <1>2, TotalSeen
<1>6. Abstract!Fits(k, Len(new)) <=> Within(MaxTotal, rest + Len(new))
  BY <1>3, FitsMeans
<1> QED  BY <1>1, <1>2, <1>3, <1>4, <1>5, <1>6

\* It goes on to store its value.
LEMMA AllowedRefines ==
  ASSUME Sole, IInv, IInv', AddsUp, NEW t \in Threads, pc[t] \in {"total", "stat"},
         AllowedTotal(t), UNCHANGED <<files, clock, faults>>,
         Abstract!Fits(op[t].key, Len(Abstract!NewValue(op[t])))
  PROVE  AddsUp' /\ AbstractStep
<1> DEFINE new == Abstract!NewValue(op[t])
           k == op[t].key
           rest == Abstract!TotalOf(Seen.val, Keys \ {k})
<1>1. value = Seen.val /\ loc[t].size = Len(new)
  <2> HIDE DEF new, k, rest
  <2> QED  BY Checking DEF new, k, rest
<1>2. /\ Moved(t) /\ pc'[t] \in {"temp", "open"} /\ op' = op /\ loc'[t].size = loc[t].size
  BY TotalAllowed DEF Sound
<1>3. /\ pc'[t] # "idle" /\ op'[t] = op[t]
      /\ UNCHANGED <<before, answer, leaked, clock, faults, meta>> /\ value' = value
  BY <1>2 DEF AllowedTotal, files
<1>4. Abstract!Fits(k, Len(new)) /\ loc'[t].size = Len(new)
  BY <1>1, <1>2
<1> HIDE DEF new
<1>5. new = Abstract!NewValue(op[t])
  BY DEF new
<1> QED  BY <1>1, <1>2, <1>3, <1>4, <1>5, WriteGoesOn

LEMMA ListSizesRefines ==
  ASSUME Sole, IInv, IInv', AddsUp, NEW t \in Threads, ListSizes(t)
  PROVE  AddsUp' /\ AbstractStep
<1> DEFINE new == Abstract!NewValue(op[t])
           k == op[t].key
           rest == Abstract!TotalOf(Seen.val, Keys \ {k})
<1>1. /\ Moved(t) /\ pc[t] = "total" /\ UNCHANGED <<files, clock, faults>> /\ op' = op
      /\ loc'[t].key = loc[t].key /\ loc'[t].size = loc[t].size /\ loc'[t].temp = loc[t].temp
      /\ UNCHANGED <<value, meta, leaked>>
  BY SizesListed DEF Sound, files
<1>2. /\ value = Seen.val /\ loc[t].temp = 0
      /\ \A T \in SUBSET Threads : TempBytes(T) = 0
      /\ Within(MaxValue, Len(new)) /\ loc[t].size = Len(new) /\ leaked \in Nat
      /\ k \in Abstract!Stored \/ Within(MaxKeys, Cardinality(Abstract!Stored) + 1)
      /\ Abstract!Fits(k, Len(new)) <=> Within(MaxTotal, rest + Len(new))
  <2> HIDE DEF new, k, rest
  <2> QED  BY <1>1, Checking DEF new, k, rest
<1>3. CASE MaxTotal = 0 /\ AllowedTotal(t)
  <2>1. Abstract!Fits(k, Len(new))
    BY <1>2, <1>3 DEF Within
  <2> QED  BY <1>1, <1>3, <2>1, AllowedRefines
<1>4. ASSUME pc'[t] = "stat", UNCHANGED <<answer, before>>, NEW T \in SUBSET Threads,
             loc'[t].todo = Listed, loc'[t].total = leaked + TempBytes(T)
      PROVE  AddsUp' /\ AbstractStep
  <2>1. StoredBytes \in Nat /\ StoredBytes' = StoredBytes
    BY <1>1, Totals DEF StoredBytes
  <2>2. SizesToAdd(t)' = StoredBytes
    <3>1. SizesToAdd(t)' = SizesOf(Listed)
      BY <1>1, <1>4 DEF SizesToAdd, SizesOf
    <3> QED  BY <3>1, ListedBytes
  <2>3. loc'[t].total + SizesToAdd(t)' = (StoredBytes + leaked)'
    <3>1. loc'[t].total = leaked
      BY <1>2, <1>4
    <3> QED  BY <1>1, <1>2, <2>1, <2>2, <3>1
  <2>4. pc'[t] # "idle" /\ op'[t] = op[t] /\ value' = Seen.val /\ loc'[t].size = Len(new)
        /\ loc'[t].temp = 0
    BY <1>1, <1>2, <1>4
  <2> HIDE DEF new
  <2>5. new = Abstract!NewValue(op[t])
    BY DEF new
  <2> QED  BY <1>1, <1>2, <1>4, <2>3, <2>4, <2>5, WriteGoesOn
<1> QED  BY <1>3, <1>4, SizesListed

LEMMA AddSizeRefines ==
  ASSUME Sole, IInv, IInv', AddsUp, NEW t \in Threads, AddSize(t)
  PROVE  AddsUp' /\ AbstractStep
<1> DEFINE new == Abstract!NewValue(op[t])
           k == op[t].key
           rest == Abstract!TotalOf(Seen.val, Keys \ {k})
<1>1. /\ Moved(t) /\ pc[t] = "stat" /\ pc'[t] = "stat" /\ UNCHANGED <<files, clock, faults>>
      /\ loc'[t].size = loc[t].size /\ loc'[t].temp = loc[t].temp
      /\ UNCHANGED <<op, answer, before>> /\ UNCHANGED <<value, meta, leaked>>
  BY SizeAdded DEF Sound, files
<1>2. PICK j \in loc[t].todo :
        loc'[t].todo = loc[t].todo \ {j} /\ loc'[t].total = loc[t].total + Size(value[j])
  BY SizeAdded
<1>3. /\ value = Seen.val /\ loc[t].temp = 0 /\ WriteSoFar(t)
      /\ Within(MaxValue, Len(new)) /\ loc[t].size = Len(new)
      /\ k \in Abstract!Stored \/ Within(MaxKeys, Cardinality(Abstract!Stored) + 1)
  <2> HIDE DEF new, k, rest
  <2> QED  BY <1>1, Checking DEF new, k, rest
<1>4. loc[t].todo \in SUBSET Keys /\ loc[t].total \in Nat
  BY DEF IInv, TypeOK, Local
<1>5. loc'[t].total + SizesToAdd(t)' = (StoredBytes + leaked)'
  <2> DEFINE S == loc[t].todo
             x == Size(value[j])
             q == loc[t].total
  <2>1. SizesToAdd(t) = SizesOf(S) /\ SizesToAdd(t)' = SizesOf(S \ {j})
    BY <1>1, <1>2 DEF SizesToAdd, SizesOf
  <2>2. /\ SizesOf(S) = SizesOf(S \ {j}) + x
        /\ SizesOf(S \ {j}) \in Nat /\ x \in Nat
    BY <1>4, OneSizeLess
  <2>3. loc'[t].total = q + x /\ q \in Nat
    BY <1>2, <1>4
  <2>4. q + SizesToAdd(t) = StoredBytes + leaked
    BY <1>1, <1>3 DEF WriteSoFar
  <2>5. (StoredBytes + leaked)' = StoredBytes + leaked
    BY <1>1 DEF StoredBytes
  <2> HIDE DEF S, x, q
  <2> QED  BY <2>1, <2>2, <2>3, <2>4, <2>5
<1>6. pc'[t] # "idle" /\ op'[t] = op[t] /\ value' = Seen.val /\ loc'[t].size = Len(new)
      /\ loc'[t].temp = 0
  BY <1>1, <1>3
<1> HIDE DEF new
<1>7. new = Abstract!NewValue(op[t])
  BY DEF new
<1> QED  BY <1>1, <1>3, <1>5, <1>6, <1>7, WriteGoesOn

LEMMA TotalSizeRefines ==
  ASSUME Sole, IInv, IInv', AddsUp, NEW t \in Threads, CheckTotalSize(t)
  PROVE  AddsUp' /\ AbstractStep
<1> DEFINE new == Abstract!NewValue(op[t])
           k == op[t].key
           rest == Abstract!TotalOf(Seen.val, Keys \ {k})
           n == Len(new)
<1>1. pc[t] = "stat" /\ loc[t].todo = {} /\ UNCHANGED <<files, clock, faults>>
  BY DEF CheckTotalSize
<1>2. /\ WriteSoFar(t) /\ loc[t].key = k /\ loc[t].size = n /\ n \in Nat /\ leaked \in Nat
      /\ rest \in Nat /\ Size(value[k]) \in Nat /\ StoredBytes = rest + Size(value[k])
      /\ Abstract!Fits(k, n) <=> Within(MaxTotal, rest + n)
  <2> HIDE DEF new, k, rest
  <2> QED  BY SMTT(30), <1>1, Checking DEF new, k, rest
<1>3. loc[t].total = StoredBytes + leaked
  <2>1. SizesToAdd(t) = 0
    BY <1>1, TallyZero DEF SizesToAdd
  <2>2. loc[t].total + SizesToAdd(t) = StoredBytes + leaked
    BY <1>1, <1>2 DEF WriteSoFar
  <2>3. loc[t].total \in Nat
    BY DEF IInv, TypeOK, Local
  <2> QED  BY <2>1, <2>2, <2>3
<1>4. TotalWith(t) = rest + leaked + n
  <2>1. TotalWith(t) = loc[t].total - Size(value[k]) + n
    BY <1>2 DEF TotalWith
  <2> HIDE DEF n, rest
  <2> QED  BY <1>2, <1>3, <2>1
<1>5. CASE Within(MaxTotal, TotalWith(t)) /\ AllowedTotal(t)
  <2>1. Within(MaxTotal, rest + n)
    <3>1. Within(MaxTotal, TotalWith(t))
      BY <1>5
    <3> HIDE DEF n, rest
    <3> QED  BY <1>2, <1>4, <3>1, Numbers DEF Within
  <2> QED  BY <1>1, <1>2, <1>5, <2>1, AllowedRefines
<1>6. CASE ~Within(MaxTotal, TotalWith(t)) /\ Return(t, "refused")
  <2>1. leaked > 0 => faults > 0
    BY DEF AddsUp
  <2>2. leaked = 0 => ~Within(MaxTotal, rest + n)
    <3>1. ~Within(MaxTotal, TotalWith(t))
      BY <1>6
    <3> HIDE DEF n, rest
    <3> QED  BY <1>2, <1>4, <3>1
  <2>3. ~Abstract!Fits(k, Len(new)) \/ faults > 0
    <3>1. leaked = 0 \/ leaked > 0
      BY <1>2
    <3> QED  BY <1>2, <2>1, <2>2, <3>1
  <2> QED  BY <1>1, <1>6, <2>3, WriteRefused
<1> QED  BY <1>5, <1>6 DEF CheckTotalSize

LEMMA TempRefines ==
  ASSUME Sole, IInv, IInv', AddsUp, NEW t \in Threads, WriteTemp(t)
  PROVE  AddsUp' /\ AbstractStep
<1> DEFINE new == Abstract!NewValue(op[t])
           k == op[t].key
<1>1. /\ pc[t] = "temp" /\ UNCHANGED <<value, meta, leaked, clock, faults>>
      /\ UNCHANGED <<op, answer, before>>
  BY DEF WriteTemp, Goto, files
<1>2. Moved(t) /\ loc'[t].size = loc[t].size /\ pc' = [pc EXCEPT ![t] = "rename"]
  BY TempWritten DEF Sound
<1>3. pc'[t] = "rename" /\ op'[t] = op[t]
  BY <1>1, <1>2 DEF IInv, TypeOK
<1>4. WriteSoFar(t)
  BY <1>1, Writer
<1>5. loc[t].size = Len(new) /\ Abstract!Fits(k, Len(new)) /\ value = Seen.val
  BY <1>1, <1>4 DEF WriteSoFar
<1> HIDE DEF new
<1>6. new = Abstract!NewValue(op[t])
  BY DEF new
<1> QED  BY <1>1, <1>2, <1>3, <1>5, <1>6, WriteGoesOn

LEMMA RenameRefines ==
  ASSUME Sole, IInv, IInv', AddsUp, NEW t \in Threads, RenameValue(t)
  PROVE  AddsUp' /\ AbstractStep
<1> DEFINE new == Abstract!NewValue(op[t])
           k == op[t].key
<1>1. pc[t] = "rename" /\ UNCHANGED <<meta, leaked, clock, faults, op, answer, before>>
  BY DEF RenameValue, Goto
<1>2. /\ Moved(t) /\ pc' = [pc EXCEPT ![t] = "metaTemp"]
      /\ value' = [value EXCEPT ![loc[t].key] = op[t].content]
  BY ValueRenamed DEF Sound
<1>3. pc'[t] = "metaTemp" /\ op'[t] = op[t]
  BY <1>1, <1>2 DEF IInv, TypeOK
<1>4. WriteSoFar(t) /\ loc[t].key = k
  BY <1>1, Writer
<1>5. Abstract!Fits(k, Len(new)) /\ value = Seen.val
  BY <1>1, <1>4 DEF WriteSoFar
<1>6. op[t].kind = "write"
  BY <1>1, Writing
<1>7. new = op[t].content
  BY <1>6 DEF Abstract!NewValue
<1> HIDE DEF new
<1>8. new = Abstract!NewValue(op[t])
  BY DEF new
<1> QED  BY <1>1, <1>2, <1>3, <1>4, <1>5, <1>7, <1>8, WriteGoesOn

LEMMA OpenRefines ==
  ASSUME Sole, IInv, IInv', AddsUp, NEW t \in Threads, OpenAppend(t)
  PROVE  AddsUp' /\ AbstractStep
<1> DEFINE new == Abstract!NewValue(op[t])
           k == op[t].key
<1>1. /\ pc[t] = "open" /\ UNCHANGED <<meta, leaked, clock, faults, op, answer, before>>
      /\ loc' = [loc EXCEPT ![t].live = TRUE]
  BY DEF OpenAppend, Goto
<1>2. /\ Moved(t) /\ pc' = [pc EXCEPT ![t] = "append"]
      /\ value' = [value EXCEPT ![loc[t].key] = IF @ = Missing THEN <<>> ELSE @]
  BY AppendOpened DEF Sound
<1>3. pc'[t] = "append" /\ op'[t] = op[t]
  BY <1>1, <1>2 DEF IInv, TypeOK
<1>4. WriteSoFar(t) /\ loc[t].key = k /\ k \in Keys
  BY <1>1, Writer
<1>5. Abstract!Fits(k, Len(new)) /\ value = Seen.val
  BY <1>1, <1>4 DEF WriteSoFar
<1>6. loc'[t].live
  BY <1>1 DEF IInv, TypeOK, Local
<1>7. value' = IF Seen.val[k] = Missing THEN [Seen.val EXCEPT ![k] = <<>>] ELSE Seen.val
  <2> DEFINE f == Seen.val
  <2>1. f \in [Keys -> Value \cup {Missing}]
    BY SeenTyped
  <2>2. value' = [f EXCEPT ![k] = IF f[k] = Missing THEN <<>> ELSE f[k]]
    BY <1>2, <1>4, <1>5
  <2> HIDE DEF f, k
  <2>3. value' = IF f[k] = Missing THEN [f EXCEPT ![k] = <<>>] ELSE f
    BY <2>1, <2>2
  <2> QED  BY <2>3 DEF f
<1> HIDE DEF new
<1>8. new = Abstract!NewValue(op[t])
  BY DEF new
<1> QED  BY <1>1, <1>2, <1>3, <1>5, <1>6, <1>7, <1>8, WriteGoesOn

LEMMA AppendRefines ==
  ASSUME Sole, IInv, IInv', AddsUp, NEW t \in Threads, AppendData(t)
  PROVE  AddsUp' /\ AbstractStep
<1> DEFINE new == Abstract!NewValue(op[t])
           k == op[t].key
           c == op[t].content
           f == Seen.val
<1>1. pc[t] = "append" /\ UNCHANGED <<meta, leaked, clock, faults, op, answer, before>>
  BY DEF AppendData, Goto
<1>2. Moved(t) /\ pc' = [pc EXCEPT ![t] = "metaTemp"]
  BY DataAppended DEF Sound
<1>3. pc'[t] = "metaTemp" /\ op'[t] = op[t]
  BY <1>1, <1>2 DEF IInv, TypeOK
<1>4. WriteSoFar(t) /\ loc[t].key = k /\ k \in Keys
  BY <1>1, Writer
<1>5. /\ Abstract!Fits(k, Len(new)) /\ loc[t].live
      /\ value = IF f[k] = Missing THEN [f EXCEPT ![k] = <<>>] ELSE f
  BY <1>1, <1>4 DEF WriteSoFar
<1>6. op[t].kind = "append" /\ c \in Seq(Chunks)
  BY <1>1, Writing
<1>7. new = IF f[k] # Missing THEN f[k] \o c ELSE c
  BY <1>6 DEF Abstract!NewValue
<1>8. value' = [value EXCEPT ![k] = value[k] \o c]
  BY <1>4, <1>5 DEF AppendData
<1>9. value' = [f EXCEPT ![k] = new]
  <2>1. f \in [Keys -> Value \cup {Missing}]
    BY SeenTyped
  <2>2. <<>> \o c = c
    <3> HIDE DEF c
    <3> QED  BY <1>6
  <2> DEFINE w == f[k] \o c
  <2>3. CASE f[k] = Missing
    <3>1. value = [f EXCEPT ![k] = <<>>] /\ value[k] = <<>>
      <4> HIDE DEF f, k
      <4> QED  BY <1>4, <1>5, <2>1, <2>3
    <3>2. new = c /\ value' = [value EXCEPT ![k] = c]
      BY <1>7, <1>8, <2>2, <2>3, <3>1
    <3> HIDE DEF f, k, c, new
    <3> QED  BY <1>4, <2>1, <3>1, <3>2
  <2>4. CASE f[k] # Missing
    BY <1>5, <1>7, <1>8, <2>4
  <2> QED  BY <2>3, <2>4
<1> HIDE DEF new
<1>10. new = Abstract!NewValue(op[t])
  BY DEF new
<1> QED  BY <1>1, <1>2, <1>3, <1>5, <1>9, <1>10, WriteGoesOn

LEMMA MetaTempRefines ==
  ASSUME Sole, IInv, IInv', AddsUp, NEW t \in Threads, WriteMetaTemp(t)
  PROVE  AddsUp' /\ AbstractStep
<1> DEFINE new == Abstract!NewValue(op[t])
           k == op[t].key
<1>1. /\ pc[t] = "metaTemp" /\ UNCHANGED <<value, meta, leaked, clock, faults>>
      /\ UNCHANGED <<op, answer, before>>
      /\ loc' = [loc EXCEPT ![t].temp = MetaSize, ![t].now = clock]
  BY DEF WriteMetaTemp, Goto, files
<1>2. Moved(t) /\ pc' = [pc EXCEPT ![t] = "metaRename"]
  BY MetaTempWritten DEF Sound
<1>3. pc'[t] = "metaRename" /\ op'[t] = op[t]
  BY <1>1, <1>2 DEF IInv, TypeOK
<1>4. WriteSoFar(t) /\ k \in Keys
  BY <1>1, Writer
<1>5. Abstract!Fits(k, Len(new)) /\ value = [Seen.val EXCEPT ![k] = new]
  BY <1>1, <1>4 DEF WriteSoFar
<1>6. loc'[t].now = clock
  BY <1>1 DEF IInv, TypeOK, Local
<1>7. clock \in Nat /\ (meta[k] # NoStamp => meta[k] <= clock)
  BY <1>4, Numbers DEF AddsUp, IInv, TypeOK, Stamp
<1> HIDE DEF new
<1>8. new = Abstract!NewValue(op[t])
  BY DEF new
<1>9. loc'[t].now <= clock /\ (meta[k] # NoStamp => meta[k] <= loc'[t].now)
  BY <1>6, <1>7
<1>10. value' = [Seen.val EXCEPT ![k] = new]
  BY <1>1, <1>5
<1> QED  BY <1>1, <1>2, <1>3, <1>5, <1>8, <1>9, <1>10, WriteGoesOn

\* The metadata in place, the write is done: its callers see it now.
LEMMA MetaRefines ==
  ASSUME Sole, IInv, IInv', AddsUp, NEW t \in Threads, RenameMeta(t)
  PROVE  AddsUp' /\ AbstractStep
<1> DEFINE new == Abstract!NewValue(op[t])
           k == op[t].key
           now == loc[t].now
           none == [j \in Keys |-> Missing]
<1>1. /\ pc[t] = "metaRename" /\ UNCHANGED <<value, leaked, clock, faults>>
      /\ meta' = [meta EXCEPT ![loc[t].key] = now]
      /\ ReturnFound(t, "ok", none)
  BY DEF RenameMeta, Return
<1>2. /\ Excluding(t) /\ WriteSoFar(t) /\ loc[t].key = k /\ k \in Keys
      /\ op[t] \in Op /\ op[t].kind \in {"write", "append"}
  BY <1>1, Writer
<1>3. /\ Abstract!Fits(k, Len(new)) /\ value = [Seen.val EXCEPT ![k] = new]
      /\ meta = Seen.stamp /\ now <= clock /\ (meta[k] # NoStamp => meta[k] <= now)
  BY <1>1, <1>2 DEF WriteSoFar
<1>4. now \in Nat /\ clock \in Nat /\ now \in 0..clock
  <2>1. now \in Stamp /\ clock \in Stamp
    BY DEF IInv, TypeOK, Local
  <2>2. now \in Nat /\ clock \in Nat
    BY <2>1, Numbers DEF Stamp
  <2> QED  BY <1>3, <2>2
<1>5. \A j \in Keys : meta'[j] # NoStamp => meta'[j] <= clock
  BY <1>1, <1>2, <1>3 DEF AddsUp, IInv, TypeOK
<1>6. faults \in Nat /\ faults' \in Nat /\ faults' >= faults
  BY <1>1 DEF IInv, TypeOK
<1>7. /\ AddsUp' /\ Seen' = [val |-> value', stamp |-> meta']
      /\ SettledAnswer' =
           [SettledAnswer EXCEPT ![t] = [op |-> op[t], result |-> [is |-> "ok", at |-> none]]]
  <2> HIDE DEF none
  <2> QED  BY <1>1, <1>2, <1>5, <1>6, Over
<1>8. Abstract!Answer(t, op[t], "ok")
  BY <1>7 DEF Abstract!Answer, Abstract!AnswerWith
<1>9. Seen.val' = [Seen.val EXCEPT ![k] = new] /\ Seen.stamp' = [Seen.stamp EXCEPT ![k] = now]
  BY <1>1, <1>2, <1>3, <1>7
<1>10. op[t] \in Abstract!Op
  BY <1>2 DEF Op, Abstract!Op
<1>11. Abstract!Store(t)
  <2> HIDE DEF now
  <2> QED  BY <1>1, <1>2, <1>3, <1>4, <1>8, <1>9, <1>10 DEF Abstract!Store
<1> QED  BY <1>7, <1>11 DEF AbstractStep, Abstract!Next

\* A call that removes, seen from within the process.
LEMMA Remover ==
  ASSUME Sole, IInv, AddsUp, NEW t \in Threads, pc[t] \in {"removeValue", "removeMeta"}
  PROVE  /\ Excluding(t) /\ op[t] \in Op /\ loc[t].key \in Keys
         /\ \/ op[t].kind = "delete" /\ DeleteSoFar(t) /\ loc[t].key = op[t].key
            \/ op[t].kind = "gc" /\ CollectSoFar(t)
<1>1. /\ op[t] \in Op /\ pc[t] \in StepsOf(op[t].kind) /\ loc[t].key \in Keys
      /\ op[t].kind \notin {"search", "gc"} => loc[t].key = op[t].key
  BY DEF IInv, AtWork
<1>2. op[t].kind \in {"delete", "gc"}
  <2>1. op[t].kind \notin {"write", "append", "read", "search"}
    BY <1>1 DEF StepsOf
  <2> QED  BY <1>1, <2>1, Ops
<1>3. Excluding(t)
  BY <1>2 DEF Excluding, Shared
<1>4. SoFar(t)
  BY <1>3 DEF AddsUp
<1> QED  BY <1>1, <1>2, <1>3, <1>4 DEF SoFar

\* A collection goes on: it has removed the values of R and the metadata of S.
LEMMA CollectGoesOn ==
  ASSUME Sole, IInv, IInv', AddsUp, NEW t \in Threads, Excluding(t), op[t].kind = "gc",
         Moved(t), pc'[t] # "idle", op'[t] = op[t], UNCHANGED <<before, answer, leaked, clock>>,
         faults' \in {faults, faults + 1}, \A k \in Keys : meta'[k] \in {meta[k], NoStamp},
         NEW R, NEW S \in SUBSET R, R \subseteq Abstract!Stored,
         \A k \in R : Abstract!Expired(k),
         value' = [k \in Keys |-> IF k \in R THEN Missing ELSE Seen.val[k]],
         meta' = [k \in Keys |-> IF k \in S THEN NoStamp ELSE Seen.stamp[k]],
         loc'[t].todo \subseteq Abstract!Stored \ R,
         pc'[t] # "list",
         pc'[t] = "removeValue" =>
           loc'[t].key \in Abstract!Stored /\ Abstract!Expired(loc'[t].key),
         pc'[t] = "removeMeta" => loc'[t].key \in R,
         pc'[t] \in {"removeValue", "removeMeta"} => loc'[t].key \notin loc'[t].todo,
         faults' > 0 \/ R = IF pc'[t] = "removeMeta" THEN S \cup {loc'[t].key} ELSE S
  PROVE  AddsUp' /\ Seen' = Seen /\ SettledAnswer' = SettledAnswer
<1>1. Seen' = Seen
  BY SeenKept
<1>2. Abstract!Stored' = Abstract!Stored
  BY <1>1, SameView
<1>3. \A k : Abstract!Expired(k)' <=> Abstract!Expired(k)
  BY <1>1 DEF Abstract!Expired
<1>4. Abstract!Expired(loc[t].key)' <=> Abstract!Expired(loc'[t].key)
  BY <1>1 DEF Abstract!Expired
<1>5. CollectSoFar(t)'
  <2>1. R \subseteq Abstract!Stored' /\ \A k \in R : Abstract!Expired(k)'
    BY <1>2, <1>3
  <2>2. /\ value' = [k \in Keys |-> IF k \in R THEN Missing ELSE Seen.val'[k]]
        /\ meta' = [k \in Keys |-> IF k \in S THEN NoStamp ELSE Seen.stamp'[k]]
    BY <1>1
  <2>3. loc'[t].todo \subseteq Abstract!Stored' \ R
    BY <1>2
  <2>4. pc'[t] = "removeValue" =>
           loc'[t].key \in Abstract!Stored' /\ Abstract!Expired(loc[t].key)'
    BY <1>2, <1>4
  <2> QED  BY <2>1, <2>2, <2>3, <2>4, CollectMeans
<1>6. SoFar(t)'
  BY <1>5 DEF SoFar
<1>7. faults \in Nat /\ faults' \in Nat /\ faults' >= faults
  BY DEF IInv, TypeOK
<1> QED  BY <1>6, <1>7, Within1

LEMMA RemoveValueRefines ==
  ASSUME Sole, IInv, IInv', AddsUp, NEW t \in Threads, RemoveValue(t)
  PROVE  AddsUp' /\ AbstractStep
<1> DEFINE k == loc[t].key
<1>1. /\ pc[t] = "removeValue" /\ UNCHANGED <<meta, leaked, clock, faults, op, answer, before>>
      /\ Orphan(t, loc[t])
  BY DEF RemoveValue, Goto
<1>2. /\ Moved(t) /\ pc'[t] = "removeMeta" /\ value' = [value EXCEPT ![k] = Missing]
  BY ValueRemoved DEF Sound
<1>3. Excluding(t) /\ op[t] \in Op /\ k \in Keys
  BY <1>1, Remover
<1>4. loc'[t] = loc[t]
  BY <1>1 DEF Orphan
<1>5. CASE op[t].kind = "delete"
  <2>1. DeleteSoFar(t) /\ k = op[t].key
    BY <1>1, <1>5, Remover
  <2>2. meta = Seen.stamp /\ value = Seen.val
    BY <1>1, <2>1 DEF DeleteSoFar
  <2>3. Seen' = Seen
    BY <1>1, <1>3, SeenKept
  <2>4. DeleteSoFar(t)'
    BY <1>1, <1>2, <2>1, <2>2, <2>3 DEF DeleteSoFar
  <2>5. SoFar(t)'
    BY <1>1, <1>5, <2>4 DEF SoFar
  <2> QED  BY <1>1, <1>2, <1>3, <2>5, Inside
<1>6. CASE op[t].kind = "gc"
  <2>1. CollectSoFar(t)
    BY <1>1, <1>6, Remover
  <2>2. PICK R \in SUBSET {j \in Abstract!Stored : Abstract!Expired(j)} : \E S \in SUBSET R :
          /\ value = [j \in Keys |-> IF j \in R THEN Missing ELSE Seen.val[j]]
          /\ meta = [j \in Keys |-> IF j \in S THEN NoStamp ELSE Seen.stamp[j]]
          /\ loc[t].todo \subseteq Abstract!Stored \ R
          /\ k \in Abstract!Stored /\ Abstract!Expired(k)
          /\ k \notin loc[t].todo
          /\ faults > 0 \/ R = S
    BY <1>1, <2>1 DEF CollectSoFar
  <2>3. PICK S \in SUBSET R :
          /\ meta = [j \in Keys |-> IF j \in S THEN NoStamp ELSE Seen.stamp[j]]
          /\ faults > 0 \/ R = S
    BY <2>2
  <2> DEFINE Q == R \cup {k}
  <2>4. S \in SUBSET Q /\ Q \subseteq Abstract!Stored /\ \A j \in Q : Abstract!Expired(j)
    BY <2>2, <2>3
  <2>5. value' = [j \in Keys |-> IF j \in Q THEN Missing ELSE Seen.val[j]]
    BY <1>2, <1>3, <2>2
  <2>6. /\ loc'[t].todo \subseteq Abstract!Stored \ Q /\ loc'[t].key \in Q
        /\ loc'[t].key \notin loc'[t].todo
    BY <1>4, <2>2
  <2>7. faults' > 0 \/ Q = S \cup {loc'[t].key}
    BY <1>1, <1>4, <2>3
  <2>8. meta' = [j \in Keys |-> IF j \in S THEN NoStamp ELSE Seen.stamp[j]]
    BY <1>1, <2>3
  <2> HIDE DEF Q
  <2>9. AddsUp' /\ Seen' = Seen /\ SettledAnswer' = SettledAnswer
    BY <1>1, <1>2, <1>3, <1>6, <2>4, <2>5, <2>6, <2>7, <2>8, CollectGoesOn
  <2> QED  BY <1>1, <2>9, Stutter
<1> QED  BY <1>1, <1>5, <1>6, Remover

\* A delete ends, with the metadata gone or, after a fault, not.
LEMMA DeleteEnds ==
  ASSUME Sole, IInv, IInv', AddsUp, NEW t \in Threads, pc[t] = "removeMeta",
         op[t].kind = "delete", Return(t, "ok"), UNCHANGED <<value, leaked, clock>>,
         faults' \in {faults, faults + 1}, NEW S \in SUBSET {op[t].key},
         meta' = [j \in Keys |-> IF j \in S THEN NoStamp ELSE meta[j]],
         faults' > 0 \/ S = {op[t].key}
  PROVE  AddsUp' /\ AbstractStep
<1> DEFINE none == [j \in Keys |-> Missing]
           k == op[t].key
<1>1. Excluding(t) /\ op[t] \in Op /\ k \in Keys /\ DeleteSoFar(t)
  BY Remover
<1>2. meta = Seen.stamp /\ value = [Seen.val EXCEPT ![k] = Missing]
  BY <1>1 DEF DeleteSoFar
<1>3. ReturnFound(t, "ok", none)
  BY DEF Return
<1>4. \A j \in Keys : meta'[j] # NoStamp => meta'[j] <= clock
  BY DEF AddsUp
<1>5. faults \in Nat /\ faults' \in Nat /\ faults' >= faults
  BY DEF IInv, TypeOK
<1>6. /\ AddsUp' /\ Seen' = [val |-> value', stamp |-> meta']
      /\ SettledAnswer' =
           [SettledAnswer EXCEPT ![t] = [op |-> op[t], result |-> [is |-> "ok", at |-> none]]]
  <2> HIDE DEF none
  <2> QED  BY <1>1, <1>3, <1>4, <1>5, Over
<1>7. Abstract!Answer(t, op[t], "ok")
  BY <1>6 DEF Abstract!Answer, Abstract!AnswerWith
<1>8. Seen.val' = [j \in Keys |-> IF j \in {k} THEN Missing ELSE Seen.val[j]]
  <2> DEFINE f == Seen.val
  <2>1. f \in [Keys -> Value \cup {Missing}]
    BY SeenTyped
  <2>2. Seen.val' = [f EXCEPT ![k] = Missing]
    BY <1>2, <1>6
  <2>3. [f EXCEPT ![k] = Missing] = [j \in Keys |-> IF j \in {k} THEN Missing ELSE f[j]]
    <3> HIDE DEF f, k
    <3> QED  BY <2>1
  <2> QED  BY <2>2, <2>3
<1>9. Seen.stamp' = [j \in Keys |-> IF j \in S THEN NoStamp ELSE Seen.stamp[j]]
  BY <1>2, <1>6
<1>10. Abstract!Removes({k})
  BY <1>8, <1>9 DEF Abstract!Removes
<1>11. op[t] \in Abstract!Op
  BY <1>1 DEF Op, Abstract!Op
<1>12. Abstract!Delete(t)
  BY <1>7, <1>10, <1>11 DEF Abstract!Delete
<1> QED  BY <1>6, <1>12 DEF AbstractStep, Abstract!Next

LEMMA RemoveMetaRefines ==
  ASSUME Sole, IInv, IInv', AddsUp, NEW t \in Threads, RemoveMeta(t)
  PROVE  AddsUp' /\ AbstractStep
<1> DEFINE k == loc[t].key
<1>1. /\ pc[t] = "removeMeta" /\ UNCHANGED <<value, leaked, clock, faults>>
      /\ meta' = [meta EXCEPT ![k] = NoStamp] /\ AfterRemoval(t)
  BY DEF RemoveMeta
<1>2. Moved(t)
  BY MetaRemoved DEF Sound
<1>3. Excluding(t) /\ op[t] \in Op /\ k \in Keys /\ meta \in [Keys -> Stamp \cup {NoStamp}]
  BY <1>1, Remover DEF IInv, TypeOK
<1>4. CASE op[t].kind = "delete"
  <2>1. k = op[t].key /\ Return(t, "ok")
    BY <1>1, <1>4, Remover DEF AfterRemoval
  <2> DEFINE S == {k}
  <2>2. meta' = [j \in Keys |-> IF j \in S THEN NoStamp ELSE meta[j]]
    <3> HIDE DEF k
    <3> QED  BY <1>1, <1>3
  <2>3. S \in SUBSET {op[t].key} /\ S = {op[t].key}
    BY <2>1
  <2> HIDE DEF S
  <2> QED  BY <1>1, <1>4, <2>1, <2>2, <2>3, DeleteEnds
<1>5. CASE op[t].kind = "gc"
  <2>1. pc' = [pc EXCEPT ![t] = "visit"] /\ UNCHANGED <<op, loc, answer, before>>
    BY <1>1, <1>5 DEF AfterRemoval
  <2>2. pc'[t] = "visit"
    BY <2>1 DEF IInv, TypeOK
  <2>3. CollectSoFar(t)
    BY <1>1, <1>5, Remover
  <2>4. PICK R \in SUBSET {j \in Abstract!Stored : Abstract!Expired(j)} : \E S \in SUBSET R :
          /\ value = [j \in Keys |-> IF j \in R THEN Missing ELSE Seen.val[j]]
          /\ meta = [j \in Keys |-> IF j \in S THEN NoStamp ELSE Seen.stamp[j]]
          /\ loc[t].todo \subseteq Abstract!Stored \ R
          /\ k \in R
          /\ faults > 0 \/ R = S \cup {k}
    BY <1>1, <2>3 DEF CollectSoFar
  <2>5. PICK S \in SUBSET R :
          /\ meta = [j \in Keys |-> IF j \in S THEN NoStamp ELSE Seen.stamp[j]]
          /\ faults > 0 \/ R = S \cup {k}
    BY <2>4
  <2> DEFINE Q == S \cup {k}
  <2>6. Q \in SUBSET R
    BY <2>4
  <2>7. meta' = [j \in Keys |-> IF j \in Q THEN NoStamp ELSE Seen.stamp[j]]
    BY <1>1, <1>3, <2>5
  <2>8. faults' > 0 \/ R = Q
    BY <1>1, <2>5
  <2>9. \A j \in Keys : meta'[j] \in {meta[j], NoStamp}
    BY <1>1, <1>3
  <2> HIDE DEF Q
  <2>10. AddsUp' /\ Seen' = Seen /\ SettledAnswer' = SettledAnswer
    BY <1>1, <1>2, <1>3, <1>5, <2>1, <2>2, <2>4, <2>6, <2>7, <2>8, <2>9, CollectGoesOn
  <2> QED  BY <1>1, <2>10, Stutter
<1> QED  BY <1>1, <1>4, <1>5, Remover

\* A call that lists the keys or visits them.
LEMMA Visitor ==
  ASSUME Sole, IInv, AddsUp, NEW t \in Threads, pc[t] \in {"list", "visit"}
  PROVE  /\ op[t] \in Op /\ loc[t] \in Local
         /\ \/ op[t].kind = "gc" /\ Excluding(t) /\ CollectSoFar(t)
            \/ op[t].kind = "search" /\ Shared(op[t]) /\ SearchSoFar(t)
<1>1. op[t] \in Op /\ pc[t] \in StepsOf(op[t].kind) /\ loc[t] \in Local
  BY DEF IInv, AtWork, TypeOK
<1>2. op[t].kind \in {"search", "gc"}
  <2>1. op[t].kind \notin {"write", "append", "read", "delete"}
    BY <1>1 DEF StepsOf
  <2> QED  BY <1>1, <2>1, Ops
<1>3. CASE op[t].kind = "gc"
  <2>1. Excluding(t)
    BY <1>3 DEF Excluding, Shared
  <2>2. SoFar(t)
    BY <2>1 DEF AddsUp
  <2> QED  BY <1>1, <1>3, <2>1, <2>2 DEF SoFar
<1>4. CASE op[t].kind = "search"
  BY <1>1, <1>4 DEF AddsUp, Shared
<1> QED  BY <1>2, <1>3, <1>4

LEMMA ListRefines ==
  ASSUME Sole, IInv, IInv', AddsUp, NEW t \in Threads, ListKeys(t)
  PROVE  AddsUp' /\ AbstractStep
<1>1. /\ pc[t] = "list" /\ UNCHANGED <<value, meta, leaked, clock, faults>>
      /\ UNCHANGED <<op, answer, before>> /\ pc' = [pc EXCEPT ![t] = "visit"]
  BY DEF ListKeys, Goto, files
<1>2. pc'[t] = "visit" /\ Moved(t)
  BY KeysListed DEF Sound
<1>3. loc'[t].todo = Listed /\ loc'[t].found = loc[t].found /\ Untouched(t)
  <2> DEFINE n == Listed
  <2> HIDE DEF n
  <2>1. loc' = [loc EXCEPT ![t].todo = n]
    BY DEF ListKeys, n
  <2>2. loc'[t].todo = n /\ loc'[t].found = loc[t].found
    BY <2>1 DEF IInv, TypeOK, Local
  <2>3. Untouched(t)
    BY <1>1, <2>1 DEF Untouched, IInv, TypeOK
  <2> QED  BY <2>2, <2>3 DEF n
<1>4. CASE op[t].kind = "gc" /\ Excluding(t) /\ CollectSoFar(t)
  <2>1. PICK R \in SUBSET {j \in Abstract!Stored : Abstract!Expired(j)} : \E S \in SUBSET R :
          /\ value = [j \in Keys |-> IF j \in R THEN Missing ELSE Seen.val[j]]
          /\ meta = [j \in Keys |-> IF j \in S THEN NoStamp ELSE Seen.stamp[j]]
          /\ R = {}
    BY <1>1, <1>4 DEF CollectSoFar
  <2>2. PICK S \in SUBSET R : meta = [j \in Keys |-> IF j \in S THEN NoStamp ELSE Seen.stamp[j]]
    BY <2>1
  <2>3. S = R
    BY <2>1
  <2>4. \A k \in Keys : value[k] = Seen.val[k]
    BY <2>1
  <2>5. Listed = Abstract!Stored \ R
    BY <2>1, <2>4 DEF Listed, Abstract!Stored
  <2>6. /\ \A j \in Keys : meta'[j] \in {meta[j], NoStamp}
        /\ value' = [j \in Keys |-> IF j \in R THEN Missing ELSE Seen.val[j]]
        /\ meta' = [j \in Keys |-> IF j \in S THEN NoStamp ELSE Seen.stamp[j]]
    BY <1>1, <2>1, <2>2
  <2>7. R \subseteq Abstract!Stored /\ \A j \in R : Abstract!Expired(j)
    BY <2>1
  <2>8. loc'[t].todo \subseteq Abstract!Stored \ R
    BY <1>3, <2>5
  <2>9. AddsUp' /\ Seen' = Seen /\ SettledAnswer' = SettledAnswer
    BY <1>1, <1>2, <1>4, <2>2, <2>3, <2>6, <2>7, <2>8, CollectGoesOn
  <2> QED  BY <1>1, <2>9, Stutter
<1>5. CASE op[t].kind = "search" /\ Shared(op[t]) /\ SearchSoFar(t)
  <2>1. loc[t].found = [k \in Keys |-> Missing]
    BY <1>1, <1>5 DEF SearchSoFar
  <2>2. \A k \in Keys \ loc'[t].todo : loc'[t].found[k] = value[k]
    BY <1>3, <2>1 DEF Listed
  <2>3. SearchSoFar(t)'
    BY <1>1, <1>2, <2>2 DEF SearchSoFar
  <2>4. faults \in Nat /\ faults' \in Nat /\ faults' >= faults
    BY <1>1 DEF IInv, TypeOK
  <2>5. /\ AddsUp' /\ Seen' = Seen
        /\ \A u \in Threads \ {t} : Settled(u)' = Settled(u)
    BY <1>1, <1>2, <1>3, <1>5, <2>3, <2>4, Sharing
  <2>6. Settled(t)' = Settled(t)
    BY <1>1, <1>2 DEF Settled
  <2>7. SettledAnswer' = SettledAnswer
    BY <2>5, <2>6 DEF SettledAnswer
  <2> QED  BY <1>1, <2>5, <2>7, Stutter
<1> QED  BY <1>1, <1>4, <1>5, Visitor

\* A call that shares the lock returns.
LEMMA SharedReturn ==
  ASSUME Sole, IInv, IInv', AddsUp, NEW t \in Threads, pc[t] # "idle", Shared(op[t]),
         NEW is, NEW at, ReturnFound(t, is, at), UNCHANGED <<value, meta, leaked, clock>>,
         faults' \in {faults, faults + 1}
  PROVE  /\ AddsUp' /\ Seen' = Seen /\ Seen = [val |-> value, stamp |-> meta]
         /\ SettledAnswer' =
              [SettledAnswer EXCEPT ![t] = [op |-> op[t], result |-> [is |-> is, at |-> at]]]
         /\ Settled(t)' = [op |-> op[t], result |-> [is |-> is, at |-> at]]
         /\ \A u \in Threads \ {t} : Settled(u)' = Settled(u)
<1> DEFINE r == [op |-> op[t], result |-> [is |-> is, at |-> at]]
<1>1. Untouched(t) /\ pc'[t] = "idle" /\ before' = before /\ answer'[t] = r
  BY ReturnUntouched
<1>2. faults \in Nat /\ faults' \in Nat /\ faults' >= faults
  BY DEF IInv, TypeOK
<1> HIDE DEF r
<1>3. /\ AddsUp' /\ Seen' = Seen /\ Seen = [val |-> value, stamp |-> meta]
      /\ \A u \in Threads \ {t} : Settled(u)' = Settled(u)
  BY <1>1, <1>2, Sharing
<1>4. Settled(t)' = r
  BY <1>1 DEF Settled
<1>5. SettledAnswer' = [SettledAnswer EXCEPT ![t] = r]
  BY <1>3, <1>4, Answered
<1> QED  BY <1>3, <1>4, <1>5 DEF r

LEMMA ScanRefines ==
  ASSUME Sole, IInv, IInv', AddsUp, NEW t \in Threads, Scan(t)
  PROVE  AddsUp' /\ AbstractStep
<1>1. /\ pc[t] = "visit" /\ op[t].kind = "search"
      /\ UNCHANGED <<value, meta, leaked, clock, faults>>
  BY DEF Scan, files
<1>2. op[t] \in Op /\ loc[t] \in Local /\ Shared(op[t]) /\ SearchSoFar(t)
  BY <1>1, Visitor
<1>3. \A k \in Keys \ loc[t].todo : loc[t].found[k] = value[k]
  BY <1>1, <1>2 DEF SearchSoFar
<1>4. ASSUME NEW k \in loc[t].todo,
             loc' = [loc EXCEPT ![t].todo = @ \ {k}, ![t].found[k] = value[k]],
             UNCHANGED <<pc, op, answer, before>>
      PROVE  AddsUp' /\ AbstractStep
  <2> DEFINE l == loc[t]
             d == l.todo \ {k}
             f == [l.found EXCEPT ![k] = value[k]]
  <2>1. loc' = [loc EXCEPT ![t] = [l EXCEPT !.todo = d, !.found = f]]
    BY <1>2, <1>4 DEF IInv, TypeOK, Local
  <2>2. l.found \in [Keys -> Value \cup {Missing}]
    BY <1>2 DEF Local
  <2>3. \A j \in Keys \ d : f[j] = value[j]
    BY <1>3, <2>2
  <2>4. l \in Local
    BY <1>2
  <2> HIDE DEF d, f, l
  <2>5. loc'[t].todo = d /\ loc'[t].found = f
    BY <2>1, <2>4 DEF IInv, TypeOK, Local
  <2>6. Untouched(t)
    BY <1>4, <2>1 DEF Untouched, IInv, TypeOK
  <2>7. SearchSoFar(t)'
    BY <1>1, <1>4, <2>3, <2>5 DEF SearchSoFar
  <2>8. faults \in Nat /\ faults' \in Nat /\ faults' >= faults
    BY <1>1 DEF IInv, TypeOK
  <2>9. /\ AddsUp' /\ Seen' = Seen
        /\ \A u \in Threads \ {t} : Settled(u)' = Settled(u)
    BY <1>1, <1>2, <1>4, <2>6, <2>7, <2>8, Sharing
  <2>10. Settled(t)' = Settled(t)
    BY <1>1, <1>4 DEF Settled
  <2>11. SettledAnswer' = SettledAnswer
    BY <2>9, <2>10 DEF SettledAnswer
  <2> QED  BY <1>1, <2>9, <2>11, Stutter
<1>5. ASSUME loc[t].todo = {}, ReturnFound(t, "found", loc[t].found)
      PROVE  AddsUp' /\ AbstractStep
  <2>1. loc[t].found = value
    <3> DEFINE f == loc[t].found
    <3>1. f \in [Keys -> Value \cup {Missing}] /\ \A k \in Keys : f[k] = value[k]
      BY <1>2, <1>3, <1>5 DEF Local
    <3>2. value \in [Keys -> Value \cup {Missing}]
      BY DEF IInv, TypeOK
    <3> HIDE DEF f
    <3>3. f = value
      BY <3>1, <3>2
    <3> QED  BY <3>3 DEF f
  <2>2. ReturnFound(t, "found", value)
    BY <1>5, <2>1
  <2>3. faults' \in {faults, faults + 1} /\ pc[t] # "idle"
    BY <1>1
  <2>4. /\ AddsUp' /\ Seen' = Seen /\ Seen = [val |-> value, stamp |-> meta]
        /\ SettledAnswer' =
             [SettledAnswer EXCEPT ![t] = [op |-> op[t], result |-> [is |-> "found", at |-> value]]]
    BY <1>1, <1>2, <2>2, <2>3, SharedReturn
  <2>5. Abstract!AnswerWith(t, op[t], "found", Seen.val)
    BY <2>4 DEF Abstract!AnswerWith
  <2>6. op[t] \in Abstract!Op
    BY <1>2 DEF Op, Abstract!Op
  <2>7. Abstract!Search(t)
    BY <1>1, <2>4, <2>5, <2>6 DEF Abstract!Search
  <2> QED  BY <2>4, <2>7 DEF AbstractStep, Abstract!Next
<1> QED  BY <1>4, <1>5 DEF Scan

\* A collection ends: what it has removed had expired.
LEMMA CollectRefines ==
  ASSUME Sole, IInv, IInv', AddsUp, NEW t \in Threads, Collect(t)
  PROVE  AddsUp' /\ AbstractStep
<1> DEFINE none == [j \in Keys |-> Missing]
<1>1. /\ pc[t] = "visit" /\ op[t].kind = "gc"
      /\ UNCHANGED <<value, meta, leaked, clock, faults>>
  BY DEF Collect, files
<1>2. Moved(t)
  BY Collected DEF Sound
<1>3. op[t] \in Op /\ loc[t] \in Local /\ Excluding(t) /\ CollectSoFar(t)
  BY <1>1, Visitor
<1>4. PICK R \in SUBSET {j \in Abstract!Stored : Abstract!Expired(j)} : \E S \in SUBSET R :
          /\ value = [j \in Keys |-> IF j \in R THEN Missing ELSE Seen.val[j]]
          /\ meta = [j \in Keys |-> IF j \in S THEN NoStamp ELSE Seen.stamp[j]]
          /\ loc[t].todo \subseteq Abstract!Stored \ R
          /\ faults > 0 \/ R = S
  BY <1>1, <1>3 DEF CollectSoFar
<1>5. PICK S \in SUBSET R :
          /\ meta = [j \in Keys |-> IF j \in S THEN NoStamp ELSE Seen.stamp[j]]
          /\ faults > 0 \/ R = S
  BY <1>4
<1>6. value = [j \in Keys |-> IF j \in R THEN Missing ELSE Seen.val[j]]
      /\ loc[t].todo \subseteq Abstract!Stored \ R
  BY <1>4
<1>7. R \subseteq Abstract!Stored /\ \A j \in R : Abstract!Expired(j)
  BY <1>4
<1>8. ASSUME NEW k \in loc[t].todo,
             loc' = [loc EXCEPT ![t].todo = @ \ {k}, ![t].key = k],
             pc' = [pc EXCEPT ![t] = IF Expired(k) THEN "removeValue" ELSE "visit"],
             UNCHANGED <<op, answer, before>>
      PROVE  AddsUp' /\ AbstractStep
  <2> DEFINE l == loc[t]
             d == l.todo \ {k}
  <2>1. loc' = [loc EXCEPT ![t] = [l EXCEPT !.todo = d, !.key = k]]
    BY <1>3, <1>8 DEF IInv, TypeOK, Local
  <2>2. l \in Local /\ k \notin d /\ d \subseteq Abstract!Stored \ R
    BY <1>3, <1>6
  <2> HIDE DEF d, l
  <2>3. loc'[t].todo = d /\ loc'[t].key = k
    BY <2>1, <2>2 DEF IInv, TypeOK, Local
  <2>4. pc'[t] = IF Expired(k) THEN "removeValue" ELSE "visit"
    BY <1>8 DEF IInv, TypeOK
  <2>5. k \in Abstract!Stored \ R /\ k \in Keys
    BY <1>6, <1>8 DEF Abstract!Stored
  <2>6. meta[k] = Seen.stamp[k]
    BY <1>5, <2>5
  <2>7. Expired(k) => Abstract!Expired(k)
    BY <2>6 DEF Expired, Abstract!Expired
  <2>8. op'[t] = op[t] /\ pc'[t] # "idle" /\ pc'[t] # "list" /\ pc'[t] # "removeMeta"
    BY <1>8, <2>4
  <2>9. AddsUp' /\ Seen' = Seen /\ SettledAnswer' = SettledAnswer
    <3>1. /\ value' = [j \in Keys |-> IF j \in R THEN Missing ELSE Seen.val[j]]
          /\ meta' = [j \in Keys |-> IF j \in S THEN NoStamp ELSE Seen.stamp[j]]
          /\ UNCHANGED <<before, answer, leaked, clock>>
          /\ faults' \in {faults, faults + 1} /\ \A j \in Keys : meta'[j] \in {meta[j], NoStamp}
      BY <1>1, <1>5, <1>6, <1>8
    <3>2. /\ loc'[t].todo \subseteq Abstract!Stored \ R
          /\ loc'[t].key \notin loc'[t].todo
          /\ pc'[t] = "removeValue" =>
               loc'[t].key \in Abstract!Stored /\ Abstract!Expired(loc'[t].key)
      BY <2>2, <2>3, <2>4, <2>5, <2>7
    <3>3. faults' > 0 \/ R = S
      BY <1>1, <1>5
    <3> QED  BY <1>1, <1>2, <1>3, <1>7, <2>8, <3>1, <3>2, <3>3, CollectGoesOn
  <2> QED  BY <1>1, <2>9, Stutter
<1>9. ASSUME Return(t, "ok") PROVE AddsUp' /\ AbstractStep
  <2>1. ReturnFound(t, "ok", none)
    BY <1>9 DEF Return
  <2>2. \A k \in Keys : meta'[k] # NoStamp => meta'[k] <= clock
    BY <1>1 DEF AddsUp
  <2>3. faults \in Nat /\ faults' \in Nat /\ faults' >= faults
    BY <1>1 DEF IInv, TypeOK
  <2>4. /\ AddsUp' /\ Seen' = [val |-> value', stamp |-> meta']
        /\ SettledAnswer' =
             [SettledAnswer EXCEPT ![t] = [op |-> op[t], result |-> [is |-> "ok", at |-> none]]]
    <3> HIDE DEF none
    <3> QED  BY <1>1, <1>3, <2>1, <2>2, <2>3, Over
  <2>5. Abstract!Answer(t, op[t], "ok")
    BY <2>4 DEF Abstract!Answer, Abstract!AnswerWith
  <2>6. Seen.val' = [j \in Keys |-> IF j \in R THEN Missing ELSE Seen.val[j]]
    BY <1>1, <1>6, <2>4
  <2>7. Seen.stamp' = [j \in Keys |-> IF j \in S THEN NoStamp ELSE Seen.stamp[j]]
    BY <1>1, <1>5, <2>4
  <2>8. faults' > 0 \/ S = R
    BY <1>1, <1>5
  <2>9. Abstract!Removes(R)
    BY <2>6, <2>7, <2>8 DEF Abstract!Removes
  <2>10. op[t] \in Abstract!Op
    BY <1>3 DEF Op, Abstract!Op
  <2>11. Abstract!Collect(t)
    BY <1>1, <2>5, <2>9, <2>10 DEF Abstract!Collect
  <2> QED  BY <2>4, <2>11 DEF AbstractStep, Abstract!Next
<1> QED  BY <1>8, <1>9 DEF Collect

\* A read has its answer once it has found its key not expired.
LEMMA ReadRefines ==
  ASSUME Sole, IInv, IInv', AddsUp, NEW t \in Threads, CheckExpired(t) \/ ReadValue(t)
  PROVE  AddsUp' /\ AbstractStep
<1> DEFINE k == loc[t].key
           none == [j \in Keys |-> Missing]
<1>1. /\ pc[t] \in {"check", "read"} /\ pc[t] # "idle"
      /\ UNCHANGED <<value, meta, leaked, clock, faults>>
  BY DEF CheckExpired, ReadValue, files
<1>2. op[t] \in Op /\ op[t].kind = "read" /\ op[t].key = k /\ Shared(op[t])
  <2>1. /\ op[t] \in Op /\ pc[t] \in StepsOf(op[t].kind)
        /\ op[t].kind \notin {"search", "gc"} => k = op[t].key
    BY <1>1 DEF IInv, AtWork
  <2>2. op[t].kind \notin {"write", "append", "delete", "search", "gc"}
    BY <1>1, <2>1 DEF StepsOf
  <2> QED  BY <2>1, <2>2, Ops DEF Shared
<1>3. faults' \in {faults, faults + 1} /\ faults \in Nat /\ faults' \in Nat /\ faults' >= faults
  BY <1>1 DEF IInv, TypeOK
<1>4. op[t] \in Abstract!Op
  BY <1>2 DEF Op, Abstract!Op
<1>5. ASSUME Expired(k), Return(t, "expired") PROVE AddsUp' /\ AbstractStep
  <2>1. ReturnFound(t, "expired", none)
    BY <1>5 DEF Return
  <2>2. /\ AddsUp' /\ Seen' = Seen /\ Seen = [val |-> value, stamp |-> meta]
        /\ SettledAnswer' =
             [SettledAnswer EXCEPT ![t] = [op |-> op[t], result |-> [is |-> "expired", at |-> none]]]
    <3> HIDE DEF none
    <3> QED  BY <1>1, <1>2, <1>3, <2>1, SharedReturn
  <2>3. Abstract!Answer(t, op[t], "expired")
    BY <2>2 DEF Abstract!Answer, Abstract!AnswerWith
  <2>4. Abstract!Expired(op[t].key)
    BY <1>2, <1>5, <2>2 DEF Expired, Abstract!Expired
  <2>5. Abstract!Read(t)
    BY <1>1, <1>2, <1>4, <2>2, <2>3, <2>4 DEF Abstract!Read
  <2> QED  BY <2>2, <2>5 DEF AbstractStep, Abstract!Next
<1>6. ASSUME pc[t] = "check", ~Expired(k), pc' = [pc EXCEPT ![t] = "read"],
             UNCHANGED <<op, loc, answer, before>>
      PROVE  AddsUp' /\ AbstractStep
  <2> DEFINE at == Only(k, value[k])
             r == [op |-> op[t], result |-> [is |-> "found", at |-> at]]
  <2>1. pc'[t] = "read" /\ op'[t] = op[t] /\ Untouched(t)
    BY <1>6 DEF Untouched, IInv, TypeOK
  <2>2. /\ AddsUp' /\ Seen' = Seen /\ Seen = [val |-> value, stamp |-> meta]
        /\ \A u \in Threads \ {t} : Settled(u)' = Settled(u)
    BY <1>1, <1>2, <1>3, <1>6, <2>1, Sharing
  <2>3. Only(k, value[k])' = at
    BY <1>1, <1>6 DEF Only
  <2>4. Settled(t)' = r
    BY <1>1, <1>6, <2>1, <2>3 DEF Settled
  <2>5. at = [j \in Keys |-> IF j = op[t].key THEN Seen.val[j] ELSE Missing]
    BY <1>2, <2>2 DEF Only
  <2> HIDE DEF at
  <2>6. SettledAnswer' = [SettledAnswer EXCEPT ![t] = r]
    <3> HIDE DEF r
    <3> QED  BY <2>2, <2>4, Answered
  <2>7. Abstract!AnswerWith(t, op[t], "found", at)
    BY <2>6 DEF Abstract!AnswerWith
  <2>8. ~Abstract!Expired(op[t].key)
    BY <1>2, <1>6, <2>2 DEF Expired, Abstract!Expired
  <2>9. Abstract!Read(t)
    BY <1>1, <1>2, <1>4, <2>2, <2>5, <2>7, <2>8 DEF Abstract!Read
  <2> QED  BY <2>2, <2>9 DEF AbstractStep, Abstract!Next
<1>7. ASSUME ReadValue(t) PROVE AddsUp' /\ AbstractStep
  <2> DEFINE at == Only(k, value[k])
  <2>1. ReturnFound(t, "found", at) /\ pc[t] = "read"
    BY <1>7 DEF ReadValue
  <2>2. Settled(t) = [op |-> op[t], result |-> [is |-> "found", at |-> at]]
    BY <2>1 DEF Settled
  <2> HIDE DEF at
  <2>3. /\ AddsUp' /\ Seen' = Seen
        /\ Settled(t)' = [op |-> op[t], result |-> [is |-> "found", at |-> at]]
        /\ \A u \in Threads \ {t} : Settled(u)' = Settled(u)
    BY <1>1, <1>2, <1>3, <2>1, SharedReturn
  <2>4. SettledAnswer' = SettledAnswer
    <3>1. \A u \in Threads : Settled(u)' = Settled(u)
      BY <2>2, <2>3
    <3> QED  BY <3>1 DEF SettledAnswer
  <2> QED  BY <1>1, <2>3, <2>4, Stutter
<1> QED  BY <1>5, <1>6, <1>7 DEF CheckExpired

\* What a call that is cut short leaves of its work.
HalfWritten(o) ==
  \E v \in {<<>>, Abstract!NewValue(o)} :
    /\ v # Abstract!NewValue(o) => Seen.val[o.key] = Missing /\ o.kind = "append"
    /\ Abstract!Fits(o.key, Len(v))
    /\ value = [Seen.val EXCEPT ![o.key] = v] /\ meta = Seen.stamp

HalfRemoved(R) ==
  \E S \in SUBSET R :
    /\ value = [k \in Keys |-> IF k \in R THEN Missing ELSE Seen.val[k]]
    /\ meta = [k \in Keys |-> IF k \in S THEN NoStamp ELSE Seen.stamp[k]]

HalfDone ==
  \/ \E o \in Op : o.kind \in {"write", "append"} /\ HalfWritten(o)
  \/ \E R \in {{k} : k \in Keys} \cup SUBSET {k \in Abstract!Stored : Abstract!Expired(k)} :
       HalfRemoved(R)
  \/ value = Seen.val /\ meta = Seen.stamp

LEMMA FitsEmpty ==
  ASSUME NEW k \in Keys, NEW n \in Nat, Abstract!Fits(k, n), Sole, IInv
  PROVE  Abstract!Fits(k, 0)
<1> DEFINE rest == Abstract!TotalOf(Seen.val, Keys \ {k})
<1>1. rest \in Nat
  <2> DEFINE g == [j \in Keys \ {k} |-> Abstract!Size(Seen.val[j])]
  <2>1. \A j \in Keys \ {k} : g[j] \in Nat
    <3> SUFFICES ASSUME NEW j \in Keys \ {k} PROVE g[j] \in Nat
      OBVIOUS
    <3>1. Seen.val[j] \in Value \cup {Missing}
      BY SeenTyped
    <3>2. Size(Seen.val[j]) \in Nat
      BY <3>1, Sizes
    <3> QED  BY <3>2 DEF Size, Abstract!Size
  <2>2. rest = Abstract!Tally(g, Keys \ {k})
    BY DEF Abstract!TotalOf
  <2> HIDE DEF g, rest
  <2>3. Abstract!Units(g, Keys \ {k}) = Units(g, Keys \ {k})
    BY DEF Abstract!Units, Units
  <2>4. Abstract!Tally(g, Keys \ {k}) = Tally(g, Keys \ {k})
    BY <2>3, Zenon DEF Abstract!Tally, Tally, Abstract!Cardinality, Cardinality
  <2>5. IsFiniteSet(Keys \ {k})
    BY FS_Subset, MemoryAssumption
  <2>6. Tally(g, Keys \ {k}) \in Nat
    BY <2>1, <2>5, UnitsFinite
  <2> QED  BY <2>2, <2>4, <2>6
<1>2. Within(MaxTotal, rest + n) /\ Within(MaxValue, n)
  BY FitsMeans
<1>3. Within(MaxTotal, rest + 0) /\ Within(MaxValue, 0)
  <2> HIDE DEF rest
  <2> QED  BY <1>1, <1>2, Numbers DEF Within
<1> QED  BY <1>3, FitsMeans

\* A call leaves no more undone or half done than that.
LEMMA HalfDoneSoFar ==
  ASSUME Sole, IInv, AddsUp, NEW t \in Threads, Excluding(t)
  PROVE  HalfDone
<1> DEFINE k == op[t].key
           new == Abstract!NewValue(op[t])
           f == Seen.val
<1>1. /\ op[t] \in Op /\ op[t].kind \in {"write", "append", "delete", "gc"} /\ SoFar(t)
      /\ pc[t] \in StepsOf(op[t].kind)
      /\ op[t].kind # "gc" => k \in Keys
  BY Excluders DEF AddsUp
<1>2. CASE op[t].kind \in {"write", "append"}
  <2>1. WriteSoFar(t) /\ k \in Keys
    BY <1>1, <1>2 DEF SoFar
  <2>2. meta = Seen.stamp
    BY <2>1 DEF WriteSoFar
  <2>3. CASE pc[t] \in {"metaTemp", "metaRename"}
    <3>1. Abstract!Fits(k, Len(new)) /\ value = [f EXCEPT ![k] = new]
      BY <2>1, <2>3 DEF WriteSoFar
    <3>2. HalfWritten(op[t])
      BY <2>2, <3>1 DEF HalfWritten
    <3> QED  BY <1>1, <1>2, <3>2 DEF HalfDone
  <2>4. CASE pc[t] = "append" /\ f[k] = Missing
    <3>1. Abstract!Fits(k, Len(new)) /\ value = [f EXCEPT ![k] = <<>>]
      BY <2>1, <2>4 DEF WriteSoFar
    <3>2. Len(new) \in Nat /\ op[t].kind = "append"
      BY <1>2, <2>4, NewLength, Writing
    <3>3. Abstract!Fits(k, 0)
      <4> DEFINE n == Len(new)
      <4> HIDE DEF n
      <4>1. n \in Nat /\ Abstract!Fits(k, n)
        BY <3>1, <3>2 DEF n
      <4> QED  BY <2>1, <4>1, FitsEmpty
    <3>4. Abstract!Fits(k, Len(<<>>))
      <4>1. Len(<<>>) = 0
        OBVIOUS
      <4> QED  BY <3>3, <4>1
    <3>5. /\ <<>> # new => f[k] = Missing /\ op[t].kind = "append"
          /\ Abstract!Fits(k, Len(<<>>))
          /\ value = [f EXCEPT ![k] = <<>>] /\ meta = Seen.stamp
      BY <2>2, <2>4, <3>1, <3>2, <3>4
    <3>6. HalfWritten(op[t])
      BY <3>5 DEF HalfWritten
    <3> QED  BY <1>1, <1>2, <3>6 DEF HalfDone
  <2>5. CASE pc[t] \notin {"metaTemp", "metaRename"} /\ ~(pc[t] = "append" /\ f[k] = Missing)
    <3>1. value = f
      BY <2>1, <2>5 DEF WriteSoFar
    <3> QED  BY <2>2, <3>1 DEF HalfDone
  <2> QED  BY <2>3, <2>4, <2>5
<1>3. CASE op[t].kind = "delete"
  <2>1. DeleteSoFar(t) /\ k \in Keys
    BY <1>1, <1>3 DEF SoFar
  <2>2. meta = Seen.stamp
    BY <2>1 DEF DeleteSoFar
  <2>3. CASE pc[t] = "removeMeta"
    <3> DEFINE R == {k}
               S == {}
    <3>1. value = [f EXCEPT ![k] = Missing]
      BY <2>1, <2>3 DEF DeleteSoFar
    <3>2. value = [j \in Keys |-> IF j \in R THEN Missing ELSE f[j]]
      <4>1. f \in [Keys -> Value \cup {Missing}]
        BY SeenTyped
      <4> HIDE DEF f, k
      <4> QED  BY <3>1, <4>1
    <3>3. meta = [j \in Keys |-> IF j \in S THEN NoStamp ELSE Seen.stamp[j]]
      <4> DEFINE g == Seen.stamp
      <4>1. g \in [Keys -> Stamp \cup {NoStamp}]
        BY SeenTyped
      <4>2. meta = g
        BY <2>2
      <4> HIDE DEF g
      <4>3. meta = [j \in Keys |-> IF j \in S THEN NoStamp ELSE g[j]]
        BY <4>1, <4>2
      <4> QED  BY <4>3 DEF g
    <3>4. R \in {{j} : j \in Keys}
      BY <2>1
    <3>5. S \in SUBSET R
      OBVIOUS
    <3> HIDE DEF R, S
    <3>6. HalfRemoved(R)
      BY <3>2, <3>3, <3>5 DEF HalfRemoved
    <3> QED  BY <3>4, <3>6 DEF HalfDone
  <2>4. CASE pc[t] # "removeMeta"
    <3>1. value = f
      BY <2>1, <2>4 DEF DeleteSoFar
    <3> QED  BY <2>2, <3>1 DEF HalfDone
  <2> QED  BY <2>3, <2>4
<1>4. CASE op[t].kind = "gc"
  <2>1. CollectSoFar(t)
    BY <1>1, <1>4 DEF SoFar
  <2>2. \E R \in SUBSET {j \in Abstract!Stored : Abstract!Expired(j)} : \E S \in SUBSET R :
          /\ value = [j \in Keys |-> IF j \in R THEN Missing ELSE Seen.val[j]]
          /\ meta = [j \in Keys |-> IF j \in S THEN NoStamp ELSE Seen.stamp[j]]
    BY <2>1 DEF CollectSoFar
  <2> QED  BY <2>2 DEF HalfDone, HalfRemoved
<1> QED  BY <1>1, <1>2, <1>3, <1>4

\* A call cut short, as the callers see it.
LEMMA CutShort ==
  ASSUME HalfDone, UNCHANGED <<value, meta, clock>>, faults' = faults + 1, faults \in Nat,
         Seen' = [val |-> value', stamp |-> meta'],
         \/ \E t \in Threads, o \in Op : Abstract!Answer(t, o, "failed")
         \/ SettledAnswer' = [t \in Threads |-> NoAnswer]
         \/ SettledAnswer' = SettledAnswer
  PROVE  AbstractStep
<1>1. Op = Abstract!Op
  BY DEF Op, Abstract!Op
<1>2. Seen.val' = value /\ Seen.stamp' = meta /\ faults' > 0
  OBVIOUS
<1>3. \/ \E o \in Abstract!Op :
           /\ o.kind \in {"write", "append"}
           /\ \E v \in {<<>>, Abstract!NewValue(o)} :
                /\ v # Abstract!NewValue(o) => Seen.val[o.key] = Missing /\ o.kind = "append"
                /\ Abstract!Fits(o.key, Len(v))
                /\ Seen.val' = [Seen.val EXCEPT ![o.key] = v]
                /\ Seen.stamp' = Seen.stamp
      \/ \E R \in {{k} : k \in Keys} \cup SUBSET {k \in Abstract!Stored : Abstract!Expired(k)} :
           Abstract!Removes(R)
      \/ Seen.val' = Seen.val /\ Seen.stamp' = Seen.stamp
  <2>1. CASE \E o \in Op : o.kind \in {"write", "append"} /\ HalfWritten(o)
    BY <1>1, <1>2, <2>1 DEF HalfWritten
  <2>2. CASE \E R \in {{k} : k \in Keys} \cup SUBSET {k \in Abstract!Stored : Abstract!Expired(k)} :
               HalfRemoved(R)
    BY <1>2, <2>2 DEF HalfRemoved, Abstract!Removes
  <2>3. CASE value = Seen.val /\ meta = Seen.stamp
    BY <1>2, <2>3
  <2> QED  BY <2>1, <2>2, <2>3 DEF HalfDone
<1>4. Abstract!Interrupt
  BY <1>1, <1>3 DEF Abstract!Interrupt
<1> QED  BY <1>4 DEF AbstractStep, Abstract!Next

\* A call that fails and says so.
LEMMA FailureRefines ==
  ASSUME Sole, IInv, IInv', AddsUp, NEW t \in Threads, pc[t] # "idle", Return(t, "failed"),
         UNCHANGED <<value, meta, leaked, clock>>, faults' = faults + 1
  PROVE  AddsUp' /\ AbstractStep
<1> DEFINE none == [k \in Keys |-> Missing]
<1>1. ReturnFound(t, "failed", none) /\ op[t] \in Op
  BY DEF Return, IInv, AtWork
<1>2. faults \in Nat /\ faults' \in Nat /\ faults' >= faults /\ faults' \in {faults, faults + 1}
  BY DEF IInv, TypeOK
<1>3. /\ AddsUp' /\ Seen' = [val |-> value', stamp |-> meta'] /\ HalfDone
      /\ SettledAnswer' =
           [SettledAnswer EXCEPT ![t] = [op |-> op[t], result |-> [is |-> "failed", at |-> none]]]
  <2> HIDE DEF none
  <2>1. CASE Excluding(t)
    <3>1. \A k \in Keys : meta'[k] # NoStamp => meta'[k] <= clock
      BY DEF AddsUp
    <3>2. HalfDone
      BY <2>1, HalfDoneSoFar
    <3> QED  BY <1>1, <1>2, <2>1, <3>1, <3>2, Over
  <2>2. CASE ~Excluding(t)
    <3>1. Shared(op[t])
      BY <2>2 DEF Excluding
    <3>2. /\ AddsUp' /\ Seen' = Seen /\ Seen = [val |-> value, stamp |-> meta]
          /\ SettledAnswer' =
               [SettledAnswer EXCEPT ![t] = [op |-> op[t], result |-> [is |-> "failed", at |-> none]]]
      BY <1>1, <1>2, <3>1, SharedReturn
    <3>3. value = Seen.val /\ meta = Seen.stamp
      BY <3>2
    <3> QED  BY <3>2, <3>3 DEF HalfDone
  <2> QED  BY <2>1, <2>2
<1>4. Abstract!Answer(t, op[t], "failed")
  BY <1>3 DEF Abstract!Answer, Abstract!AnswerWith
<1>5. \E u \in Threads, o \in Op : Abstract!Answer(u, o, "failed")
  BY <1>1, <1>4
<1> QED  BY <1>2, <1>3, <1>5, CutShort

\* A collection goes on after a removal that failed.
LEMMA CollectStumbles ==
  ASSUME Sole, IInv, IInv', AddsUp, NEW t \in Threads, Moved(t),
         pc[t] \in {"removeValue", "removeMeta"}, op[t].kind = "gc",
         pc' = [pc EXCEPT ![t] = "visit"], UNCHANGED <<op, loc, answer, before>>,
         UNCHANGED <<value, meta, leaked, clock>>, faults' = faults + 1
  PROVE  AddsUp' /\ AbstractStep
<1>1. Excluding(t) /\ CollectSoFar(t)
  BY Remover
<1>2. pc'[t] = "visit" /\ faults \in Nat
  BY DEF IInv, TypeOK
<1>3. PICK R \in SUBSET {j \in Abstract!Stored : Abstract!Expired(j)} : \E S \in SUBSET R :
          /\ value = [j \in Keys |-> IF j \in R THEN Missing ELSE Seen.val[j]]
          /\ meta = [j \in Keys |-> IF j \in S THEN NoStamp ELSE Seen.stamp[j]]
          /\ loc[t].todo \subseteq Abstract!Stored \ R
  BY <1>1 DEF CollectSoFar
<1>4. PICK S \in SUBSET R : meta = [j \in Keys |-> IF j \in S THEN NoStamp ELSE Seen.stamp[j]]
  BY <1>3
<1>5. /\ value = [j \in Keys |-> IF j \in R THEN Missing ELSE Seen.val[j]]
      /\ loc[t].todo \subseteq Abstract!Stored \ R
      /\ R \subseteq Abstract!Stored /\ \A j \in R : Abstract!Expired(j)
  BY <1>3
<1>6. AddsUp' /\ Seen' = Seen /\ SettledAnswer' = SettledAnswer
  <2>1. /\ value' = [j \in Keys |-> IF j \in R THEN Missing ELSE Seen.val[j]]
        /\ meta' = [j \in Keys |-> IF j \in S THEN NoStamp ELSE Seen.stamp[j]]
        /\ loc'[t].todo \subseteq Abstract!Stored \ R
        /\ op'[t] = op[t] /\ UNCHANGED <<before, answer, leaked, clock>>
        /\ faults' > 0 /\ faults' \in {faults, faults + 1}
        /\ \A j \in Keys : meta'[j] \in {meta[j], NoStamp}
    BY <1>2, <1>4, <1>5
  <2> QED  BY <1>1, <1>2, <1>5, <2>1, CollectGoesOn
<1>7. Abstract!Interrupt
  BY <1>6 DEF Abstract!Interrupt
<1> QED  BY <1>6, <1>7 DEF AbstractStep, Abstract!Next

LEMMA FailRefines ==
  ASSUME Sole, IInv, IInv', AddsUp, NEW t \in Threads, Fail(t)
  PROVE  AddsUp' /\ AbstractStep
<1>1. UNCHANGED <<value, meta, leaked, clock>> /\ faults' = faults + 1
  BY DEF Fail, files
<1>2. Moved(t)
  BY Failed DEF Sound
<1>3. CASE pc[t] # "idle" /\ Return(t, "failed")
  BY <1>1, <1>3, FailureRefines
<1>4. CASE /\ pc[t] = "removeValue" /\ op[t].kind = "gc" /\ pc' = [pc EXCEPT ![t] = "visit"]
           /\ UNCHANGED <<op, loc, answer, before>>
  BY <1>1, <1>2, <1>4, CollectStumbles
<1>5. CASE pc[t] = "removeMeta" /\ AfterRemoval(t)
  <2>1. CASE op[t].kind = "delete" /\ Return(t, "ok")
    <3> DEFINE S == {}
    <3>1. meta' = [j \in Keys |-> IF j \in S THEN NoStamp ELSE meta[j]]
      BY <1>1 DEF IInv, TypeOK
    <3>2. S \in SUBSET {op[t].key}
      OBVIOUS
    <3>3. faults' > 0 /\ faults' \in {faults, faults + 1}
      BY <1>1 DEF IInv, TypeOK
    <3> HIDE DEF S
    <3> QED  BY <1>1, <1>5, <2>1, <3>1, <3>2, <3>3, DeleteEnds
  <2>2. CASE /\ op[t].kind = "gc" /\ pc' = [pc EXCEPT ![t] = "visit"]
             /\ UNCHANGED <<op, loc, answer, before>>
    BY <1>1, <1>2, <1>5, <2>2, CollectStumbles
  <2> QED  BY <1>5, <2>1, <2>2 DEF AfterRemoval
<1> QED  BY <1>3, <1>4, <1>5 DEF Fail, Steps

\* The process dies: what its calls had done stays.
LEMMA CrashRefines ==
  ASSUME Sole, IInv, IInv', AddsUp, NEW p \in Procs, Crash(p)
  PROVE  AddsUp' /\ AbstractStep
<1>1. p = OneProcess /\ \A t \in Threads : ProcOf[t] = p
  BY SoleProcess DEF Sole
<1>2. /\ pc' = [t \in Threads |-> "idle"] /\ answer' = [t \in Threads |-> NoAnswer]
      /\ before' = [before EXCEPT ![p] = NoStore]
      /\ UNCHANGED <<value, meta, clock>> /\ faults' = faults + 1
  BY <1>1 DEF Crash
<1>3. before'[OneProcess] = NoStore /\ faults \in Nat
  BY <1>1, <1>2 DEF IInv, TypeOK
<1>4. Seen' = [val |-> value', stamp |-> meta']
  BY <1>3 DEF Seen, SeenBy
<1>5. SettledAnswer' = [t \in Threads |-> NoAnswer]
  <2>1. \A t \in Threads : Settled(t)' = NoAnswer
    BY <1>2 DEF Settled
  <2> QED  BY <2>1 DEF SettledAnswer
<1>6. HalfDone
  <2>1. CASE \E t \in Threads : Excluding(t)
    BY <2>1, HalfDoneSoFar
  <2>2. CASE \A t \in Threads : ~Excluding(t)
    <3>1. Seen = [val |-> value, stamp |-> meta]
      BY <2>2, SeenFiles
    <3>2. value = Seen.val /\ meta = Seen.stamp
      BY <3>1
    <3> QED  BY <3>2 DEF HalfDone
  <2> QED  BY <2>1, <2>2
<1>7. AddsUp'
  <2>1. \A t \in Threads : pc'[t] = "idle"
    BY <1>2
  <2>2. faults' > 0
    BY <1>2, <1>3
  <2>3. \A k \in Keys : meta'[k] # NoStamp => meta'[k] <= clock'
    BY <1>2 DEF AddsUp
  <2> QED  BY <1>3, <2>1, <2>2, <2>3 DEF AddsUp, Excluding
<1> QED  BY <1>2, <1>3, <1>4, <1>5, <1>6, <1>7, CutShort

LEMMA OlderStill ==
  ASSUME NEW a \in Nat, NEW b \in Nat, a <= b, NEW s \in Nat, NEW n \in Nat, a - s > n
  PROVE  b - s > n
OBVIOUS

\* Time passes, or nothing happens.
LEMMA TimePasses ==
  ASSUME Sole, IInv, AddsUp, UNCHANGED <<value, meta, leaked, faults, pc, op, loc, before>>,
         clock' \in {clock, clock + 1}
  PROVE  AddsUp' /\ Seen' = Seen
<1>1. Seen' = Seen
  BY DEF Seen, SeenBy
<1>2. clock \in Nat /\ clock' \in Nat /\ clock <= clock'
  BY Numbers DEF IInv, TypeOK, Stamp
<1>3. \A k \in Keys : meta[k] \in Nat \cup {NoStamp} /\ Seen.stamp[k] \in Nat \cup {NoStamp}
  BY SeenTyped, Numbers DEF IInv, TypeOK, Stamp
<1>4. \A k \in Keys : meta'[k] # NoStamp => meta'[k] <= clock'
  BY <1>2, <1>3 DEF AddsUp
<1>5. \A u \in Threads : Excluding(u)' <=> Excluding(u)
  BY DEF Excluding
<1>6. \A u \in Threads : SearchSoFar(u)' <=> SearchSoFar(u)
  BY DEF SearchSoFar
<1>7. ASSUME NEW u \in Threads, Excluding(u) PROVE SoFar(u)'
  <2>1. SoFar(u) /\ op'[u] = op[u] /\ loc'[u] = loc[u] /\ pc'[u] = pc[u]
    BY <1>7 DEF AddsUp
  <2>2. loc[u].now \in Nat
    BY Numbers DEF IInv, TypeOK, Local, Stamp
  <2>3. ASSUME op[u].kind \in {"write", "append"} PROVE WriteSoFar(u)'
    <3>1. /\ Abstract!NewValue(op[u])' = Abstract!NewValue(op[u])
          /\ Abstract!Stored' = Abstract!Stored
          /\ \A k, n : Abstract!Fits(k, n)' = Abstract!Fits(k, n)
      BY <1>1, <2>1, SameView
    <3>2. WriteSoFar(u)
      BY <2>1, <2>3 DEF SoFar
    <3>3. loc[u].now <= clock => loc[u].now <= clock'
      BY <1>2, <2>2
    <3>4. SizesToAdd(u)' = SizesToAdd(u) /\ StoredBytes' = StoredBytes
      BY <2>1 DEF SizesToAdd, StoredBytes
    <3> QED  BY <1>1, <2>1, <3>1, <3>2, <3>3, <3>4 DEF WriteSoFar
  <2>4. ASSUME op[u].kind = "delete" PROVE DeleteSoFar(u)'
    BY <1>1, <2>1, <2>4 DEF SoFar, DeleteSoFar
  <2>5. ASSUME op[u].kind = "gc" PROVE CollectSoFar(u)'
    <3>1. CollectSoFar(u)
      BY <2>1, <2>5 DEF SoFar
    <3>2. Abstract!Stored' = Abstract!Stored
      BY <1>1 DEF Abstract!Stored
    <3>3. \A k \in Keys : Abstract!Expired(k) => Abstract!Expired(k)'
      <4> SUFFICES ASSUME NEW k \in Keys, Abstract!Expired(k) PROVE Abstract!Expired(k)'
        OBVIOUS
      <4> DEFINE s == Seen.stamp[k]
      <4>1. s \in Nat
        BY <1>3 DEF Abstract!Expired
      <4>2. TTL > 0 /\ s # NoStamp /\ clock - s > TTL
        BY DEF Abstract!Expired
      <4>3. Seen'.stamp[k] = s
        BY <1>1
      <4>4. TTL \in Nat
        BY MemoryAssumption
      <4> HIDE DEF s
      <4>5. clock' - s > TTL
        BY <1>2, <4>1, <4>2, <4>4, OlderStill
      <4> QED  BY <4>2, <4>3, <4>5 DEF Abstract!Expired
    <3>4. \A k \in Abstract!Stored : k \in Keys
      BY DEF Abstract!Stored
    <3> QED  BY <1>1, <2>1, <3>1, <3>2, <3>3, <3>4 DEF CollectSoFar
  <2> QED  BY <2>1, <2>3, <2>4, <2>5 DEF SoFar
<1>8. AddsUp'
  BY <1>4, <1>5, <1>6, <1>7 DEF AddsUp
<1> QED  BY <1>1, <1>8

LEMMA StepRefines ==
  ASSUME Sole, IInv, IInv', AddsUp, NEW t \in Threads, Step(t)
  PROVE  AddsUp' /\ AbstractStep
<1>1. CASE Begin(t)  BY <1>1, BeginRefines
<1>2. CASE CheckValueSize(t)  BY <1>2, ValueSizeRefines
<1>3. CASE CheckKeyCount(t)  BY <1>3, KeyCountRefines
<1>4. CASE CheckTotalSize(t)  BY <1>4, TotalSizeRefines
<1>18. CASE ListSizes(t)  BY <1>18, ListSizesRefines
<1>19. CASE AddSize(t)  BY <1>19, AddSizeRefines
<1>5. CASE WriteTemp(t)  BY <1>5, TempRefines
<1>6. CASE RenameValue(t)  BY <1>6, RenameRefines
<1>7. CASE OpenAppend(t)  BY <1>7, OpenRefines
<1>8. CASE AppendData(t)  BY <1>8, AppendRefines
<1>9. CASE WriteMetaTemp(t)  BY <1>9, MetaTempRefines
<1>10. CASE RenameMeta(t)  BY <1>10, MetaRefines
<1>11. CASE RemoveValue(t)  BY <1>11, RemoveValueRefines
<1>12. CASE RemoveMeta(t)  BY <1>12, RemoveMetaRefines
<1>13. CASE CheckExpired(t) \/ ReadValue(t)  BY <1>13, ReadRefines
<1>14. CASE ListKeys(t)  BY <1>14, ListRefines
<1>15. CASE Scan(t)  BY <1>15, ScanRefines
<1>16. CASE Collect(t)  BY <1>16, CollectRefines
<1>17. CASE Fail(t)  BY <1>17, FailRefines
<1> QED  BY <1>1, <1>2, <1>3, <1>4, <1>5, <1>6, <1>7, <1>8, <1>9, <1>10, <1>11, <1>12, <1>13,
            <1>14, <1>15, <1>16, <1>17, <1>18, <1>19 DEF Step

LEMMA NextRefines ==
  ASSUME Sole, IInv, IInv', AddsUp, [Next]_vars
  PROVE  AddsUp' /\ AbstractStep
<1>1. ASSUME NEW t \in Threads, Step(t) PROVE AddsUp' /\ AbstractStep
  BY <1>1, StepRefines
<1>2. ASSUME NEW p \in Procs, Crash(p) PROVE AddsUp' /\ AbstractStep
  BY <1>2, CrashRefines
<1>3. CASE Tick
  <2>1. /\ clock' = clock + 1
        /\ UNCHANGED <<value, meta, leaked, faults, pc, op, loc, answer, before>>
    BY <1>3 DEF Tick, files
  <2>2. AddsUp' /\ Seen' = Seen
    BY <2>1, TimePasses
  <2>3. SettledAnswer' = SettledAnswer
    BY <2>1 DEF SettledAnswer, Settled, Only
  <2>4. Abstract!Tick
    BY <2>1, <2>2, <2>3 DEF Abstract!Tick
  <2> QED  BY <2>2, <2>4 DEF AbstractStep, Abstract!Next
<1>4. CASE UNCHANGED vars
  <2>1. UNCHANGED <<value, meta, leaked, clock, faults, pc, op, loc, answer, before>>
    BY <1>4 DEF vars
  <2>2. AddsUp' /\ Seen' = Seen
    BY <2>1, TimePasses
  <2>3. SettledAnswer' = SettledAnswer
    BY <2>1 DEF SettledAnswer, Settled, Only
  <2> QED  BY <2>1, <2>2, <2>3, Stutter
<1> QED  BY <1>1, <1>2, <1>3, <1>4 DEF Next

LEMMA InitRefines ==
  ASSUME Sole, Init
  PROVE  AddsUp /\ Abstract!Init
<1>1. before[OneProcess] = NoStore
  BY SoleProcess DEF Init
<1>2. Seen = [val |-> value, stamp |-> meta]
  BY <1>1 DEF Seen, SeenBy
<1>3. SettledAnswer = [t \in Threads |-> NoAnswer]
  BY DEF Init, SettledAnswer, Settled
<1>4. Abstract!Init
  BY <1>2, <1>3 DEF Init, Abstract!Init
<1>5. AddsUp
  BY <1>1 DEF Init, AddsUp, Excluding
<1> QED  BY <1>4, <1>5

\* One process with one lock gives its callers an atomic store: every call of the
\* Manager takes effect at one instant, reads and searches see one state of the
\* store, gc takes only what has expired, a refusal is for the limits, and a call
\* that an I/O error or a crash cuts short leaves only what AgentMemory!Interrupt
\* allows (memory.go, store.go).
THEOREM CallsAreAtomic ==
  ASSUME Sole
  PROVE  Spec => ImplementsAgentMemory
<1>1. Init => AddsUp /\ Abstract!Init
  BY InitRefines
<1>2. IInv /\ IInv' /\ AddsUp /\ [Next]_vars => AddsUp' /\ [Abstract!Next]_(Abstract!vars)
  BY NextRefines DEF AbstractStep
<1> QED  BY <1>1, <1>2, Invariance, PTL DEF Spec, ImplementsAgentMemory, Abstract!Spec
=============================================================================
