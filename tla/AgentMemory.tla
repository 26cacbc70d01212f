----------------------------- MODULE AgentMemory -----------------------------
(***************************************************************************)
(* What one process promises to the callers of pkg/memory/memory.go: every *)
(* call takes effect at one instant on a store of values and of the times  *)
(* they were last stamped, within the limits; only an I/O error or the      *)
(* death of the process (a fault) leaves a call half done, and then in the *)
(* ways Interrupt lists.                                                   *)
(***************************************************************************)
EXTENDS Naturals, Sequences, FiniteSets, Tally

CONSTANTS
  Threads,     \* concurrent calls
  Keys,        \* memory keys
  Contents,    \* what callers write and append
  MaxKeys,     \* Limits.MaxKeys, 0 for no limit
  MaxValue,    \* Limits.MaxValueBytes, 0 for no limit
  MaxTotal,    \* Limits.MaxTotalBytes, 0 for no limit
  TTL,         \* Limits.TTL, 0 for never
  MaxClock,    \* bound on the time explored
  MaxFaults,   \* bound on the I/O errors and crashes explored
  Missing,     \* the key has no value
  NoStamp,     \* the key has no metadata
  NoAnswer     \* the thread's last call has not returned

Op == [kind : {"write", "append"}, key : Keys, content : Contents]
        \cup [kind : {"delete", "read"}, key : Keys]
        \cup [kind : {"search", "gc"}]

VARIABLES
  val,         \* the value of each key
  stamp,       \* when each key was last stamped
  clock,       \* the time
  faults,      \* faults so far
  answer       \* what each thread's last call returned

vars == <<val, stamp, clock, faults, answer>>

Stored == {k \in Keys : val[k] # Missing}
Size(v) == IF v = Missing THEN 0 ELSE Len(v)
TotalOf(f, keys) == Tally([k \in keys |-> Size(f[k])], keys)
Within(limit, n) == limit = 0 \/ n <= limit

\* Storing n bytes under k respects the limits.
Fits(k, n) ==
  /\ Within(MaxValue, n)
  /\ k \in Stored \/ Within(MaxKeys, Cardinality(Stored) + 1)
  /\ Within(MaxTotal, TotalOf(val, Keys \ {k}) + n)

Expired(k) == TTL > 0 /\ stamp[k] # NoStamp /\ clock - stamp[k] > TTL

NewValue(o) ==
  IF o.kind = "append" /\ val[o.key] # Missing
  THEN val[o.key] \o o.content
  ELSE o.content

\* t's call o returns, handing out the contents `at'.
AnswerWith(t, o, is, at) ==
  answer' = [answer EXCEPT ![t] = [op |-> o, result |-> [is |-> is, at |-> at]]]
Answer(t, o, is) == AnswerWith(t, o, is, [k \in Keys |-> Missing])

Init ==
  /\ val = [k \in Keys |-> Missing]
  /\ stamp = [k \in Keys |-> NoStamp]
  /\ clock = 0
  /\ faults = 0
  /\ answer = [t \in Threads |-> NoAnswer]

Call(t) ==
  /\ answer' = [answer EXCEPT ![t] = NoAnswer]
  /\ UNCHANGED <<val, stamp, clock, faults>>

\* Set and Append: the value changes and is stamped no earlier than it was.
Store(t) ==
  \E o \in Op : \E s \in 0..clock :
    /\ o.kind \in {"write", "append"}
    /\ Fits(o.key, Len(NewValue(o)))
    /\ stamp[o.key] # NoStamp => s >= stamp[o.key]
    /\ val' = [val EXCEPT ![o.key] = NewValue(o)]
    /\ stamp' = [stamp EXCEPT ![o.key] = s]
    /\ Answer(t, o, "ok")
    /\ UNCHANGED <<clock, faults>>

\* A refusal is justified by the limits, until a fault has left debris behind.
Refuse(t) ==
  \E o \in Op :
    /\ o.kind \in {"write", "append"}
    /\ ~Fits(o.key, Len(NewValue(o))) \/ faults > 0
    /\ Answer(t, o, "refused")
    /\ UNCHANGED <<val, stamp, clock, faults>>

\* The keys R lose their values and, unless there was a fault, their stamps.
Removes(R) ==
  /\ val' = [k \in Keys |-> IF k \in R THEN Missing ELSE val[k]]
  /\ \E S \in SUBSET R :
       /\ faults' > 0 \/ S = R
       /\ stamp' = [k \in Keys |-> IF k \in S THEN NoStamp ELSE stamp[k]]

\* That the stamp could not be removed is not reported.
Delete(t) ==
  \E o \in Op :
    /\ o.kind = "delete"
    /\ faults' \in {faults, faults + 1}
    /\ UNCHANGED clock
    /\ Removes({o.key})
    /\ Answer(t, o, "ok")

\* gc removes nothing but what has expired.
Collect(t) ==
  \E o \in Op, R \in SUBSET {k \in Stored : Expired(k)} :
    /\ o.kind = "gc"
    /\ UNCHANGED <<clock, faults>>
    /\ Removes(R)
    /\ Answer(t, o, "ok")

Read(t) ==
  \E o \in Op :
    /\ o.kind = "read"
    /\ IF Expired(o.key)
       THEN Answer(t, o, "expired")
       ELSE AnswerWith(t, o, "found",
                       [k \in Keys |-> IF k = o.key THEN val[k] ELSE Missing])
    /\ UNCHANGED <<val, stamp, clock, faults>>

\* A search looks at one state of the store, the expired keys included.
Search(t) ==
  \E o \in Op :
    /\ o.kind = "search"
    /\ AnswerWith(t, o, "found", val)
    /\ UNCHANGED <<val, stamp, clock, faults>>

Tick == clock' = clock + 1 /\ UNCHANGED <<val, stamp, faults, answer>>

\* A fault: a call stops with its value stored and not stamped, or with some
\* of what it was to remove removed, or with no effect; gc goes on after one.
Interrupt ==
  /\ faults' = faults + 1
  /\ \/ \E o \in Op :
          /\ o.kind \in {"write", "append"}
          /\ \E v \in {<<>>, NewValue(o)} :
               /\ v # NewValue(o) => val[o.key] = Missing /\ o.kind = "append"
               /\ Fits(o.key, Len(v))
               /\ val' = [val EXCEPT ![o.key] = v]
               /\ UNCHANGED stamp
     \/ \E R \in {{k} : k \in Keys} \cup SUBSET {k \in Stored : Expired(k)} : Removes(R)
     \/ UNCHANGED <<val, stamp>>
  /\ \/ \E t \in Threads, o \in Op : Answer(t, o, "failed")
     \/ answer' = [t \in Threads |-> NoAnswer]
     \/ UNCHANGED answer
  /\ UNCHANGED clock

Next ==
  \/ \E t \in Threads :
       Call(t) \/ Store(t) \/ Refuse(t) \/ Delete(t) \/ Collect(t) \/ Read(t) \/ Search(t)
  \/ Tick
  \/ Interrupt

Spec == Init /\ [][Next]_vars
==============================================================================
