----------------------------- MODULE MemoryStore -----------------------------
(***************************************************************************)
(* The memory directory of one agent (pkg/memory) under the processes that *)
(* use it: `serve-mcp' with its concurrent tool calls, and `memory ...'    *)
(* commands run beside it.  The RWMutex of memory.Manager orders the calls *)
(* of one process; between processes there is nothing.  Every file         *)
(* operation another process can get in front of is a step of its own;     *)
(* sizes count chunks of content.                                          *)
(***************************************************************************)
EXTENDS Integers, Sequences, FiniteSets, Tally

CONSTANTS
  Threads,     \* callers of the Manager
  Procs,       \* processes that opened the store
  ProcOf,      \* the process of each thread
  Chunks,      \* units of content
  Keys, Contents, MaxKeys, MaxValue, MaxTotal, TTL,   \* as in AgentMemory
  MaxClock, MaxFaults,
  Calls,       \* the kinds of call the callers make
  MetaSize,    \* size of the temporary file a metadata sidecar is written to
  Missing, NoStamp, NoAnswer,   \* as in AgentMemory
  NoOp,        \* the thread is in no call
  NoKey,       \* the call has no key at hand
  NoStore      \* no call that changes the store is in progress

ASSUME MemoryAssumption ==
  /\ IsFiniteSet(Keys) /\ IsFiniteSet(Threads) /\ IsFiniteSet(Procs)
  /\ Procs # {}
  /\ ProcOf \in [Threads -> Procs]
  /\ Contents \subseteq Seq(Chunks)
  /\ {MaxKeys, MaxValue, MaxTotal, TTL, MaxClock, MaxFaults, MetaSize} \subseteq Nat
  /\ Missing \notin Seq(Chunks)
  /\ NoStamp \notin Nat
  /\ NoKey \notin Keys

VARIABLES
  value,       \* content of <key>.md
  meta,        \* updatedAt in <key>.meta.json
  leaked,      \* bytes of .tmp-* files nobody will rename or remove
  clock, faults,
  pc, op,      \* where each thread is, and in which call
  loc,         \* the local variables of its call
  answer,      \* what its last call returned
  before       \* history: the store when the process's running write began

files == <<value, meta, leaked>>
vars == <<value, meta, leaked, clock, faults, pc, op, loc, answer, before>>

------------------------------------------------------------------------------
Op == [kind : {"write", "append"}, key : Keys, content : Contents]
        \cup [kind : {"delete", "read"}, key : Keys]
        \cup [kind : {"search", "gc"}]

Shared(o) == o.kind \in {"read", "search"}

Value == Seq(Chunks)
Stamp == 0..MaxClock
Store == [val : [Keys -> Value \cup {Missing}], stamp : [Keys -> Stamp \cup {NoStamp}]]

ASSUME NoneAssumption == NoOp \notin Op /\ NoStore \notin Store

\* key: the key being worked on; temp: size of the call's own .tmp-* file, 0
\* for none; size: newSize; now: time.Now() of the new metadata; live: the file
\* opened for append is still <key>.md; todo: listed keys left to visit; total: the
\* sizes added up so far; found: what a search has read.
Local == [key : Keys \cup {NoKey}, temp : Nat, size : Nat, now : Stamp,
          live : BOOLEAN, todo : SUBSET Keys, total : Nat, found : [Keys -> Value \cup {Missing}]]
Blank == [key |-> NoKey, temp |-> 0, size |-> 0, now |-> 0,
          live |-> FALSE, todo |-> {}, total |-> 0, found |-> [k \in Keys |-> Missing]]

\* What a call returns: how it ended, and the contents it hands out.
Result == [is : {"ok", "refused", "failed", "expired", "found"},
           at : [Keys -> Value \cup {Missing}]]
Only(k, v) == [j \in Keys |-> IF j = k THEN v ELSE Missing]

Size(v) == IF v = Missing THEN 0 ELSE Len(v)
Listed == {k \in Keys : value[k] # Missing}
StoredBytes == Tally([k \in Keys |-> Size(value[k])], Keys)
TempBytes(T) == Tally([t \in T |-> loc[t].temp], T)

\* A limit of 0 is no limit.
Within(limit, n) == limit = 0 \/ n <= limit

Expired(k) == TTL > 0 /\ meta[k] # NoStamp /\ clock - meta[k] > TTL

------------------------------------------------------------------------------
Steps == {"size", "count", "total", "stat", "temp", "rename", "open", "append", "metaTemp",
          "metaRename", "removeValue", "removeMeta", "check", "read", "list", "visit"}

TypeOK ==
  /\ value \in [Keys -> Value \cup {Missing}]
  /\ meta \in [Keys -> Stamp \cup {NoStamp}]
  /\ leaked \in Nat
  /\ clock \in Stamp
  /\ faults \in 0..MaxFaults
  /\ pc \in [Threads -> Steps \cup {"idle"}]
  /\ op \in [Threads -> Op \cup {NoOp}]
  /\ loc \in [Threads -> Local]
  /\ answer \in [Threads -> [op : Op, result : Result] \cup {NoAnswer}]
  /\ before \in [Procs -> Store \cup {NoStore}]

Init ==
  /\ value = [k \in Keys |-> Missing]
  /\ meta = [k \in Keys |-> NoStamp]
  /\ leaked = 0
  /\ clock = 0
  /\ faults = 0
  /\ pc = [t \in Threads |-> "idle"]
  /\ op = [t \in Threads |-> NoOp]
  /\ loc = [t \in Threads |-> Blank]
  /\ answer = [t \in Threads |-> NoAnswer]
  /\ before = [p \in Procs |-> NoStore]

Goto(t, from, to) ==
  /\ pc[t] = from
  /\ pc' = [pc EXCEPT ![t] = to]

\* The call returns, with what it found, and releases the lock.
ReturnFound(t, is, at) ==
  /\ pc' = [pc EXCEPT ![t] = "idle"]
  /\ answer' = [answer EXCEPT ![t] = [op |-> op[t], result |-> [is |-> is, at |-> at]]]
  /\ op' = [op EXCEPT ![t] = NoOp]
  /\ loc' = [loc EXCEPT ![t] = Blank]
  /\ before' = IF Shared(op[t]) THEN before ELSE [before EXCEPT ![ProcOf[t]] = NoStore]

Return(t, is) == ReturnFound(t, is, [k \in Keys |-> Missing])

------------------------------------------------------------------------------
\* Mutant: readers do not exclude writers.
MayLockAnyRead(t, o) ==
  \A u \in Threads \ {t} :
    ProcOf[u] = ProcOf[t] /\ pc[u] # "idle" => Shared(o) \/ Shared(op[u])

\* The RWMutex: calls that share it run together, the others run alone.
MayLock(t, o) ==
  \A u \in Threads \ {t} :
    ProcOf[u] = ProcOf[t] /\ pc[u] # "idle" => Shared(o) /\ Shared(op[u])

(* A call of the Manager takes the lock.                                    *)
Begin(t) ==
  /\ pc[t] = "idle"
  /\ \E o \in {c \in Op : c.kind \in Calls} :
       /\ MayLock(t, o)
       /\ op' = [op EXCEPT ![t] = o]
       /\ pc' = [pc EXCEPT ![t] =
                   CASE o.kind \in {"write", "append"} -> "size"
                     [] o.kind = "delete" -> "removeValue"
                     [] o.kind = "read" -> "check"
                     [] OTHER -> "list"]
       /\ loc' = [loc EXCEPT ![t].key = IF o.kind \in {"search", "gc"} THEN NoKey ELSE o.key]
       /\ before' = IF Shared(o) THEN before
                    ELSE [before EXCEPT ![ProcOf[t]] = [val |-> value, stamp |-> meta]]
  /\ answer' = [answer EXCEPT ![t] = NoAnswer]
  /\ UNCHANGED <<files, clock, faults>>

------------------------------------------------------------------------------
(* Write and Append: the three limits, each on what the files hold when     *)
(* they are looked at.                                                      *)

\* Mutant: an append is measured by what it adds.
NewSizeAdded(t) == Len(op[t].content)

NewSize(t) ==
  Len(op[t].content)
    + (IF op[t].kind = "append" THEN Size(value[loc[t].key]) ELSE 0)

\* Append counts keys only when the key was not there for it to read.
CheckValueSize(t) ==
  /\ pc[t] = "size"
  /\ \/ /\ Within(MaxValue, NewSize(t))
        /\ pc' = [pc EXCEPT ![t] =
                    IF op[t].kind = "append" /\ value[loc[t].key] # Missing
                    THEN "total" ELSE "count"]
        /\ loc' = [loc EXCEPT ![t].size = NewSize(t)]
        /\ UNCHANGED <<op, answer, before>>
     \/ /\ ~Within(MaxValue, NewSize(t))
        /\ Return(t, "refused")
  /\ UNCHANGED <<files, clock, faults>>

\* Mutant: the new key is not counted.
CheckKeyCountOffByOne(t) ==
  /\ pc[t] = "count"
  /\ \/ /\ value[loc[t].key] # Missing \/ Within(MaxKeys, Cardinality(Listed))
        /\ pc' = [pc EXCEPT ![t] = "total"]
        /\ UNCHANGED <<op, loc, answer, before>>
     \/ /\ value[loc[t].key] = Missing /\ ~Within(MaxKeys, Cardinality(Listed))
        /\ Return(t, "refused")
  /\ UNCHANGED <<files, clock, faults>>

CheckKeyCount(t) ==
  /\ pc[t] = "count"
  /\ \/ /\ value[loc[t].key] # Missing \/ Within(MaxKeys, Cardinality(Listed) + 1)
        /\ pc' = [pc EXCEPT ![t] = "total"]
        /\ UNCHANGED <<op, loc, answer, before>>
     \/ /\ value[loc[t].key] = Missing /\ ~Within(MaxKeys, Cardinality(Listed) + 1)
        /\ Return(t, "refused")
  /\ UNCHANGED <<files, clock, faults>>

(* checkTotalSize, when there is a limit: totalSize lists the directory,    *)
(* *.meta.json left out, and takes the size of each entry in turn.          *)
AllowedTotal(t) ==
  /\ pc' = [pc EXCEPT ![t] = IF op[t].kind = "write" THEN "temp" ELSE "open"]
  /\ loc' = [loc EXCEPT ![t].total = 0]
  /\ UNCHANGED <<op, answer, before>>

\* T: the calls whose .tmp-* file is listed and still there when its turn comes.
ListSizes(t) ==
  /\ pc[t] = "total"
  /\ \/ /\ MaxTotal = 0
        /\ AllowedTotal(t)
     \/ /\ MaxTotal > 0
        /\ pc' = [pc EXCEPT ![t] = "stat"]
        /\ \E T \in SUBSET Threads :
             loc' = [loc EXCEPT ![t].todo = Listed, ![t].total = leaked + TempBytes(T)]
        /\ UNCHANGED <<op, answer, before>>
  /\ UNCHANGED <<files, clock, faults>>

\* A file that has gone since counts for nothing.
AddSize(t) ==
  /\ pc[t] = "stat"
  /\ \E k \in loc[t].todo :
       loc' = [loc EXCEPT ![t].todo = @ \ {k}, ![t].total = @ + Size(value[k])]
  /\ UNCHANGED <<files, clock, faults, pc, op, answer, before>>

\* The size the key has by now is taken off again.
TotalWith(t) == loc[t].total - Size(value[loc[t].key]) + loc[t].size

CheckTotalSize(t) ==
  /\ pc[t] = "stat" /\ loc[t].todo = {}
  /\ \/ /\ Within(MaxTotal, TotalWith(t))
        /\ AllowedTotal(t)
     \/ /\ ~Within(MaxTotal, TotalWith(t))
        /\ Return(t, "refused")
  /\ UNCHANGED <<files, clock, faults>>

------------------------------------------------------------------------------
(* Write: WriteAtomic of the value.                                         *)

WriteTemp(t) ==
  /\ Goto(t, "temp", "rename")
  /\ loc' = [loc EXCEPT ![t].temp = loc[t].size]
  /\ UNCHANGED <<files, clock, faults, op, answer, before>>

\* What renaming over or removing t's key leaves of the other threads' handles.
Orphan(t, mine) ==
  loc' = [u \in Threads |->
            IF u = t THEN mine
            ELSE IF loc[u].key = loc[t].key THEN [loc[u] EXCEPT !.live = FALSE]
            ELSE loc[u]]

RenameValue(t) ==
  /\ Goto(t, "rename", "metaTemp")
  /\ value' = [value EXCEPT ![loc[t].key] = op[t].content]
  /\ Orphan(t, [loc[t] EXCEPT !.temp = 0])
  /\ UNCHANGED <<meta, leaked, clock, faults, op, answer, before>>

(* Append: open with O_APPEND and O_CREATE, then write.                     *)
OpenAppend(t) ==
  /\ Goto(t, "open", "append")
  /\ value' = [value EXCEPT ![loc[t].key] = IF @ = Missing THEN <<>> ELSE @]
  /\ loc' = [loc EXCEPT ![t].live = TRUE]
  /\ UNCHANGED <<meta, leaked, clock, faults, op, answer, before>>

AppendData(t) ==
  /\ Goto(t, "append", "metaTemp")
  /\ value' = IF loc[t].live
              THEN [value EXCEPT ![loc[t].key] = @ \o op[t].content]
              ELSE value
  /\ loc' = [loc EXCEPT ![t].live = FALSE]
  /\ UNCHANGED <<meta, leaked, clock, faults, op, answer, before>>

(* The metadata sidecar: stamped, written beside and renamed.               *)
\* Mutant: UpdatedAt is left at the zero time.
WriteMetaTempUnstamped(t) ==
  /\ Goto(t, "metaTemp", "metaRename")
  /\ loc' = [loc EXCEPT ![t].temp = MetaSize, ![t].now = NoStamp]
  /\ UNCHANGED <<files, clock, faults, op, answer, before>>

WriteMetaTemp(t) ==
  /\ Goto(t, "metaTemp", "metaRename")
  /\ loc' = [loc EXCEPT ![t].temp = MetaSize, ![t].now = clock]
  /\ UNCHANGED <<files, clock, faults, op, answer, before>>

RenameMeta(t) ==
  /\ pc[t] = "metaRename"
  /\ meta' = [meta EXCEPT ![loc[t].key] = loc[t].now]
  /\ Return(t, "ok")
  /\ UNCHANGED <<value, leaked, clock, faults>>

------------------------------------------------------------------------------
(* Delete, alone or for gc: the value, then the metadata.                   *)

RemoveValue(t) ==
  /\ Goto(t, "removeValue", "removeMeta")
  /\ value' = [value EXCEPT ![loc[t].key] = Missing]
  /\ Orphan(t, loc[t])
  /\ UNCHANGED <<meta, leaked, clock, faults, op, answer, before>>

\* The metadata is gone, or its removal failed and nobody is told.
AfterRemoval(t) ==
  \/ /\ op[t].kind = "delete"
     /\ Return(t, "ok")
  \/ /\ op[t].kind = "gc"
     /\ pc' = [pc EXCEPT ![t] = "visit"]
     /\ UNCHANGED <<op, loc, answer, before>>

RemoveMeta(t) ==
  /\ pc[t] = "removeMeta"
  /\ meta' = [meta EXCEPT ![loc[t].key] = NoStamp]
  /\ AfterRemoval(t)
  /\ UNCHANGED <<value, leaked, clock, faults>>

------------------------------------------------------------------------------
(* Read: the expiry by the metadata, then the value.                        *)

CheckExpired(t) ==
  /\ pc[t] = "check"
  /\ \/ /\ Expired(loc[t].key)
        /\ Return(t, "expired")
     \/ /\ ~Expired(loc[t].key)
        /\ pc' = [pc EXCEPT ![t] = "read"]
        /\ UNCHANGED <<op, loc, answer, before>>
  /\ UNCHANGED <<files, clock, faults>>

ReadValue(t) ==
  /\ pc[t] = "read"
  /\ ReturnFound(t, "found", Only(loc[t].key, value[loc[t].key]))
  /\ UNCHANGED <<files, clock, faults>>

(* Search and gc list the keys and visit them.                              *)
ListKeys(t) ==
  /\ Goto(t, "list", "visit")
  /\ loc' = [loc EXCEPT ![t].todo = Listed]
  /\ UNCHANGED <<files, clock, faults, op, answer, before>>

Scan(t) ==
  /\ pc[t] = "visit" /\ op[t].kind = "search"
  /\ \/ \E k \in loc[t].todo :
          /\ loc' = [loc EXCEPT ![t].todo = @ \ {k}, ![t].found[k] = value[k]]
          /\ UNCHANGED <<pc, op, answer, before>>
     \/ /\ loc[t].todo = {}
        /\ ReturnFound(t, "found", loc[t].found)
  /\ UNCHANGED <<files, clock, faults>>

Collect(t) ==
  /\ pc[t] = "visit" /\ op[t].kind = "gc"
  /\ \/ \E k \in loc[t].todo :
          /\ loc' = [loc EXCEPT ![t].todo = @ \ {k}, ![t].key = k]
          /\ pc' = [pc EXCEPT ![t] = IF Expired(k) THEN "removeValue" ELSE "visit"]
          /\ UNCHANGED <<op, answer, before>>
     \/ /\ loc[t].todo = {}
        /\ Return(t, "ok")
  /\ UNCHANGED <<files, clock, faults>>

------------------------------------------------------------------------------
(* A file operation fails.  WriteAtomic removes its temporary file; Delete  *)
(* ignores the metadata; gc ignores a Delete that failed.  Read errors that *)
(* the code takes for a missing file are left out.                          *)
Fail(t) ==
  /\ faults < MaxFaults
  /\ faults' = faults + 1
  /\ \/ /\ pc[t] \in Steps \ {"stat", "removeValue", "removeMeta", "check", "visit"}
        /\ pc[t] = "total" => MaxTotal > 0
        /\ Return(t, "failed")
     \/ /\ pc[t] = "removeValue" /\ op[t].kind = "delete"
        /\ Return(t, "failed")
     \/ /\ pc[t] = "removeValue" /\ op[t].kind = "gc"
        /\ pc' = [pc EXCEPT ![t] = "visit"]
        /\ UNCHANGED <<op, loc, answer, before>>
     \/ /\ pc[t] = "removeMeta"
        /\ AfterRemoval(t)
  /\ UNCHANGED <<files, clock>>

(* A process dies in the middle of a call; its temporary files stay.        *)
Crash(p) ==
  LET mine == {t \in Threads : ProcOf[t] = p}
  IN /\ faults < MaxFaults
     /\ faults' = faults + 1
     /\ \E t \in mine : pc[t] # "idle"
     /\ leaked' = leaked + TempBytes(mine)
     /\ pc' = [t \in Threads |-> IF t \in mine THEN "idle" ELSE pc[t]]
     /\ op' = [t \in Threads |-> IF t \in mine THEN NoOp ELSE op[t]]
     /\ loc' = [t \in Threads |-> IF t \in mine THEN Blank ELSE loc[t]]
     /\ answer' = [t \in Threads |-> IF t \in mine THEN NoAnswer ELSE answer[t]]
     /\ before' = [before EXCEPT ![p] = NoStore]
     /\ UNCHANGED <<value, meta, clock>>

Tick ==
  /\ clock < MaxClock
  /\ clock' = clock + 1
  /\ UNCHANGED <<files, faults, pc, op, loc, answer, before>>

Step(t) ==
  \/ Begin(t)
  \/ CheckValueSize(t) \/ CheckKeyCount(t)
  \/ ListSizes(t) \/ AddSize(t) \/ CheckTotalSize(t)
  \/ WriteTemp(t) \/ RenameValue(t)
  \/ OpenAppend(t) \/ AppendData(t)
  \/ WriteMetaTemp(t) \/ RenameMeta(t)
  \/ RemoveValue(t) \/ RemoveMeta(t)
  \/ CheckExpired(t) \/ ReadValue(t)
  \/ ListKeys(t) \/ Scan(t) \/ Collect(t)
  \/ Fail(t)

Next ==
  \/ \E t \in Threads : Step(t)
  \/ \E p \in Procs : Crash(p)
  \/ Tick

Spec == Init /\ [][Next]_vars
------------------------------------------------------------------------------
(* Properties *)

\* The store as the callers of p see it while p changes it: what it was when
\* the call took the lock.
SeenBy(p) ==
  IF before[p] = NoStore THEN [val |-> value, stamp |-> meta] ELSE before[p]

OneProcess == CHOOSE p \in Procs : TRUE
Seen == SeenBy(OneProcess)

\* A read that has passed the expiry check has its answer.
Settled(t) ==
  IF pc[t] = "read"
  THEN [op |-> op[t],
        result |-> [is |-> "found", at |-> Only(loc[t].key, value[loc[t].key])]]
  ELSE answer[t]

SettledAnswer == [t \in Threads |-> Settled(t)]

Abstract == INSTANCE AgentMemory
  WITH val <- Seen.val, stamp <- Seen.stamp,
       answer <- SettledAnswer

\* With one process the files, the lock and the steps of every call add up to
\* the atomic store of AgentMemory: a search sees one state, nothing is read
\* half done, gc takes only what has expired, the limits hold, and a call cut
\* short leaves only what AgentMemory!Interrupt says (Manager, FileStore).
ImplementsAgentMemory == Abstract!Spec

\* Without a lock between processes a check can be stale when its write
\* happens, but only by one write for each other process: the key limit is
\* exceeded by at most that many keys (checkKeyCount).
KeysOvershoot ==
  MaxKeys > 0 => Cardinality(Listed) <= MaxKeys + Cardinality(Procs) - 1

\* The bytes are exceeded by up to two values for each other process: by the value it
\* writes, and by its size again when it is appended to the key of a call that has
\* added up the sizes and then takes off the size of its key (checkTotalSize).
BytesOvershoot ==
  MaxTotal > 0 /\ MaxValue > 0
    => StoredBytes <= MaxTotal + 2 * (Cardinality(Procs) - 1) * MaxValue
------------------------------------------------------------------------------
(* The inductive invariant.                                                 *)

StepsOf(kind) ==
  CASE kind = "write" -> {"size", "count", "total", "stat", "temp", "rename", "metaTemp",
                         "metaRename"}
    [] kind = "append" -> {"size", "count", "total", "stat", "open", "append", "metaTemp",
                          "metaRename"}
    [] kind = "delete" -> {"removeValue", "removeMeta"}
    [] kind = "read" -> {"check", "read"}
    [] kind = "search" -> {"list", "visit"}
    [] OTHER -> {"list", "visit", "removeValue", "removeMeta"}

\* A call is at a step of its kind, with its key at hand; a handle that is live is
\* one of a file that is there.
AtWork(t) ==
  /\ pc[t] = "idle" => op[t] = NoOp /\ loc[t] = Blank
  /\ pc[t] # "idle" =>
       /\ op[t] \in Op /\ pc[t] \in StepsOf(op[t].kind)
       /\ op[t].kind \notin {"search", "gc"} => loc[t].key = op[t].key
       /\ pc[t] \in {"removeValue", "removeMeta"} => loc[t].key \in Keys
       /\ loc[t].live => pc[t] = "append" /\ value[loc[t].key] # Missing

\* In one process, either one call or calls that share the lock.
Locked ==
  \A t, u \in Threads :
    t # u /\ ProcOf[t] = ProcOf[u] /\ pc[t] # "idle" /\ pc[u] # "idle"
      => Shared(op[t]) /\ Shared(op[u])

IInv == TypeOK /\ Locked /\ \A t \in Threads : AtWork(t)

\* The keys of calls whose check of the number of keys is behind them, and which may
\* still add a key.
KeysToCome == {loc[t].key : t \in {t \in Threads : pc[t] \in {"total", "stat", "temp", "rename", "open"}}}

KeysAccounted ==
  MaxKeys > 0
    => Cardinality(Listed \cup KeysToCome) <= MaxKeys + Cardinality(Procs) - 1

\* The calls whose value is still to be written: with their size known, and with the
\* total checked.
Sized == {t \in Threads : pc[t] \in {"count", "total", "stat"}}
Checked == {t \in Threads : pc[t] \in {"temp", "rename", "open", "append"}}
BytesToCome == Sized \cup Checked

\* A value whose size was taken is not larger than the limit.
SizesFit ==
  \A t \in BytesToCome :
    /\ MaxValue > 0 => loc[t].size <= MaxValue
    /\ loc[t].size >= Len(op[t].content)
    /\ op[t].kind = "write" => loc[t].size = Len(op[t].content)

\* The bytes stored once t has written its value.
BytesAfter(t) ==
  IF op[t].kind = "write" THEN StoredBytes - Size(value[loc[t].key]) + loc[t].size
  ELSE StoredBytes + Len(op[t].content)

\* What the other processes may add, a value each, and the most that the calls of S may.
Slack == (Cardinality(Procs) - 1) * MaxValue
MostOf(S) == Cardinality(S) * MaxValue

\* older[t] are the calls that took their size before t did.
TakenInTurn(older) ==
  /\ \A t \in BytesToCome : older[t] \subseteq BytesToCome \ {t}
  /\ \A t, u \in BytesToCome : t # u => t \in older[u] \/ u \in older[t]
  /\ \A t, u \in BytesToCome : t \in older[u] => older[t] \subseteq older[u] \ {t}

\* The sizes of the listed keys t has yet to look at.
SizesToAdd(t) == Tally([k \in Keys |-> Size(value[k])], loc[t].todo)

\* The size an append found is behind by no more than what the older calls have
\* written, and so are the sizes a call has added up; its check, for which both may be
\* behind, left room for two values of every older call.
Covered(older, t) ==
  /\ t \in Sized /\ op[t].kind = "append" =>
       Size(value[loc[t].key]) + Len(op[t].content) + MostOf(older[t])
         <= loc[t].size + Slack
  /\ pc[t] = "stat" =>
       StoredBytes + MostOf(older[t]) <= loc[t].total + SizesToAdd(t) + Slack
  /\ t \in Checked =>
       BytesAfter(t) + 2 * MostOf(older[t]) <= MaxTotal + 2 * Slack

\* The bytes stored leave room for the values of the calls of C, and every other call
\* took its size after those.
RoomFor(older, C) ==
  /\ TakenInTurn(older)
  /\ C \subseteq BytesToCome
  /\ StoredBytes + 2 * MostOf(C) <= MaxTotal + 2 * Slack
  /\ \A t \in BytesToCome \ C : C \subseteq older[t] /\ Covered(older, t)

BytesAccounted ==
  MaxTotal > 0 /\ MaxValue > 0
    => \E older \in [Threads -> SUBSET BytesToCome], C \in SUBSET BytesToCome : RoomFor(older, C)
------------------------------------------------------------------------------
(* How the steps of a call add up to one, in one process.                   *)

\* The call has the process to itself.
Excluding(t) == pc[t] # "idle" /\ ~Shared(op[t])

\* What a write or an append has checked, and what it has done to the files.
WriteSoFar(t) ==
  LET k == op[t].key
      new == Abstract!NewValue(op[t])
  IN /\ pc[t] \in {"size", "count", "total", "stat"} => loc[t].temp = 0
     /\ pc[t] \in {"count", "total", "stat", "temp", "rename", "open"} =>
          loc[t].size = Len(new)
     /\ pc[t] \in {"count", "total", "stat"} => Within(MaxValue, Len(new))
     /\ pc[t] \in {"total", "stat"} =>
          k \in Abstract!Stored \/ Within(MaxKeys, Cardinality(Abstract!Stored) + 1)
     /\ pc[t] = "stat" => loc[t].total + SizesToAdd(t) = StoredBytes + leaked
     /\ pc[t] \in {"temp", "rename", "open", "append", "metaTemp", "metaRename"} =>
          Abstract!Fits(k, Len(new))
     /\ pc[t] = "append" => loc[t].live
     /\ pc[t] = "metaRename" =>
          loc[t].now <= clock /\ (meta[k] # NoStamp => meta[k] <= loc[t].now)
     /\ meta = Seen.stamp
     /\ value = IF pc[t] \in {"metaTemp", "metaRename"} THEN [Seen.val EXCEPT ![k] = new]
                ELSE IF pc[t] = "append" /\ Seen.val[k] = Missing
                     THEN [Seen.val EXCEPT ![k] = <<>>]
                ELSE Seen.val

DeleteSoFar(t) ==
  /\ meta = Seen.stamp
  /\ value = IF pc[t] = "removeMeta" THEN [Seen.val EXCEPT ![op[t].key] = Missing]
             ELSE Seen.val

\* A collection has removed the values of R and the metadata of S.
CollectSoFar(t) ==
  \E R \in SUBSET {k \in Abstract!Stored : Abstract!Expired(k)} : \E S \in SUBSET R :
    /\ value = [k \in Keys |-> IF k \in R THEN Missing ELSE Seen.val[k]]
    /\ meta = [k \in Keys |-> IF k \in S THEN NoStamp ELSE Seen.stamp[k]]
    /\ loc[t].todo \subseteq Abstract!Stored \ R
    /\ pc[t] = "list" => R = {}
    /\ pc[t] = "removeValue" =>
         loc[t].key \in Abstract!Stored /\ Abstract!Expired(loc[t].key)
    /\ pc[t] = "removeMeta" => loc[t].key \in R
    /\ pc[t] \in {"removeValue", "removeMeta"} => loc[t].key \notin loc[t].todo
    /\ faults > 0 \/ R = IF pc[t] = "removeMeta" THEN S \cup {loc[t].key} ELSE S

SoFar(t) ==
  /\ op[t].kind \in {"write", "append"} => WriteSoFar(t)
  /\ op[t].kind = "delete" => DeleteSoFar(t)
  /\ op[t].kind = "gc" => CollectSoFar(t)

\* A search has read what it no longer has to visit.
SearchSoFar(t) ==
  /\ pc[t] = "list" => loc[t].found = [k \in Keys |-> Missing]
  /\ pc[t] = "visit" => \A k \in Keys \ loc[t].todo : loc[t].found[k] = value[k]

AddsUp ==
  /\ before[OneProcess] # NoStore <=> \E t \in Threads : Excluding(t)
  /\ leaked > 0 => faults > 0
  /\ \A k \in Keys : meta[k] # NoStamp => meta[k] <= clock
  /\ \A t \in Threads : Excluding(t) => SoFar(t)
  /\ \A t \in Threads : pc[t] # "idle" /\ op[t].kind = "search" => SearchSoFar(t)
==============================================================================
