---------------------------- MODULE MCMemoryStore ----------------------------
(* Small instances of MemoryStore. *)
EXTENDS MemoryStore, TLC

CONSTANTS p1, a

\* All callers in one process.
OneProc == [t \in Threads |-> p1]

\* Each caller in a process of its own; the threads name the processes.
OwnProc == [t \in Threads |-> t]

AllCalls == {"write", "append", "delete", "read", "search", "gc"}

\* The calls that can meet or relieve a limit, nothing expiring.
Changes == {"write", "append", "delete"}

\* One chunk at a time.
Short == {<<a>>}

Sym == Permutations(Threads)
KeySym == Permutations(Threads) \cup Permutations(Keys)
==============================================================================
