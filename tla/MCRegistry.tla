------------------------------ MODULE MCRegistry ------------------------------
(* Small instances of Registry. *)
EXTENDS Registry, TLC

Sym == Permutations(Procs) \cup Permutations(Agents) \cup Permutations(Inodes)
         \cup Permutations(Entries)
==============================================================================
