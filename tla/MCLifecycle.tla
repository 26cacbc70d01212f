----------------------------- MODULE MCLifecycle -----------------------------
(* Small instances of Lifecycle. *)
EXTENDS Lifecycle, TLC

\* Every command selects every runtime.
AllRuntimes == {Runtimes}

AllConfigs == Places \X Runtimes

Sym == Permutations(Runtimes)
==============================================================================
