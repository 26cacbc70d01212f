---------------------------- MODULE MCConfigFile ----------------------------
(* Small instances of ConfigFile: what the file may hold when somebody else  *)
(* has written it.                                                           *)
EXTENDS ConfigFile, TLC

CONSTANTS n1, n2, c1, c2, x1, r1

WithN1(entry, rest) ==
  [servers |-> [n \in Names |-> IF n = n1 THEN entry ELSE NoEntry], rest |-> rest]

\* No file, a document without servers, and one with another setting and an
\* entry of n1 that the user has tuned.
MCForeign ==
  {Absent, WithN1(NoEntry, NoRest), WithN1([cmd |-> c1, extra |-> x1], r1)}

\* The same with a file that does not parse and an entry with an old command.
MCForeignBroken ==
  {Absent, Broken, WithN1(NoEntry, r1), WithN1([cmd |-> c2, extra |-> x1], r1)}

Sym == Permutations(Editors)
==============================================================================
