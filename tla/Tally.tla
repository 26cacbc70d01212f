-------------------------------- MODULE Tally --------------------------------
(* A sum of natural numbers, counted: what the files of a directory take   *)
(* together.  As a cardinality it can be reasoned about with the theorems  *)
(* on finite sets.                                                         *)
EXTENDS Naturals, FiniteSets

\* For each x the pairs <<x, 1>>, ..., <<x, f[x]>>.
Units(f, S) == UNION {{x} \X (1..f[x]) : x \in S}

\* The sum of f over S.
Tally(f, S) == Cardinality(Units(f, S))
==============================================================================
