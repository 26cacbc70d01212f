----------------------------- MODULE MCReleases -----------------------------
(* Small instances of Releases and ParallelBuild, which share nothing: a   *)
(* behaviour is of the one or of the other.                                *)
EXTENDS Releases, ParallelBuild, TLC

CONSTANTS a1, a2, i2

Order(all, agents, version, skip, token) ==
  [all |-> all, agents |-> agents, version |-> version, skip |-> skip, token |-> token]

\* --all, a pinned one with a token and without, and one without its checksum.
MCOrders ==
  {Order(TRUE, {}, Latest, FALSE, FALSE), Order(FALSE, {a1}, 1, FALSE, TRUE),
   Order(FALSE, {a1}, 1, FALSE, FALSE), Order(FALSE, {a1}, Latest, TRUE, FALSE)}

\* A tag without an agent, and a release without checksums.
MCHandmade ==
  {[id |-> 1, agent |-> x, version |-> 1, sums |-> None, by |-> None,
    binary |-> [agent |-> a1, version |-> 1, build |-> 0]] : x \in {Plain, a1}}

VARIABLE scene

\* "list": one installer and one fault, and a list that changes under its pages.
\* "race": two installers of one agent, one version of it, and two faults: a release
\* can be replaced under its tag, and two copies meet in one file.
InScene ==
  /\ scene = "list" => inst[i2] = Idle /\ faults <= 1
  /\ scene = "race" =>
       /\ \A i \in Installers :
            inst[i] # Idle => ~inst[i].all /\ inst[i].todo \subseteq {a1} /\ inst[i].tries = 0
       /\ \A p \in Publishers :
            pub[p].step = "compile" => pub[p].todo \subseteq {a1} /\ pub[p].version = 1

MCInit ==
  /\ Init /\ BuildInit
  /\ scene \in {"build", "list", "race"}
  /\ scene # "list" => repo = <<>>
  /\ scene # "build" => limit = 0

MCNext ==
  /\ UNCHANGED scene
  /\ \/ scene = "build" /\ BuildAll /\ UNCHANGED vars
     \/ scene # "build" /\ Next /\ UNCHANGED buildVars /\ InScene'

MCSpec == MCInit /\ [][MCNext]_<<vars, buildVars, scene>>

Sym == Permutations(Publishers)
==============================================================================
