----------------------------- MODULE MCCliWriter -----------------------------
(* A small instance of CliWriter: two installs of one agent.              *)
EXTENDS CliWriter, TLC

CONSTANTS c1, c2, v1

E(cmd, env, timeout, cwd, other) ==
  [command |-> cmd, env |-> env, timeout |-> timeout, cwd |-> cwd, other |-> other]

\* No entry, a plain one, one with the user's environment and a timeout, one
\* with a directory, and one with a key that abby does not own.
MCEntries ==
  {Absent, E(c1, Unset, Unset, Unset, Unset), E(c2, v1, v1, Unset, Unset),
   E(c2, Unset, Unset, v1, Unset), E(c2, v1, Unset, Unset, v1)}

R(env, timeout, cwd, dash) ==
  [command |-> c1, env |-> env, timeout |-> timeout, cwd |-> cwd, dash |-> dash]

\* A plain entry, one with a timeout and an environment, one with a timeout,
\* a project entry with its directory, and one with an argument that looks like a flag.
MCRequests ==
  {R(Unset, Unset, Unset, FALSE), R(v1, v1, Unset, FALSE),
   R(Unset, v1, Unset, FALSE), R(Unset, v1, v1, FALSE), R(Unset, v1, Unset, TRUE)}

S(runtime, scope, onPath, method) ==
  [runtime |-> runtime, scope |-> scope, onPath |-> onPath, method |-> method]

MCSetups ==
  {S("claude", "project", TRUE, "auto"), S("gemini", "user", TRUE, "auto"),
   S("gemini", "project", TRUE, "auto"), S("codex", "user", TRUE, "auto"),
   S("claude", "user", FALSE, "auto"), S("gemini", "user", TRUE, "cli"),
   S("claude", "project", TRUE, "file")}

Sym == Permutations(Procs)
==============================================================================
