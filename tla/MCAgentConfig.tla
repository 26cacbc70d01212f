---------------------------- MODULE MCAgentConfig ----------------------------
(* A small instance of AgentConfig. *)
EXTENDS AgentConfig, TLC

CONSTANTS banana, n1, sub, link, blank, odd, t1, minus, dot, compiled, p1, p2

MCChoices ==
  {<<"toolTimeout", banana>>, <<"lines", n1>>, <<"dirs", link>>, <<"commands", odd>>,
   <<"commandTimeout", t1>>}

MCIllegal == {banana, blank, odd, minus}

MCCompiled == [f \in Fields |-> IF f = "dirs" THEN sub ELSE compiled]

MCDefault == [f \in SandboxFields |-> IF f = "dirs" THEN dot ELSE compiled]

\* What the user types into the file: settings no command would write.
MCHandEdits ==
  {Broken,
   [Nothing EXCEPT !.limits = n1, !.bash = odd],
   [Nothing EXCEPT !.dirs = blank, !.commandTimeout = t1],
   [Nothing EXCEPT !.overflow = n1, !.commandTimeout = minus, !.dirs = link]}

Sym == Permutations(Procs)
==============================================================================
