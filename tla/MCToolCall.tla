----------------------------- MODULE MCToolCall -----------------------------
(* A small instance of ToolCall. *)
EXTENDS ToolCall

C(kind, toolTimeout, maxCommand, requested) ==
  [kind |-> kind, legal |-> TRUE, allowed |-> TRUE, toolTimeout |-> toolTimeout,
   maxCommand |-> maxCommand, requested |-> requested]

MCCalls ==
  {C(k, t, m, r) : k \in {"cli", "run_command", "handler", "memory"}, t \in {-1, 0, 2, 6},
                   m \in {1, 5}, r \in {0, 2, 7}}
    \cup {[C("cli", 2, 5, 0) EXCEPT !.legal = FALSE],
          [C("run_command", 2, 5, 0) EXCEPT !.allowed = FALSE]}
==============================================================================
