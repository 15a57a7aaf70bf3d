----------------------------- MODULE MCIntegration -----------------------------
(* Instances of Integration for TLC.                                          *)
EXTENDS Integration

MCTasks == 1..3

\* The host's second commit clashes with the worker's first.  The third task needs
\* both of their tasks, or, where nothing is tried twice, the first one only: then it
\* may begin while the second is integrated.
MCPlan(deps, budget) ==
  [ tasks    |-> MCTasks,
    deps     |-> [t \in MCTasks |-> IF t = 3 THEN deps ELSE {}],
    executor |-> [t \in MCTasks |-> IF t = 2 THEN "host" ELSE "codex"],
    budget   |-> [t \in MCTasks |-> IF t = 3 THEN 1 ELSE budget],
    mutates  |-> MCTasks ]

MCPlans == {MCPlan({1, 2}, 2), MCPlan({1}, 1)}

MCClashes == {{<<1, 1>>, <<2, 2>>}}
=============================================================================
