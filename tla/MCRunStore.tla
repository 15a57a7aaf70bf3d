------------------------------ MODULE MCRunStore ------------------------------
(* Instances of RunStore for TLC: three tasks under acyclic graphs.          *)
EXTENDS RunStore

MCTasks == 1..3

Acyclic(g) == \A S \in SUBSET MCTasks : S # {} => \E t \in S : g[t] \cap S = {}

Graphs3 == {g \in [MCTasks -> SUBSET MCTasks] : Acyclic(g)}

\* The graphs with at least two dependencies: cascades of two tasks and of two
\* steps, and joins.  Those with fewer have less of the same.
Rich(g) == \E t, u, v, w \in MCTasks : <<t, u>> # <<v, w>> /\ u \in g[t] /\ w \in g[v]

\* The second of the three tasks may retry, and belongs to the host.
MCPlans ==
  {[ tasks    |-> MCTasks,
     deps     |-> g,
     executor |-> [t \in MCTasks |-> IF t = 2 THEN "host" ELSE "codex"],
     budget   |-> [t \in MCTasks |-> IF t = 2 THEN 2 ELSE 1],
     mutates  |-> {1, 2} ] : g \in {h \in Graphs3 : Rich(h)}}
=============================================================================
