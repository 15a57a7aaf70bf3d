------------------------------- MODULE MCCleanup -------------------------------
(* Instances of Cleanup for TLC.                                             *)
EXTENDS Cleanup

MCTasks == 1..2

\* One task of Codex and one of the host, side by side or one after the other.
MCPlans ==
  {[ tasks    |-> MCTasks,
     deps     |-> [t \in MCTasks |-> IF t = 2 THEN first ELSE {}],
     executor |-> [t \in MCTasks |-> IF t = 2 THEN "host" ELSE "codex"],
     budget   |-> [t \in MCTasks |-> 1],
     mutates  |-> MCTasks ] : first \in {{}, {1}}}
=============================================================================
