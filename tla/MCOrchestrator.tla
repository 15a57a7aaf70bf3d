---------------------------- MODULE MCOrchestrator ----------------------------
(* Instances of Orchestrator for TLC.                                        *)
EXTENDS Orchestrator

MCTasks == 1..3

\* Two tasks of Codex and one of the host.
Division == [t \in MCTasks |-> IF t = 2 THEN "host" ELSE "codex"]

Mixed(deps, budget) ==
  [ tasks |-> MCTasks, deps |-> deps, executor |-> Division,
    budget |-> budget, mutates |-> {1, 2} ]

Once == [t \in MCTasks |-> 1]
FirstRetried == [t \in MCTasks |-> IF t = 1 THEN 2 ELSE 1]

\* All at once; the host after Codex and before it.
Parallel == [t \in MCTasks |-> {}]
HostBetween == [t \in MCTasks |-> {t - 1} \cap MCTasks]
HostFirst == [t \in MCTasks |-> {2} \ {t}]

MCPlans == {Mixed(Parallel, Once), Mixed(HostBetween, FirstRetried), Mixed(HostFirst, Once)}

\* With failures, without the graph that has the most interleavings.
OrderedPlans == MCPlans \ {Mixed(Parallel, Once)}

MCClaimants == {CodexWorker, "host"}
=============================================================================
