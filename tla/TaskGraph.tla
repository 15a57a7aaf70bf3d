------------------------------- MODULE TaskGraph -------------------------------
(***************************************************************************)
(* Plans, task statuses, and what a change of statuses does to the tasks   *)
(* that depend on each other (src/agentbraid/models.py, store.py).         *)
(*                                                                         *)
(* A task is identified with its position in the plan, a number, because   *)
(* the position is what the code orders tasks by.                          *)
(***************************************************************************)
EXTENDS Naturals, FiniteSets

CONSTANT Tasks   \* every position a plan may use

ASSUME TasksAssumption == Tasks \subseteq Nat

TaskStatuses == {"pending", "ready", "running", "retrying",
                 "succeeded", "failed", "blocked", "cancelled"}

\* _ACTIVE_TASK_STATUSES and _FAILED_DEPENDENCY_STATUSES
Active == {"pending", "ready", "running", "retrying"}
FailedDependency == {"failed", "blocked", "cancelled"}

\* The two statuses _refresh_ready_tasks looks at.
Waiting == {"pending", "retrying"}

Executors == {"codex", "host"}

-----------------------------------------------------------------------------
(* Plans.  RunPlan.validate_graph rejects an empty plan, an unknown or a   *)
(* self dependency, and a cycle; a graph has no cycle exactly when every   *)
(* nonempty set of tasks has a member that depends on no other member.     *)

PlanType ==
  [ tasks    : SUBSET Tasks,
    deps     : [Tasks -> SUBSET Tasks],
    executor : [Tasks -> Executors],
    budget   : [Tasks -> Nat \ {0}],   \* max_attempts
    mutates  : SUBSET Tasks ]          \* the tasks with mutates_workspace

ValidGraph(p) ==
  /\ p.tasks # {}
  /\ \A t \in Tasks : p.deps[t] \subseteq IF t \in p.tasks THEN p.tasks ELSE {}
  /\ \A S \in SUBSET p.tasks : S # {} => \E t \in S : p.deps[t] \cap S = {}

NoPlan ==
  [ tasks    |-> {},
    deps     |-> [t \in Tasks |-> {}],
    executor |-> [t \in Tasks |-> "host"],
    budget   |-> [t \in Tasks |-> 1],
    mutates  |-> {} ]

\* The i-th lowest of a set of positions.
Nth(S, i) == CHOOSE t \in S : Cardinality({u \in S : u <= t}) = i

-----------------------------------------------------------------------------
(* _refresh_ready_tasks.  The code sweeps the tasks until nothing changes; *)
(* what the sweeps reach is a least fixpoint, stated here without them     *)
(* (module RefreshLoop models the sweeps and shows they end there).        *)

\* D holds every waiting task with a dependency that failed or is in D.
ClosedUnderFailure(p, st, D) ==
  \A t \in p.tasks :
    st[t] \in Waiting /\ (\E d \in p.deps[t] : st[d] \in FailedDependency \/ d \in D)
      => t \in D

\* A bug to find: one sweep that looks at the statuses it started from.
DoomedByOneSweep(p, st) ==
  {t \in p.tasks : st[t] \in Waiting /\ \E d \in p.deps[t] : st[d] \in FailedDependency}

\* The least such set.
Doomed(p, st) ==
  {t \in p.tasks : \A D \in SUBSET p.tasks : ClosedUnderFailure(p, st, D) => t \in D}

\* A bug to find: one succeeded dependency is taken for all of them.
RefreshOnAnySuccess(p, st) ==
  [t \in Tasks |->
     IF t \in Doomed(p, st) THEN "blocked"
     ELSE IF st[t] \in Waiting
             /\ (p.deps[t] = {} \/ \E d \in p.deps[t] : st[d] = "succeeded")
          THEN "ready"
          ELSE st[t]]

Refresh(p, st) ==
  [t \in Tasks |->
     IF t \in Doomed(p, st) THEN "blocked"
     ELSE IF st[t] \in Waiting /\ \A d \in p.deps[t] : st[d] = "succeeded"
          THEN "ready"
          ELSE st[t]]
=============================================================================
