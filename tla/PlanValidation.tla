----------------------------- MODULE PlanValidation -----------------------------
(***************************************************************************)
(* The validators of TaskSpec and RunPlan (src/agentbraid/models.py): the  *)
(* checks of each task's dependencies and the topological sort whose       *)
(* failure means a cycle.  They stand between the planner's answer and     *)
(* save_plan, so the store may assume ValidGraph of every plan it is given.*)
(***************************************************************************)
EXTENDS TaskGraph, Sequences, FiniteSets

CONSTANTS
  Unknown,   \* a task id no task of the plan has
  Answers    \* what the planner may answer: the dependencies of each task it lists

ASSUME UnknownAssumption == Unknown \notin Tasks
ASSUME AnswersAssumption ==
  \A a \in Answers :
    /\ DOMAIN a \subseteq Tasks /\ IsFiniteSet(DOMAIN a)
    /\ a \in [DOMAIN a -> SUBSET (DOMAIN a \cup {Unknown})]

VARIABLES
  ids,       \* the tasks of the answer
  deps,      \* the dependencies it gives each of them
  left,      \* the dependencies the sort has not removed yet
  ready,     \* tasks with none left that are not in ordered; the code keeps them sorted
  ordered,   \* the tasks in the order they were taken
  verdict    \* "checking", "sorting", "accepted" or "rejected"

validationVars == <<ids, deps, left, ready, ordered, verdict>>

InitValidation ==
  /\ deps \in Answers
  /\ ids = DOMAIN deps
  /\ left = deps
  /\ ready = {}
  /\ ordered = <<>>
  /\ verdict = "checking"

\* validate_dependencies and the first half of validate_graph; an empty list of
\* tasks is refused by the field's min_length.
Refused ==
  \/ ids = {}
  \/ \E t \in ids : t \in deps[t] \/ ~ deps[t] \subseteq ids

Refuse ==
  /\ verdict = "checking" /\ Refused
  /\ verdict' = "rejected"
  /\ UNCHANGED <<ids, deps, left, ready, ordered>>

StartSort ==
  /\ verdict = "checking" /\ ~Refused
  /\ verdict' = "sorting"
  /\ ready' = {t \in ids : deps[t] = {}}
  /\ UNCHANGED <<ids, deps, left, ordered>>

\* Tasks that taking t makes ready.
NewlyReady(t) == {u \in ids : t \in left[u] /\ left[u] \ {t} = {}}

TakeFirst ==
  /\ verdict = "sorting"
  /\ \E t \in ready :
       /\ \A u \in ready : t <= u
       /\ left' = [u \in ids |-> left[u] \ {t}]
       /\ ready' = (ready \ {t}) \cup NewlyReady(t)
       /\ ordered' = Append(ordered, t)
  /\ UNCHANGED <<ids, deps, verdict>>

\* A bug to find: any order at all will do.
EndSortUnchecked ==
  /\ verdict = "sorting" /\ ready = {}
  /\ verdict' = IF ordered # <<>> THEN "accepted" ELSE "rejected"
  /\ UNCHANGED <<ids, deps, left, ready, ordered>>

EndSort ==
  /\ verdict = "sorting" /\ ready = {}
  /\ verdict' = IF Len(ordered) = Cardinality(ids) THEN "accepted" ELSE "rejected"
  /\ UNCHANGED <<ids, deps, left, ready, ordered>>

Validate == Refuse \/ StartSort \/ TakeFirst \/ EndSort

-----------------------------------------------------------------------------
\* The graph of the answer as TaskGraph's functions on all of Tasks.
Answer ==
  [tasks |-> ids, deps |-> [t \in Tasks |-> IF t \in ids THEN deps[t] ELSE {}]]

OrderRespectsDependencies ==
  /\ {ordered[i] : i \in DOMAIN ordered} = ids
  /\ \A i, j \in DOMAIN ordered : ordered[i] \in deps[ordered[j]] => i < j

\* A plan gets through RunPlan's validators exactly when its graph is what the
\* store assumes: nonempty, closed, and without a cycle; and the order of those that
\* do, which nobody checks again, lists every task once and after all it depends on.
AcceptsExactlyValidGraphs ==
  /\ verdict = "accepted" => ValidGraph(Answer) /\ OrderRespectsDependencies
  /\ verdict = "rejected" => ~ValidGraph(Answer)
=============================================================================
