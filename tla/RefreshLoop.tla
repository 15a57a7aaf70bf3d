------------------------------ MODULE RefreshLoop ------------------------------
(***************************************************************************)
(* From the planner's answer to the tasks that may be claimed: the answer  *)
(* is validated (PlanValidation), and the plan it becomes is swept by      *)
(* StateStore._refresh_ready_tasks in each transaction that changes task   *)
(* statuses, one task at a time in position order.  TaskGraph states what  *)
(* the sweeps compute as a least fixpoint; here they are shown to end, and *)
(* to end there, in whatever order the plan lists its tasks: the answer    *)
(* was validated, and nothing else is assumed of it.                       *)
(***************************************************************************)
EXTENDS PlanValidation

VARIABLES
  plan,     \* the plan whose tasks are swept
  start,    \* the statuses before the first sweep
  statuses, \* the statuses now
  visit,    \* the tasks this sweep has still to visit
  changed,  \* whether this sweep changed a status
  loop      \* "before" the transaction, "sweeping", or "left"

loopVars == <<plan, start, statuses, visit, changed, loop>>
vars == <<validationVars, loopVars>>

\* Between two transactions: no task waits for decided dependencies, and only
\* tasks whose dependencies succeeded went any further.
Committed(p) ==
  {st \in [Tasks -> {"absent", "pending", "ready", "running",
                     "succeeded", "failed", "blocked"}] :
     /\ \A t \in Tasks : st[t] = "absent" <=> t \notin p.tasks
     /\ \A t \in p.tasks :
          st[t] \in {"ready", "running", "succeeded", "failed"}
            => \A d \in p.deps[t] : st[d] = "succeeded"
     /\ Refresh(p, st) = st}

\* The result of one running task.
Results(p, st) ==
  {[st EXCEPT ![t] = result] : t \in {u \in p.tasks : st[u] = "running"},
                               result \in {"succeeded", "failed", "blocked", "retrying"}}

\* save_plan hands over a plan of pending tasks, claim_task what was committed,
\* and submit_task_result that with the result of one running task.
Inputs(p) ==
  {[t \in Tasks |-> IF t \in p.tasks THEN "pending" ELSE "absent"]}
    \cup Committed(p)
    \cup UNION {Results(p, st) : st \in Committed(p)}

Init ==
  /\ InitValidation
  /\ plan = NoPlan
  /\ start = [t \in Tasks |-> "absent"]
  /\ statuses = start
  /\ visit = {}
  /\ changed = FALSE
  /\ loop = "before"

\* A transaction on the plan that was accepted comes to its call of the loop.
Enter ==
  /\ verdict = "accepted" /\ loop = "before"
  /\ plan' = [NoPlan EXCEPT !.tasks = ids, !.deps = Answer.deps]
  /\ start' \in Inputs(plan')
  /\ statuses' = start'
  /\ visit' = ids
  /\ loop' = "sweeping"
  /\ UNCHANGED changed

\* The status a visited task moves to, its own when nothing is decided.
Moved(t) ==
  LET of == {statuses[d] : d \in plan.deps[t]}
  IN IF statuses[t] \notin Waiting THEN statuses[t]
     ELSE IF of \cap FailedDependency # {} THEN "blocked"
     ELSE IF of \subseteq {"succeeded"} THEN "ready"
     ELSE statuses[t]

\* A bug to find: a visit counts as a change.
VisitAlwaysChanges(t) ==
  /\ t \in visit
  /\ \A u \in visit : t <= u
  /\ visit' = visit \ {t}
  /\ statuses' = [statuses EXCEPT ![t] = Moved(t)]
  /\ changed' = (changed \/ statuses[t] \in Waiting)
  /\ UNCHANGED <<plan, start, loop>>

Visit(t) ==
  /\ t \in visit
  /\ \A u \in visit : t <= u
  /\ visit' = visit \ {t}
  /\ statuses' = [statuses EXCEPT ![t] = Moved(t)]
  /\ changed' = (changed \/ Moved(t) # statuses[t])
  /\ UNCHANGED <<plan, start, loop>>

SweepAgain ==
  /\ loop = "sweeping" /\ visit = {} /\ changed
  /\ visit' = plan.tasks
  /\ changed' = FALSE
  /\ UNCHANGED <<plan, start, statuses, loop>>

\* A bug to find: one sweep for all.
LeaveAfterFirstSweep ==
  /\ loop = "sweeping" /\ visit = {}
  /\ loop' = "left"
  /\ UNCHANGED <<plan, start, statuses, visit, changed>>

Leave ==
  /\ loop = "sweeping" /\ visit = {} /\ ~changed
  /\ loop' = "left"
  /\ UNCHANGED <<plan, start, statuses, visit, changed>>

Sweep == (\E t \in Tasks : Visit(t)) \/ SweepAgain \/ Leave

Next ==
  \/ Validate /\ UNCHANGED loopVars
  \/ (Enter \/ Sweep) /\ UNCHANGED validationVars

\* Validation and the loop are straight-line code of one thread: each runs to its end.
\* Nothing is assumed of the transaction in between.
Spec ==
  /\ Init /\ [][Next]_vars
  /\ WF_vars(Validate /\ UNCHANGED loopVars)
  /\ WF_vars(Sweep /\ UNCHANGED validationVars)

-----------------------------------------------------------------------------
\* When the loop is left, the statuses are the fixpoint TaskGraph states for the
\* statuses it was entered with: the order of the sweeps does not show.
EndsAtFixpoint == loop = "left" => statuses = Refresh(plan, start)

\* Every answer is accepted or rejected, the sort does not loop on a cycle, and the loop
\* of _refresh_ready_tasks is left whatever the statuses and the graph.
Terminates ==
  /\ <>(verdict \in {"accepted", "rejected"})
  /\ loop = "sweeping" ~> loop = "left"
=============================================================================
