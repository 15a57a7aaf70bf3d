------------------------------- MODULE RunStore -------------------------------
(***************************************************************************)
(* The run store of AgentBraid (src/agentbraid/store.py): the rows of one  *)
(* run and of its tasks, and the operations that change them.  Every       *)
(* operation is one SQLite transaction, so every operation is one action;  *)
(* an operation that raises leaves the rows as they were and is no step.   *)
(***************************************************************************)
EXTENDS TaskGraph

CONSTANTS
  Plans,      \* the plans the planner may hand to save_plan
  Claimants   \* the names a worker or a host claims tasks under

-----------------------------------------------------------------------------
(* Run statuses *)

RunStatuses == {"created", "planning", "running", "integrating", "reviewing",
                "blocked", "completed", "cancelled", "failed"}

TerminalRun == {"completed", "cancelled", "failed"}

\* _RUN_TRANSITIONS: what set_run_status accepts from each status.
RunTransitions ==
  [ created     |-> {"planning", "cancelled", "failed"},
    planning    |-> {"running", "blocked", "cancelled", "failed"},
    running     |-> {"integrating", "reviewing", "blocked", "cancelled", "failed"},
    integrating |-> {"reviewing", "blocked", "cancelled", "failed"},
    reviewing   |-> {"completed", "blocked", "cancelled", "failed"},
    blocked     |-> {"running", "cancelled", "failed"},
    completed   |-> {},
    cancelled   |-> {},
    failed      |-> {} ]

Outcomes  == {"succeeded", "failed", "blocked"}
Deliveries == {"integration_branch", "report_only"}

ASSUME PlansAssumption == \A p \in Plans : p \in PlanType /\ ValidGraph(p)

-----------------------------------------------------------------------------
VARIABLES
  run,        \* the run's status; "none" before its row exists, "deleted" after
  delivery,   \* the delivery mode of its request
  plan,       \* the persisted plan, NoPlan until save_plan
  status,     \* a task's status; "absent" when the run has no such row
  attempt,    \* how often the task was claimed
  claimant,   \* claimed_by, "nobody" for NULL
  worktree,   \* whether worktree_path is set
  commit      \* whether commit_sha is set

vars == <<run, delivery, plan, status, attempt, claimant, worktree, commit>>
details == <<attempt, claimant, worktree, commit>>

Absent == [t \in Tasks |-> "absent"]

-----------------------------------------------------------------------------
\* _sync_run_from_tasks, on the task statuses st.
Verdict(p, st) ==
  IF \A t \in p.tasks : st[t] = "succeeded"
  THEN IF delivery = "integration_branch" THEN "integrating" ELSE "reviewing"
  ELSE IF \E t \in p.tasks : st[t] = "failed" THEN "failed" ELSE "blocked"

\* A bug to find: the run fails with its first failed task.
SyncRunFailingFast(st) ==
  IF run = "running" /\ \E t \in plan.tasks : st[t] = "failed" THEN "failed"
  ELSE IF run = "running" /\ \A t \in plan.tasks : st[t] \notin Active
  THEN Verdict(plan, st)
  ELSE run

SyncRun(st) ==
  IF run = "running" /\ \A t \in plan.tasks : st[t] \notin Active
  THEN Verdict(plan, st)
  ELSE run

\* A bug to find: what was blocked is tried again.
ResultStatusRetriesBlocked(t, outcome) ==
  CASE outcome = "succeeded" -> "succeeded"
    [] outcome \in {"failed", "blocked"} -> IF attempt[t] < plan.budget[t]
                                           THEN "retrying" ELSE outcome

\* A bug to find: one attempt too many.
ResultStatusOneMore(t, outcome) ==
  CASE outcome = "succeeded" -> "succeeded"
    [] outcome = "blocked"   -> "blocked"
    [] outcome = "failed"    -> IF attempt[t] <= plan.budget[t]
                                THEN "retrying" ELSE "failed"

\* _result_status
ResultStatus(t, outcome) ==
  CASE outcome = "succeeded" -> "succeeded"
    [] outcome = "blocked"   -> "blocked"
    [] outcome = "failed"    -> IF attempt[t] < plan.budget[t]
                                THEN "retrying" ELSE "failed"

-----------------------------------------------------------------------------
(* Operations *)

CreateRun(mode) ==
  /\ run = "none"
  /\ run' = "created"
  /\ delivery' = mode
  /\ UNCHANGED <<plan, status, details>>

\* save_plan inserts every task as pending and then refreshes; it does not
\* sync the run.
SavePlan(p) ==
  /\ run \in {"created", "planning"}
  /\ plan.tasks = {}
  /\ run' = "running"
  /\ plan' = p
  /\ status' = Refresh(p, [t \in Tasks |-> IF t \in p.tasks THEN "pending" ELSE "absent"])
  /\ UNCHANGED <<delivery, details>>

\* The statuses the callers of set_run_status ask for: begin_planning, the
\* failures of planning, the finalizer, and the Dashboard's failure mark.  A
\* running run is only ever marked failed, since the finalizer acts on runs it
\* read as integrating or reviewing.
CallersAsk(s) ==
  /\ s \in {"planning", "failed", "blocked", "reviewing", "completed"}
  /\ run = "running" => s = "failed"

Accepts(s) == run \in RunStatuses /\ s \in RunTransitions[run]

SetRunStatus(s) ==
  /\ Accepts(s)
  /\ run' = s
  /\ UNCHANGED <<delivery, plan, status, details>>

\* A bug to find: a running task is taken for one that was given up.
ClaimableAgain(e, wanted) ==
  {t \in wanted : /\ Refresh(plan, status)[t] \in {"ready", "running"}
                  /\ plan.executor[t] = e /\ attempt[t] < plan.budget[t]}

\* claim_task: the ready task of the lowest position among wanted (every task,
\* or the one task_id names).  The refresh is kept even when nothing is claimed.
Claimable(e, wanted) ==
  {t \in wanted : Refresh(plan, status)[t] = "ready" /\ plan.executor[t] = e}

ClaimTask(e, w, wanted) ==
  /\ run = "running"
  /\ \E t \in Claimable(e, wanted) :
       /\ \A u \in Claimable(e, wanted) : t <= u
       /\ status' = [Refresh(plan, status) EXCEPT ![t] = "running"]
       /\ attempt' = [attempt EXCEPT ![t] = @ + 1]
       /\ claimant' = [claimant EXCEPT ![t] = w]
       /\ commit' = [commit EXCEPT ![t] = FALSE]
  /\ UNCHANGED <<run, delivery, plan, worktree>>

ClaimNothing(e, wanted) ==
  /\ run = "running"
  /\ Claimable(e, wanted) = {}
  /\ status' = Refresh(plan, status)
  /\ UNCHANGED <<run, delivery, plan, details>>

\* submit_task_result looks at the task's row only, never at the run's status.
CanSubmit(t, w, outcome, sha) ==
  /\ run \in RunStatuses
  /\ status[t] = "running"
  /\ claimant[t] = w
  /\ outcome = "succeeded" /\ t \in plan.mutates => sha

\* A bug to find: the dependents are left to the next claim.
SubmitWithoutRefresh(t, w, outcome, sha, path) ==
  /\ CanSubmit(t, w, outcome, sha)
  /\ status' = [status EXCEPT ![t] = ResultStatus(t, outcome)]
  /\ run' = SyncRun(status')
  /\ worktree' = [worktree EXCEPT ![t] = path]
  /\ commit' = [commit EXCEPT ![t] = sha]
  /\ UNCHANGED <<delivery, plan, attempt, claimant>>

SubmitTaskResult(t, w, outcome, sha, path) ==
  /\ CanSubmit(t, w, outcome, sha)
  /\ status' = Refresh(plan, [status EXCEPT ![t] = ResultStatus(t, outcome)])
  /\ run' = SyncRun(status')
  /\ worktree' = [worktree EXCEPT ![t] = path]
  /\ commit' = [commit EXCEPT ![t] = sha]
  /\ UNCHANGED <<delivery, plan, attempt, claimant>>

SetTaskWorktree(t) ==
  /\ run \in RunStatuses
  /\ status[t] = "running"
  /\ worktree' = [worktree EXCEPT ![t] = TRUE]
  /\ UNCHANGED <<run, delivery, plan, status, attempt, claimant, commit>>

\* A bug to find: running tasks are left to their workers.
CancelWaitingOnly ==
  /\ run \in RunStatuses \ TerminalRun
  /\ run' = "cancelled"
  /\ status' = [t \in Tasks |-> IF status[t] \in {"pending", "ready", "retrying"}
                               THEN "cancelled" ELSE status[t]]
  /\ UNCHANGED <<delivery, plan, details>>

CancelRun ==
  /\ run \in RunStatuses \ TerminalRun
  /\ run' = "cancelled"
  /\ status' = [t \in Tasks |-> IF status[t] \in Active THEN "cancelled" ELSE status[t]]
  /\ UNCHANGED <<delivery, plan, details>>

\* A bug to find: the task rows are left behind.
DeleteWithoutCascade ==
  /\ run \in TerminalRun
  /\ run' = "deleted"
  /\ plan' = NoPlan
  /\ UNCHANGED <<delivery, status, details>>

\* The foreign keys of tasks and task_dependencies cascade.
DeleteRunRecord ==
  /\ run \in TerminalRun
  /\ run' = "deleted"
  /\ plan' = NoPlan
  /\ status' = Absent
  /\ attempt' = [t \in Tasks |-> 0]
  /\ claimant' = [t \in Tasks |-> "nobody"]
  /\ worktree' = [t \in Tasks |-> FALSE]
  /\ commit' = [t \in Tasks |-> FALSE]
  /\ UNCHANGED delivery

-----------------------------------------------------------------------------
Init ==
  /\ run = "none"
  /\ delivery \in Deliveries
  /\ plan = NoPlan
  /\ status = Absent
  /\ attempt = [t \in Tasks |-> 0]
  /\ claimant = [t \in Tasks |-> "nobody"]
  /\ worktree = [t \in Tasks |-> FALSE]
  /\ commit = [t \in Tasks |-> FALSE]

\* A claim names one task or none.
Wishes == {Tasks} \cup {{t} : t \in Tasks}

Next ==
  \/ \E mode \in Deliveries : CreateRun(mode)
  \/ \E p \in Plans : SavePlan(p)
  \/ \E s \in RunStatuses : CallersAsk(s) /\ SetRunStatus(s)
  \/ \E e \in Executors, w \in Claimants, wanted \in Wishes : ClaimTask(e, w, wanted)
  \/ \E e \in Executors, wanted \in Wishes : ClaimNothing(e, wanted)
  \/ \E t \in Tasks, w \in Claimants, o \in Outcomes, sha, path \in BOOLEAN :
       SubmitTaskResult(t, w, o, sha, path)
  \/ \E t \in Tasks : SetTaskWorktree(t)
  \/ CancelRun
  \/ DeleteRunRecord

Spec == Init /\ [][Next]_vars

-----------------------------------------------------------------------------
(* What is expected of the store *)

\* Every row has the columns the schema gives it, and exactly the tasks of the
\* persisted plan have rows.
RowsTyped ==
  /\ run \in RunStatuses \cup {"none", "deleted"}
  /\ delivery \in Deliveries
  /\ plan \in Plans \cup {NoPlan}
  /\ status \in [Tasks -> TaskStatuses \cup {"absent"}]
  /\ \A t \in Tasks : status[t] = "absent" <=> t \notin plan.tasks
  /\ attempt \in [Tasks -> Nat]
  /\ claimant \in [Tasks -> Claimants \cup {"nobody"}]
  /\ worktree \in [Tasks -> BOOLEAN]
  /\ commit \in [Tasks -> BOOLEAN]

\* No task is handed out more often than its max_attempts, and one that can
\* still be claimed has an attempt left.
WithinBudget ==
  \A t \in plan.tasks :
    /\ attempt[t] <= plan.budget[t]
    /\ status[t] \in {"pending", "ready"} => attempt[t] < plan.budget[t]

\* The rows are what the columns of tasks, plans and attempts may hold together.
TypeOK == RowsTyped /\ WithinBudget

\* A task is offered, run, completed or failed only after every task it depends
\* on succeeded, through every order of claims, retries and late results.
DependenciesFirst ==
  \A t \in plan.tasks :
    status[t] \in {"ready", "running", "succeeded", "failed"}
      => \A d \in plan.deps[t] : status[d] = "succeeded"

\* What a committed transaction leaves behind is a fixpoint of
\* _refresh_ready_tasks: no task waits although its dependencies are decided,
\* and retrying is never seen by a reader.
Refreshed == Refresh(plan, status) = status

\* A run that left running has no task still to be done.  A failed run is the
\* exception: _mark_background_failure fails a run over its running tasks.
Settled ==
  run \in {"integrating", "reviewing", "blocked", "completed", "cancelled"}
    => \A t \in plan.tasks : status[t] \notin Active

\* Only a run whose tasks all succeeded is integrated, reviewed or completed.
DeliversWholePlan ==
  run \in {"integrating", "reviewing", "completed"}
    => plan.tasks # {} /\ \A t \in plan.tasks : status[t] = "succeeded"

\* What a run says of itself agrees with its tasks, in every row a reader may see.
RunAgreesWithTasks == Settled /\ DeliversWholePlan

\* A running run always has a task to claim or one being worked on: the cascade
\* of failures never leaves a run whose remaining tasks wait for each other.
NeverStuck ==
  run = "running" => \E t \in plan.tasks : status[t] \in {"ready", "running"}

\* A finished run stays as it is until its record is deleted, and a decided task
\* is never decided again, whatever late results and cancellations arrive.
Decided == {"succeeded", "failed", "blocked", "cancelled"}

KeepsDecisions ==
  /\ run \in TerminalRun => run' \in {run, "deleted"}
  /\ \A t \in plan.tasks :
       status[t] \in Decided => status'[t] = status[t] \/ run' = "deleted"

DecisionsAreFinal == [][KeepsDecisions]_vars

-----------------------------------------------------------------------------
(* The store implements the board of module TaskBoard. *)

Phase ==
  CASE run \in {"none", "created", "planning"}       -> "draft"
    [] run = "running"                               -> "open"
    [] run \in {"integrating", "reviewing"}          -> "delivered"
    [] run = "completed"                             -> "approved"
    [] run \in {"blocked", "failed", "cancelled"}    -> "closed"
    [] run = "deleted"                               -> "gone"

Board == INSTANCE TaskBoard WITH
  phase <- Phase,
  held  <- {t \in plan.tasks : status[t] = "running"},
  won   <- {t \in plan.tasks : status[t] = "succeeded"},
  lost  <- {t \in plan.tasks : status[t] \in FailedDependency},
  tries <- attempt

\* Every transaction of the store is a step of the board or none of it: tasks
\* are handed out in dependency order, a failure takes exactly its dependents
\* with it, and the last decision delivers or closes the run.
ImplementsBoard == Board!Spec
=============================================================================
