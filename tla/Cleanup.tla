-------------------------------- MODULE Cleanup --------------------------------
(***************************************************************************)
(* What becomes of a run's branches and worktrees: made by the execution,  *)
(* worked on by Codex and the host, merged into the user's branch by       *)
(* apply_run or by the user, and taken away by delete_run                  *)
(* (src/agentbraid/worktrees.py, and the callers of it in service.py).     *)
(*                                                                         *)
(* The execution is in one process; cancelling, applying and deleting come *)
(* from another one, and interleave with it at every Git command that      *)
(* matters here.  Integrating is one step (module Integration has its      *)
(* own), and every task changes the workspace.                             *)
(***************************************************************************)
EXTENDS RunStore, FiniteSets, Sequences, Functions

CONSTANTS
  HostTasks,   \* the tasks that plans give to the host
  MaxCommits,  \* bound: the commits made for a task
  Crashes      \* whether a process may end

ASSUME CleanupAssumption ==
  /\ \A p \in Plans, t \in Tasks : t \in p.tasks => (p.executor[t] = "host" <=> t \in HostTasks)
  /\ \A p \in Plans : IsFiniteSet(p.tasks)
  /\ MaxCommits \in Nat
  /\ Crashes \in BOOLEAN

VARIABLES
  head,      \* the commits of the run in the user's branch
  moved,     \* whether the user has committed there
  branch,    \* the commits on the integration branch, or NoBranch
  folder,    \* whether its worktree is there
  own,       \* the commits on a task's branch, or NoBranch
  place,     \* a task's worktree: "absent", "clean" or "dirty"
  planner,   \* where execute_run is before it has a plan
  stage,     \* where the work at a task is
  review,    \* whether a review is under way
  applying,  \* whether apply_run has checked its target
  deletion,  \* what delete_run still has to do
  history    \* what the properties remember

gitVars == <<head, moved, branch, folder, own, place>>
allVars == <<vars, gitVars, planner, stage, review, applying, deletion, history>>

\* A commit is <<task, n>>; picking it keeps its content, which is what counts here.
NoBranch == {<<0, 0>>}
CommitsOf(t) == {c \in history.made : c[1] = t}
NewCommit(t) == <<t, 1 + CHOOSE n \in 0..MaxCommits : CommitsOf(t) = {<<t, m>> : m \in 1..n}>>
MayCommit(t) == CommitsOf(t) # {<<t, m>> : m \in 1..MaxCommits}

\* The user's branch is where it was when the run was created.
Unmoved == head = {} /\ ~moved

\* delete_run is a list of Git commands that are still to go.
Command(do, t) == [do |-> do, task |-> t]
Deleting == deletion # <<>>
Pending(c) == c \in Range(deletion)

-----------------------------------------------------------------------------
(* Execution *)

Open(mode) ==
  CreateRun(mode) /\ UNCHANGED <<gitVars, planner, stage, review, applying, deletion, history>>

BeginPlanning ==
  /\ run = "created" /\ planner = "none"
  /\ IF Unmoved
     THEN SetRunStatus("planning") /\ planner' = "asking"
     ELSE SetRunStatus("failed") /\ UNCHANGED planner
  /\ UNCHANGED <<gitVars, stage, review, applying, deletion, history>>

\* The answer of the planner counts in a run that is not cancelled.
PlanArrives ==
  /\ planner = "asking"
  /\ planner' = IF run = "planning" THEN "preparing" ELSE "none"
  /\ UNCHANGED <<vars, gitVars, stage, review, applying, deletion, history>>

\* prepare_run takes the branch and the worktree that are there or makes new ones
\* from base, the run's base commit if the caller has it and HEAD if not.
PrepareRun(base) ==
  /\ branch' = IF branch = NoBranch THEN base ELSE branch
  /\ folder' = TRUE

\* History: the branches that are made when a deletion has already removed them, as the
\* commands that did.
Remade(made) ==
  IF Deleting THEN history.remade \cup {c \in made : ~Pending(c)} ELSE history.remade
MakingBranch == IF branch = NoBranch THEN {Command("runBranch", 0)} ELSE {}
MakingOwn(t) == IF own[t] = NoBranch THEN {Command("branch", t)} ELSE {}

MakeBranch ==
  /\ planner = "preparing"
  /\ IF Unmoved
     THEN PrepareRun({}) /\ planner' = "saving" /\ UNCHANGED vars
     ELSE /\ \/ SetRunStatus("failed")
             \/ ~Accepts("failed") /\ UNCHANGED vars
          /\ planner' = "none"
          /\ UNCHANGED <<branch, folder>>
  /\ UNCHANGED <<head, moved, own, place, stage, review, applying, deletion, history>>

Publish(p) ==
  /\ planner = "saving"
  /\ \/ SavePlan(p)
     \/ run # "planning" /\ UNCHANGED vars
  /\ planner' = "none"
  /\ UNCHANGED <<gitVars, stage, review, applying, deletion, history>>

Claim(e) ==
  /\ \E w \in Claimants : ClaimTask(e, w, Tasks)
  /\ stage' = [t \in Tasks |-> IF attempt'[t] # attempt[t] THEN "claimed" ELSE stage[t]]
  /\ UNCHANGED <<gitVars, planner, review, applying, deletion, history>>

\* prepare_task makes the task's branch from the integration branch, or takes the
\* one that is there.  set_task_worktree refuses a task that was cancelled.
PrepareTask(t) ==
  /\ stage[t] = "claimed"
  /\ PrepareRun(head)
  /\ own' = [own EXCEPT ![t] = IF @ = NoBranch THEN branch' ELSE @]
  /\ place' = [place EXCEPT ![t] = IF @ = "absent" THEN "clean" ELSE @]
  /\ IF status[t] = "running"
     THEN SetTaskWorktree(t) /\ stage' = [stage EXCEPT ![t] = "working"]
     ELSE UNCHANGED vars /\ stage' = [stage EXCEPT ![t] = "none"]
  /\ history' = [history EXCEPT !.remade = Remade(MakingBranch \cup MakingOwn(t))]
  /\ UNCHANGED <<head, moved, planner, review, applying, deletion>>

Edit(t) ==
  /\ t \notin HostTasks /\ stage[t] = "working" /\ place[t] = "clean" /\ MayCommit(t)
  /\ place' = [place EXCEPT ![t] = "dirty"]
  /\ UNCHANGED <<vars, head, moved, branch, folder, own, planner, stage, review, applying, deletion, history>>

\* A host is told of nothing and may go on in its worktree as long as it exists, also
\* when a deletion has already looked at its branch.
HostCommits(t) ==
  /\ t \in HostTasks /\ stage[t] = "working" /\ place[t] = "clean" /\ MayCommit(t)
  /\ own' = [own EXCEPT ![t] = @ \cup {NewCommit(t)}]
  /\ history' = [history EXCEPT !.made = @ \cup {NewCommit(t)},
                                !.unseen = IF Deleting /\ ~Pending(Command("cherry", t))
                                           THEN @ \cup {NewCommit(t)} ELSE @]
  /\ UNCHANGED <<vars, head, moved, branch, folder, place, planner, stage, review, applying, deletion>>

WorkerAnswers(t) ==
  /\ t \notin HostTasks /\ stage[t] = "working"
  /\ stage' \in {[stage EXCEPT ![t] = s] :
                   s \in IF run \in {"cancelled", "deleted"} THEN {"none"} ELSE {"commit", "failed"}}
  /\ UNCHANGED <<vars, gitVars, planner, review, applying, deletion, history>>

CommitTask(t) ==
  /\ stage[t] = "commit"
  /\ IF place[t] = "dirty"
     THEN /\ own' = [own EXCEPT ![t] = @ \cup {NewCommit(t)}]
          /\ place' = [place EXCEPT ![t] = "clean"]
          /\ history' = [history EXCEPT !.made = @ \cup {NewCommit(t)}]
          /\ stage' = [stage EXCEPT ![t] = "integrate"]
     ELSE stage' = [stage EXCEPT ![t] = "failed"] /\ UNCHANGED <<own, place, history>>
  /\ UNCHANGED <<vars, head, moved, branch, folder, planner, review, applying, deletion>>

HostSubmits(t) ==
  /\ t \in HostTasks /\ stage[t] = "working" /\ status[t] = "running"
  /\ stage' \in {[stage EXCEPT ![t] = s] : s \in {"integrate", "failed"}}
  /\ UNCHANGED <<vars, gitVars, planner, review, applying, deletion, history>>

\* integrate_task prepares the run first, and needs the task's worktree with
\* commits in it.
Integrate(t) ==
  /\ stage[t] = "integrate"
  /\ folder' = TRUE
  /\ LET before == IF branch = NoBranch THEN head ELSE branch
     IN IF place[t] # "absent" /\ own[t] \cap CommitsOf(t) # {}
        THEN \/ branch' = before \cup own[t] /\ stage' = [stage EXCEPT ![t] = "succeeded"]
             \/ branch' = before /\ stage' = [stage EXCEPT ![t] = "blocked"]
        ELSE branch' = before /\ stage' = [stage EXCEPT ![t] = "failed"]
  /\ history' = [history EXCEPT !.remade = Remade(MakingBranch)]
  /\ UNCHANGED <<vars, head, moved, own, place, planner, review, applying, deletion>>

\* The host that has submitted still has its worktree.
Submit(t) ==
  /\ stage[t] \in Outcomes
  /\ \/ SubmitTaskResult(t, claimant[t], stage[t], TRUE, TRUE)
     \/ status[t] # "running" /\ UNCHANGED vars
  /\ stage' = [stage EXCEPT ![t] = IF t \in HostTasks THEN "working" ELSE "none"]
  /\ UNCHANGED <<gitVars, planner, review, applying, deletion, history>>

\* The finalizer lets Codex review the branch as it is.
StartReview ==
  /\ review = "none" /\ run \in {"integrating", "reviewing"}
  /\ PrepareRun(head)
  /\ IF run = "integrating" THEN SetRunStatus("reviewing") ELSE UNCHANGED vars
  /\ review' = "open"
  /\ history' = [history EXCEPT !.reviewed = branch']
  /\ UNCHANGED <<head, moved, own, place, planner, stage, applying, deletion>>

EndReview ==
  /\ review = "open"
  /\ \/ SetRunStatus("completed") \/ SetRunStatus("blocked")
     \/ run # "reviewing" /\ UNCHANGED vars
  /\ review' = "none"
  /\ UNCHANGED <<gitVars, planner, stage, applying, deletion, history>>

-----------------------------------------------------------------------------
(* Applying, and what the user does *)

Cancel == CancelRun /\ UNCHANGED <<gitVars, planner, stage, review, applying, deletion, history>>

\* A bug to find: the run's status is not asked for.
ApplyUnreviewed ==
  /\ ~applying
  /\ delivery = "integration_branch" /\ plan # NoPlan
  /\ Unmoved /\ branch # NoBranch
  /\ applying' = TRUE
  /\ UNCHANGED <<vars, gitVars, planner, stage, review, deletion, history>>

\* apply_run and validate_apply_target: the user's branch is where it was when the
\* run began.
Apply ==
  /\ ~applying
  /\ delivery = "integration_branch" /\ run = "completed"
  /\ Unmoved /\ branch # NoBranch
  /\ applying' = TRUE
  /\ UNCHANGED <<vars, gitVars, planner, stage, review, deletion, history>>

\* git merge --ff-only
FastForward ==
  /\ applying
  /\ IF branch # NoBranch /\ head \subseteq branch /\ ~moved
     THEN head' = branch /\ history' = [history EXCEPT !.applied = branch]
     ELSE UNCHANGED <<head, history>>
  /\ applying' = FALSE
  /\ UNCHANGED <<vars, moved, branch, folder, own, place, planner, stage, review, deletion>>

UserCommits ==
  /\ ~moved /\ moved' = TRUE
  /\ UNCHANGED <<vars, head, branch, folder, own, place, planner, stage, review, applying, deletion, history>>

\* The user may merge the branch by hand, of a run that was never completed too.
UserMerges ==
  /\ branch # NoBranch /\ head' = head \cup branch
  /\ UNCHANGED <<vars, moved, branch, folder, own, place, planner, stage, review, applying, deletion, history>>

-----------------------------------------------------------------------------
(* delete_run, one Git command after the other *)

EachTask(do, S) == [i \in 1..Cardinality(S) |-> Command(do, Nth(S, i))]
Run(do) == <<Command(do, 0)>>

\* A bug to find: the commits of the tasks are not looked for.
ChecksWithoutCherry ==
  EachTask("worktree", plan.tasks) \o (IF plan # NoPlan THEN Run("merged") ELSE <<>>)

\* A bug to find: a branch that is gone is taken for one that is not safe.
ChecksOfEveryBranch == ChecksWithoutCherry \o EachTask("cherry", plan.tasks)

\* preview_run_cleanup.  A run without a plan has no tasks, and a row that names no
\* branch.  The worktree of the integration branch is always clean here.
Checks ==
  EachTask("worktree", plan.tasks)
    \o (IF plan # NoPlan THEN Run("merged") ELSE <<>>)
    \o EachTask("cherry", {t \in plan.tasks : own[t] # NoBranch})

\* A bug to find: the integration branch is forgotten.
RemovalsButTheBranch ==
  EachTask("remove", plan.tasks) \o Run("removeRun") \o EachTask("branch", plan.tasks) \o Run("row")

\* cleanup_run_artifacts, and the row at last.
Removals ==
  EachTask("remove", plan.tasks)
    \o Run("removeRun")
    \o EachTask("branch", plan.tasks)
    \o (IF plan # NoPlan THEN Run("runBranch") ELSE <<>>)
    \o Run("row")

\* git worktree remove refuses a dirty worktree, git branch a branch that is checked
\* out, and git branch -d one that is not merged.
Passes(c) ==
  CASE c.do \in {"worktree", "remove"} -> place[c.task] # "dirty"
    [] c.do = "merged"    -> branch = NoBranch \/ branch \subseteq head
    [] c.do = "cherry"    -> own[c.task] # NoBranch /\ own[c.task] \subseteq (IF branch = NoBranch THEN head ELSE branch)
    [] c.do = "branch"    -> place[c.task] = "absent"
    [] c.do = "runBranch" -> branch = NoBranch \/ (~folder /\ branch \subseteq head)
    [] OTHER              -> TRUE

StartDeletion ==
  /\ ~Deleting /\ run \in TerminalRun
  /\ deletion' = Checks \o Removals
  /\ history' = [history EXCEPT !.remade = {}]
  /\ UNCHANGED <<vars, gitVars, planner, stage, review, applying>>

\* A deletion that ends before its time has left the branches that are there to the
\* next one, which looks at them again.
GiveUpDeletion ==
  /\ deletion' = <<>>
  /\ history' = [history EXCEPT !.unseen = @ \ UNION Range(own)]

\* What does not pass ends the deletion where it is.
DeletionStep ==
  /\ Deleting
  /\ LET c == Head(deletion)
     IN IF Passes(c)
        THEN /\ deletion' = Tail(deletion)
             /\ place' = [t \in Tasks |-> IF c = Command("remove", t) THEN "absent" ELSE place[t]]
             /\ own' = [t \in Tasks |-> IF c = Command("branch", t) THEN NoBranch ELSE own[t]]
             /\ folder' = (folder /\ c.do # "removeRun")
             /\ branch' = IF c.do = "runBranch" THEN NoBranch ELSE branch
             /\ IF c.do = "row" THEN DeleteRunRecord ELSE UNCHANGED vars
             /\ UNCHANGED history
        ELSE GiveUpDeletion /\ UNCHANGED <<vars, place, own, folder, branch>>
  /\ UNCHANGED <<head, moved, planner, stage, review, applying>>

CrashOfExecution ==
  /\ Crashes
  /\ planner' = "none" /\ review' = "none"
  /\ stage' = [t \in Tasks |-> IF stage[t] # "none" /\ t \in HostTasks /\ stage[t] # "claimed"
                              THEN "working" ELSE "none"]
  /\ UNCHANGED <<vars, gitVars, applying, deletion, history>>

CrashOfDeletion ==
  /\ Crashes
  /\ applying' = FALSE /\ GiveUpDeletion
  /\ UNCHANGED <<vars, gitVars, planner, stage, review>>

-----------------------------------------------------------------------------
CleanupInit ==
  /\ Init
  /\ head = {} /\ moved = FALSE /\ branch = NoBranch /\ folder = FALSE
  /\ own = [t \in Tasks |-> NoBranch]
  /\ place = [t \in Tasks |-> "absent"]
  /\ planner = "none" /\ review = "none" /\ applying = FALSE /\ deletion = <<>>
  /\ stage = [t \in Tasks |-> "none"]
  /\ history = [ made |-> {},          \* the commits of all tasks
                 unseen |-> {},        \* those a host made after a deletion's look at its branch
                 reviewed |-> NoBranch,
                 applied |-> NoBranch,
                 remade |-> {} ]       \* the removals of the deletion that were undone

CleanupNext ==
  \/ \E mode \in Deliveries : Open(mode)
  \/ BeginPlanning \/ PlanArrives \/ MakeBranch \/ StartReview \/ EndReview
  \/ \E p \in Plans : Publish(p)
  \/ \E e \in Executors : Claim(e)
  \/ \E t \in Tasks :
       \/ PrepareTask(t) \/ Edit(t) \/ HostCommits(t) \/ WorkerAnswers(t) \/ CommitTask(t)
       \/ HostSubmits(t) \/ Integrate(t) \/ Submit(t)
  \/ Cancel \/ Apply \/ FastForward \/ UserCommits \/ UserMerges
  \/ StartDeletion \/ DeletionStep \/ CrashOfExecution \/ CrashOfDeletion

CleanupSpec == CleanupInit /\ [][CleanupNext]_allVars

-----------------------------------------------------------------------------
(* What is expected of applying and deleting *)

\* No commit is lost: what a task committed is on a branch, whatever was cancelled,
\* deleted or cut short, unless its host made it after the deletion that then took its
\* branch had looked at it (cherry), and before its worktree was removed.
WorkSurvives ==
  \A c \in history.made \ history.unseen :
    c \in head \cup branch \cup UNION Range(own)

\* apply_run brings to the user's branch what the final review of the completed run
\* has seen, not a commit more or less.
AppliedIsReviewed ==
  history.applied # NoBranch => history.applied = history.reviewed

\* A deletion that was cut short can be repeated: none of its commands makes the
\* next preview refuse what would have been deletable before it.
Deletable == \A i \in DOMAIN Checks : Passes(Checks[i])
DeletionResumes == [][Deletable /\ Deleting /\ deletion' # deletion => Deletable']_allVars

\* When the row of a run goes, so has everything it named.  A worker that had not noticed
\* the run's end may have made any of it again in the meantime: then the deletion was
\* refused or has removed that too, unless it was past the removal of that very branch.
NothingIsLeft ==
  Deleting /\ Head(deletion).do = "row" /\ plan # NoPlan =>
    /\ Command("runBranch", 0) \in history.remade \/ (branch = NoBranch /\ ~folder)
    /\ \A t \in Tasks :
         Command("branch", t) \in history.remade \/ (own[t] = NoBranch /\ place[t] = "absent")
=============================================================================
