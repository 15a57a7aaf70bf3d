------------------------------ MODULE Integration ------------------------------
(***************************************************************************)
(* What the mutating tasks of a run do to its branches                     *)
(* (src/agentbraid/worktrees.py, and the callers of it in service.py): the *)
(* branch and worktree of each task, and the integration branch with its   *)
(* worktree, that the workers and the submissions of all processes share.  *)
(* The rows of the run are those of RunStore.                              *)
(*                                                                         *)
(* A process integrates synchronously, so it does one job at a time; the   *)
(* Git commands of two processes' jobs come in any order.                  *)
(***************************************************************************)
EXTENDS RunStore, FiniteSets, SequencesExt

CONSTANTS
  Homes,        \* the processes that work at the run
  Clashes,      \* the pairs of commits, as <<task, n>>, that change the same lines
  MaxCommits,   \* bound: how many commits a task's branch gets
  Disturbances  \* which of "crash" and "edit" happen

ASSUME IntegrationAssumption ==
  /\ Homes # {}
  /\ \A pair \in Clashes : pair \in SUBSET (Tasks \X (1..MaxCommits)) /\ Cardinality(pair) = 2
  /\ MaxCommits \in Nat \ {0}
  /\ Disturbances \subseteq {"crash", "edit"}

VARIABLES
  branch,       \* the integration branch: the commits on top of the run's base
  integration,  \* its worktree: "absent", "clean", or "picking" after a conflict
  fork,         \* the integration branch when a task's branch was made, or NoBranch
  own,          \* the commits on top of it
  edited,       \* whether a task's worktree has changes to commit
  primary,      \* whether the user's checkout is clean
  stage,        \* where a task's attempt is
  home,         \* the process a task's attempt runs in
  job,          \* what a process is doing with Git
  interrupted,  \* history: the tasks whose job ended with its process
  overlapped    \* history: whether a process took the locked section, to integrate or to
                \* prepare a task, while another was integrating

gitVars ==
  <<branch, integration, fork, own, edited, primary, stage, home, job, interrupted, overlapped>>
allVars == <<vars, gitVars>>

\* The n-th commit of task t is <<t, n, 0>>, and picking <<t, n, k>> makes
\* <<t, n, k + 1>>, whose message names all those before it.
NoBranch == <<<<0, 0, 0>>>>
Content(c) == <<c[1], c[2]>>
NamedIn(c, history) ==
  \E i \in DOMAIN history :
    Content(history[i]) = Content(c) /\ history[i][3] > c[3]

NoJob == [step |-> "none"]
Idle(p) == job[p] = NoJob
InJobs == {job[p].task : p \in {q \in Homes : ~Idle(q)}}
Does(p, step) == job[p].step = step
Integrating(p) == job[p].step \in {"messages", "head", "pick", "abort", "reset"}
GoTo(p, step) == job' = [job EXCEPT ![p].step = step]

\* An attempt ends with a result to submit, in the same job.
Reports(p, t, outcome, sha) ==
  job' = [job EXCEPT ![p] = [step |-> "submit", task |-> t, outcome |-> outcome, sha |-> sha]]

-----------------------------------------------------------------------------
(* The run and its tasks *)

\* execute_run prepares the integration worktree before it saves the plan.
Open(mode) == CreateRun(mode) /\ UNCHANGED gitVars

Publish(p) ==
  /\ integration = "absent" /\ primary = "clean"
  /\ SavePlan(p)
  /\ integration' = "clean"
  /\ UNCHANGED <<branch, fork, own, edited, primary, stage, home, job, interrupted, overlapped>>

Claim(p, e) ==
  /\ Idle(p)
  /\ \E w \in Claimants : ClaimTask(e, w, Tasks)
  /\ LET claimed == {t \in Tasks : attempt'[t] # attempt[t]}
     IN /\ stage' = [t \in Tasks |-> IF t \in claimed THEN "claimed" ELSE stage[t]]
        /\ home' = [t \in Tasks |-> IF t \in claimed THEN p ELSE home[t]]
  /\ UNCHANGED <<branch, integration, fork, own, edited, primary, job, interrupted, overlapped>>

\* prepare_run refuses a dirty checkout and a dirty integration worktree.
Ready == primary = "clean" /\ integration = "clean"

\* prepare_task makes the task's branch on top of the integration branch, or takes
\* the one of an earlier attempt as it is.
PrepareTask(p, t) ==
  /\ Idle(p) /\ stage[t] = "claimed" /\ home[t] = p
  /\ IF Ready
     THEN /\ fork' = [fork EXCEPT ![t] = IF @ = NoBranch THEN branch ELSE @]
          /\ IF status[t] = "running"
             THEN SetTaskWorktree(t) /\ stage' = [stage EXCEPT ![t] = "working"]
             ELSE UNCHANGED vars /\ stage' = [stage EXCEPT ![t] = "none"]
          /\ UNCHANGED job
     ELSE Reports(p, t, "failed", FALSE) /\ UNCHANGED <<vars, fork, stage>>
  /\ overlapped' = (overlapped \/ \E q \in Homes \ {p} : Integrating(q))
  /\ UNCHANGED <<branch, integration, own, edited, primary, home, interrupted>>

\* What a Codex worker leaves in the worktree is committed by the service, a host
\* commits by itself.
Edit(t) ==
  /\ stage[t] = "working" /\ ~edited[t] /\ Len(own[t]) < MaxCommits
  /\ t \notin InJobs
  /\ IF plan.executor[t] = "codex"
     THEN edited' = [edited EXCEPT ![t] = TRUE] /\ UNCHANGED own
     ELSE own' = [own EXCEPT ![t] = Append(@, <<t, Len(@) + 1, 0>>)] /\ UNCHANGED edited
  /\ UNCHANGED <<vars, branch, integration, fork, primary, stage, home, job, interrupted, overlapped>>

\* The worker answers that it succeeded, or not, or its run was cancelled.
WorkerAnswers(p, t) ==
  /\ Idle(p) /\ stage[t] = "working" /\ home[t] = p /\ plan.executor[t] = "codex"
  /\ \/ /\ run = "cancelled"
        /\ stage' = [stage EXCEPT ![t] = "none"]
        /\ UNCHANGED job
     \/ /\ run # "cancelled"
        /\ \/ \E outcome \in {"failed", "blocked"} : Reports(p, t, outcome, FALSE)
           \/ job' = [job EXCEPT ![p] = [step |-> "commit", task |-> t]]
        /\ UNCHANGED stage
  /\ UNCHANGED <<vars, branch, integration, fork, own, edited, primary, home, interrupted, overlapped>>

\* commit_task
CommitTask(p) ==
  /\ Does(p, "commit")
  /\ LET t == job[p].task
     IN IF edited[t]
        THEN /\ own' = [own EXCEPT ![t] = Append(@, <<t, Len(@) + 1, 0>>)]
             /\ edited' = [edited EXCEPT ![t] = FALSE]
             /\ job' = [job EXCEPT ![p] = [step |-> "integrate", task |-> t,
                                           upto |-> Len(own[t]) + 1]]
        ELSE Reports(p, t, "failed", FALSE) /\ UNCHANGED <<own, edited>>
  /\ UNCHANGED <<vars, branch, integration, fork, primary, stage, home, interrupted, overlapped>>

\* submit_host_result, of a commit of the task's branch or of none.  The claim is
\* known by the host's name, so that what the host sent for an earlier attempt, or
\* sends again, counts for the one that is running, even before its worktree is there.
HostSubmits(p, t) ==
  /\ Idle(p) /\ home[t] = p /\ status[t] = "running" /\ plan.executor[t] = "host"
  /\ stage[t] = "working" \/ attempt[t] > 1
  /\ \/ \E outcome \in {"failed", "blocked"} : Reports(p, t, outcome, FALSE)
     \/ \E n \in DOMAIN own[t] :
          job' = [job EXCEPT ![p] = [step |-> "integrate", task |-> t, upto |-> n]]
  /\ UNCHANGED <<vars, branch, integration, fork, own, edited, primary, stage, home, interrupted, overlapped>>

\* submit_task_result, of a task that is still running.
Submit(p) ==
  /\ Does(p, "submit")
  /\ LET t == job[p].task
     IN /\ \/ SubmitTaskResult(t, claimant[t], job[p].outcome, job[p].sha, worktree[t])
           \/ status[t] # "running" /\ UNCHANGED vars
        /\ stage' = [stage EXCEPT ![t] = "none"]
  /\ job' = [job EXCEPT ![p] = NoJob]
  /\ UNCHANGED <<branch, integration, fork, own, edited, primary, home, interrupted, overlapped>>

-----------------------------------------------------------------------------
(* integrate_task, one Git command after the other *)

\* The commits of the task's branch since it left the integration branch.
TaskCommits(t) ==
  LET history == fork[t] \o own[t]
  IN SubSeq(history, Len(LongestCommonPrefix({history, branch})) + 1, Len(history))

\* A bug to find: whatever the branch's head is.
IntegrateAnyCommit(p) ==
  /\ Does(p, "integrate")
  /\ LET t == job[p].task
     IN IF Ready /\ TaskCommits(t) # <<>>
        THEN job' = [job EXCEPT ![p] = [step |-> "messages", task |-> t,
                                        commits |-> <<own[t][job[p].upto]>>]]
        ELSE Reports(p, t, "failed", TRUE)
  /\ overlapped' = (overlapped \/ \E q \in Homes \ {p} : Integrating(q))
  /\ UNCHANGED <<vars, branch, integration, fork, own, edited, primary, stage, home, interrupted>>

\* prepare_run and _validate_task_commits
Integrate(p) ==
  /\ Does(p, "integrate")
  /\ LET t == job[p].task
     IN IF Ready /\ job[p].upto = Len(own[t]) /\ TaskCommits(t) # <<>>
        THEN job' = [job EXCEPT ![p] = [step |-> "messages", task |-> t,
                                        commits |-> TaskCommits(t)]]
        ELSE Reports(p, t, "failed", TRUE)
  /\ overlapped' = (overlapped \/ \E q \in Homes \ {p} : Integrating(q))
  /\ UNCHANGED <<vars, branch, integration, fork, own, edited, primary, stage, home, interrupted>>

\* A bug to find: what was picked before is picked again.
PickAll(commits, history) == commits

\* The commits that no message on the integration branch names.
Pending(commits, history) ==
  LET left == {i \in DOMAIN commits : ~NamedIn(commits[i], history)}
  IN [k \in 1..Cardinality(left) |-> commits[Nth(left, k)]]

ReadMessages(p) ==
  /\ Does(p, "messages")
  /\ LET t == job[p].task
         pending == Pending(job[p].commits, branch)
     IN IF pending = <<>>
        THEN Reports(p, t, "succeeded", TRUE)
        ELSE job' = [job EXCEPT ![p] = [step |-> "head", task |-> t, commits |-> pending]]
  /\ UNCHANGED <<vars, branch, integration, fork, own, edited, primary, stage, home, interrupted, overlapped>>

ReadHead(p) ==
  /\ Does(p, "head")
  /\ job' = [job EXCEPT ![p] = [step |-> "pick", task |-> job[p].task,
                                commits |-> job[p].commits, original |-> branch]]
  /\ UNCHANGED <<vars, branch, integration, fork, own, edited, primary, stage, home, interrupted, overlapped>>

\* A commit cannot be picked over a clashing one it was not made on, nor twice,
\* nor while a conflict is open in the worktree.
Applies(c) ==
  /\ integration = "clean"
  /\ \A i \in DOMAIN branch :
       LET other == branch[i]
       IN /\ Content(other) # Content(c)
          /\ {Content(other), Content(c)} \in Clashes
               => \E j \in DOMAIN fork[c[1]] : fork[c[1]][j] = other

Picked(p) ==
  LET c == Head(job[p].commits)
  IN /\ branch' = Append(branch, <<c[1], c[2], c[3] + 1>>)
     /\ IF Len(job[p].commits) = 1
        THEN Reports(p, job[p].task, "succeeded", TRUE)
        ELSE job' = [job EXCEPT ![p].commits = Tail(@)]
     /\ UNCHANGED integration

CherryPick(p) ==
  /\ Does(p, "pick")
  /\ IF Applies(Head(job[p].commits))
     THEN Picked(p)
     ELSE integration' = "picking" /\ GoTo(p, "abort") /\ UNCHANGED branch
  /\ UNCHANGED <<vars, fork, own, edited, primary, stage, home, interrupted, overlapped>>

AbortPick(p) ==
  /\ Does(p, "abort")
  /\ integration' = "clean"
  /\ GoTo(p, "reset")
  /\ UNCHANGED <<vars, branch, fork, own, edited, primary, stage, home, interrupted, overlapped>>

\* A bug to find: only the commit that conflicted is undone.
ResetNothing(p) ==
  /\ Does(p, "reset")
  /\ Reports(p, job[p].task, "blocked", TRUE)
  /\ UNCHANGED <<vars, branch, integration, fork, own, edited, primary, stage, home, interrupted, overlapped>>

ResetHard(p) ==
  /\ Does(p, "reset")
  /\ branch' = job[p].original
  /\ integration' = "clean"
  /\ Reports(p, job[p].task, "blocked", TRUE)
  /\ UNCHANGED <<vars, fork, own, edited, primary, stage, home, interrupted, overlapped>>

-----------------------------------------------------------------------------
(* Cancellation and disturbances *)

Cancel(p) == Idle(p) /\ CancelRun /\ UNCHANGED gitVars

\* The user has uncommitted work in the checkout for a while.
EditPrimary ==
  /\ "edit" \in Disturbances
  /\ primary' = IF primary = "clean" THEN "dirty" ELSE "clean"
  /\ UNCHANGED <<vars, branch, integration, fork, own, edited, stage, home, job, interrupted, overlapped>>

\* A process ends between two Git commands, with its workers.  A host lives on
\* and may submit to the server its next session starts.
Crash(p) ==
  /\ "crash" \in Disturbances
  /\ interrupted' = interrupted \cup {job[q].task : q \in {p} \ {q \in Homes : Idle(q)}}
  /\ job' = [job EXCEPT ![p] = NoJob]
  /\ stage' = [t \in Tasks |-> IF home[t] = p /\ (stage[t] = "claimed" \/ plan.executor[t] = "codex")
                              THEN "none" ELSE stage[t]]
  /\ UNCHANGED <<vars, branch, integration, fork, own, edited, primary, home, overlapped>>

-----------------------------------------------------------------------------
GitInit ==
  /\ Init
  /\ branch = <<>>
  /\ integration = "absent"
  /\ fork = [t \in Tasks |-> NoBranch]
  /\ own = [t \in Tasks |-> <<>>]
  /\ edited = [t \in Tasks |-> FALSE]
  /\ primary = "clean"
  /\ stage = [t \in Tasks |-> "none"]
  /\ home \in [Tasks -> {CHOOSE p \in Homes : TRUE}]
  /\ job = [p \in Homes |-> NoJob]
  /\ interrupted = {}
  /\ overlapped = FALSE

GitNext ==
  \/ \E mode \in Deliveries : Open(mode)
  \/ \E p \in Plans : Publish(p)
  \/ \E p \in Homes :
       \/ \E e \in Executors : Claim(p, e)
       \/ \E t \in Tasks : PrepareTask(p, t) \/ WorkerAnswers(p, t) \/ HostSubmits(p, t)
       \/ CommitTask(p) \/ Integrate(p) \/ ReadMessages(p) \/ ReadHead(p)
       \/ CherryPick(p) \/ AbortPick(p) \/ ResetHard(p) \/ Submit(p)
       \/ Cancel(p) \/ Crash(p)
  \/ \E t \in Tasks : Edit(t)
  \/ EditPrimary

GitSpec == GitInit /\ [][GitNext]_allVars

-----------------------------------------------------------------------------
(* What is expected of the branches *)

Integrated(t) ==
  \A n \in DOMAIN own[t] : \E i \in DOMAIN branch : Content(branch[i]) = <<t, n>>

\* The work of a task that succeeded is on the integration branch, and stays there
\* whatever is integrated, or fails to be, after it.
SucceededStaysIntegrated == \A t \in Tasks : status[t] = "succeeded" => Integrated(t)

\* It does as long as integrations, and preparations of tasks, come one after the other,
\* in whichever process and through crashes, retries of a branch that has commits
\* already, and results that come late; what an earlier attempt committed is part of it.
SerializedKeepsSucceeded == ~overlapped => SucceededStaysIntegrated

\* integrate_task can be repeated: after a crash between two of its commands, or
\* before the result was submitted, it picks what is missing and conflicts only
\* with another task's changes, not with its own of the first time.
ConflictsAreReal ==
  ~overlapped =>
    \A p \in Homes :
      Does(p, "abort") =>
        \E i \in DOMAIN branch : {Content(branch[i]), Content(Head(job[p].commits))} \in Clashes

\* A task that has not succeeded has nothing on the integration branch once its
\* process is done with it: a conflict takes back what was picked before it.  Only
\* a process that ended in the middle of a task's integration leaves some of it, and
\* one in whose integration another process cancelled the run.
UnfinishedLeavesNothing ==
  ~overlapped =>
    \A t \in Tasks \ interrupted :
      status[t] \notin {"succeeded", "cancelled"} /\ t \notin InJobs
        => \A i \in DOMAIN branch : branch[i][1] # t

InDependencyOrder ==
  \A i, j \in DOMAIN branch : i < j => branch[j][1] \notin plan.deps[branch[i][1]]

\* What is sent to the final review, and may be applied after it, has the commits
\* of every task, in an order in which every task's dependencies precede it and in a
\* worktree without a conflict, even if integrations overlap: the task whose reset lost
\* another's commits blocks the run.
DeliveredIsWhole ==
  interrupted = {} /\ run \in {"integrating", "reviewing", "completed"} =>
    /\ integration = "clean"
    /\ \A t \in plan.tasks : Integrated(t)
    /\ InDependencyOrder
=============================================================================
