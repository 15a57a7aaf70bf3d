# AgentBraid in TLA+

AgentBraid lets a Codex "lead" plan a coding goal as a graph of tasks, gives
the tasks to Codex workers and to the host agent that opened an MCP session,
integrates their commits on a branch of its own, has the result reviewed, and
offers it to the user to apply.  Everything durable is in one SQLite database
that several local processes (MCP servers, the Dashboard) open at once.

This directory models the part of that where order matters: what a run and its
tasks go through, how coroutines and processes take turns at them, how a Codex
process is watched and ended, how the database gets its schema and what it
remembers of the executors, and what the Dashboard's page makes of it all.
Source paths below are relative to `src/agentbraid/`; documents (`docs/`,
`CHANGELOG.md`) are at the top of the repository.

## The system

| Component | State it keeps | Operations | What makes it correct |
|---|---|---|---|
| Run store (`store.py`) | rows of runs, tasks, dependencies, events | create_run, save_plan, set_run_status, claim_task, submit_task_result, set_task_worktree, cancel_run, delete_run_record | dependencies first; a running run can always go on; retries bounded; a run settles with its last task; decisions are final |
| Plan validation (`models.py`) | none | validators of TaskSpec and RunPlan, the topological sort | accepts exactly the acyclic graphs, orders tasks after their dependencies |
| Service (`service.py`) | per-process locks and invocations | start_run, claim_host_task, submit_host_result, cancel_run, delete_run; draining, workers, final review | one worker at a task, one review of a run, completion only on approval, nothing waits for nobody, cancelled work stops |
| Worktrees (`worktrees.py`) | branches and worktrees of a repository | prepare, commit, integrate, apply, clean up | integrations are not lost, the primary checkout is never touched unasked |
| Dashboard (`dashboard.py`) | background executions, settings | start, cancel, delete, apply, settings | a failed background run is visible as failed |
| Router (`router.py`) | none | route_plan | no task finds nobody without a cause, a failure brings an executor no work |
| Capabilities, usage (`store.py`, `service.py`) | one row per executor and model; usage rows | record, touch, list | no result is lost but a host's that a touch overtakes |
| Schema (`store.py`, `_initialize`) | `user_version`, tables, columns, indexes | creation and three migrations | the version says what is there; processes that start together do not make each other fail |
| Codex provider (`providers/codex.py`) and its wait (`service.py`, `_await_invocation`) | a task, a poll, a subprocess | plan, execute_task, review_run | ends within its timeout, leaves no task and no process behind, tells its caller what happened |
| Web client (`dashboard_assets/app.js`) | the lists, a selection, a detail, dialogs, calls awaiting answers | poll, select, page, start, cancel, apply, delete | comes to agree with the server; asks for what the user was shown |
| MCP server, Dashboard's HTTP layer, CLI, installer, config, redaction, path checks | none to speak of | calls into the above | not a matter of order |

**How they meet.**  MCP tools and the Dashboard's handlers call the service in
their process's event loop.  The service calls the store (each call one SQLite
transaction, `BEGIN IMMEDIATE` where it writes) and Git (synchronously, holding
the loop), and awaits Codex.  Processes share the database and the repository
and nothing else: a cancellation reaches another process only because every
invocation polls the run's status.

**What is hard.**

* Between two store calls of one coroutine any other process may commit; between
  two awaits no other coroutine of its own process may run.
* `_drain_codex_tasks` returns when nothing is claimable.  Whoever makes
  something claimable, or decides the last task, must drain and finalize again.
* `gather` raises with the first worker that raises and leaves the others running.
* A failure cascades to dependents in whatever order their rows are visited.
* Results are accepted by the task row alone, whatever the run's status.
* The locks (drain, integration, finalize) are `asyncio.Lock`s: per process.
* Nothing resumes what a dead process was doing.
* A cancellation reaches an invocation twice, from `cancel_run` and from the poll,
  at whatever await its task has come to, those of `_terminate` included.
* A migration is a script whose statements commit one by one, in a database that
  several processes may be opening.
* The client's answers come in another order than its requests, and a poll
  replaces lists and selection under an open dialog.

`PROJECT.json` lists these hazards at their lines.

## Modules

| Module | Models |
|---|---|
| `TaskGraph` | plans, task statuses, and `Refresh`: what `_refresh_ready_tasks` reaches, as a least fixpoint |
| `PlanValidation` | the validators of a plan and Kahn's sort as `_topological_ids` does it |
| `RefreshLoop` | the sweeps of `_refresh_ready_tasks` over what `PlanValidation` accepted, row by row, in the order of positions |
| `RunStore` | every transaction of the store on one run: one action each |
| `TaskBoard` | the abstract promise: a board that publishes tasks, hands them out in dependency order, wins, loses or takes them back, and is delivered or closed by the last decision |
| `Orchestrator` | the service's coroutines and workers in one or more processes over `RunStore`, with crashes, abandoned requests and unexpected exceptions |
| `Integration` | task branches and the integration branch under `prepare_task`, `commit_task` and `integrate_task`, one Git command at a time, over `RunStore` |
| `Cleanup` | a run's branches and worktrees from the first `prepare_run` to the end of `delete_run`, with apply, merges by hand, cancellation and crashes |
| `Invocation` | one `_await_invocation`, its poll, `run_structured` and the Codex process |
| `Schema` | `_initialize` of the store: databases of every version opened by several processes |
| `Router` | the scores of `TaskRouter`, exact, and its choice |
| `Capabilities` | the capability rows under invocations, hosts and plannings of several processes, over `Schema` and `Router` |
| `WebClient` | the page's state, its asynchronous functions, its user and its server |
| `RunStoreProofs`, `PlanningProofs`, `OrchestratorProofs`, `IntegrationProofs`, `CleanupProofs`, `InvocationProofs`, `DatabaseProofs`, `WebClientProofs` | the theorems |
| `MCRunStore`, `MCPlanning`, `MCOrchestrator`, `MCIntegration`, `MCCleanup`, `MCCapabilities`, `MCWebClient` | instances for TLC |

`RunStore` extends `TaskGraph`; `Orchestrator`, `Integration` and `Cleanup` extend
`RunStore`, and `RunStore` instantiates `TaskBoard` under a refinement mapping
(`Board`).  `RefreshLoop` extends `PlanValidation`, and `Capabilities` extends
`Schema` and `Router`.  A definition under the comment "A bug to find" is no part
of a specification: it is the form an action or operator would have with a
mistake in it, with which a property was seen to fail.

### RunStore

A task is its position in the plan, since that is what the code orders by.
`run` is the status column, with "none" and "deleted" for a row that is not
there.  `status`, `attempt`, `claimant`, `worktree` and `commit` are the columns
of the task rows; the last three keep of their text what the code's decisions
depend on.  `TypeOK` says that the rows have their types (`RowsTyped`) and that no task
was started more often than its budget allows (`WithinBudget`).  An operation that
raises rolls back and is no step.  `SubmitTaskResult`
and `ClaimTask` include the refresh and the sync that the code makes in the same
transaction; `SavePlan` refreshes and does not sync, as in the code.
`CallersAsk` says which statuses the service passes to `set_run_status`, whose
table alone would let a running run be sent to review; that the service keeps
to it is checked as `ImplementsStore`.

The least fixpoint in `TaskGraph` stands for a loop.  `RefreshLoop` is that loop,
on the plans that `PlanValidation` accepts and the statuses a transaction may
hand it (`Inputs`), and run `planning` shows that it ends, in the state `Refresh`
names.

An answer of the planner is a function from its tasks to the sets of what they
depend on; repeated ids and dependencies, which the validators refuse at once,
cannot be said in it and are left out.

### Orchestrator

A coroutine of a run is `execute_run` ("execute") or one open
`submit_host_result` (`Calls`).  `owner` is the process that executes the run,
one of `Owners`: the MCP process that also serves the host (`HostServer`), or the
Dashboard, in the background, with nothing but the database in common.  `pc` is
where a coroutine is.  One action is one
transaction, or one answer from outside: the code between two transactions has
no effect another process could see.  `Awaits` are the places where a coroutine
has given up the loop; an action that follows one needs `LoopFree`, and the
others go on while their process does nothing else.  So the steps of two
processes interleave at transactions, and those of one process at awaits.

The locks are not variables: a lock is held exactly while a coroutine of the
process is at one of the places `Draining` or `Finalizing`.  A free lock is
taken without an await (`EnterDrain`, `EnterFinalize`); a lock that was waited
for goes to any waiter, where asyncio takes the first.  The integration lock is
only held over synchronous code, so nobody ever waits for it.

`worker[t]` is the worker of a Codex task; "raised" until its gather
notices, "dead" when its process or its gather was cancelled under it.
`_await_invocation` and the polling are `PlanningEnds`, `WorkerInvoked` and
`ReviewEnds`: an answer counts only in a run not cancelled, an error of the
provider is not asked about cancellation, and a poll of a deleted run raises.
The commit and integration of a worker's changes are part of the answer: Git's
outcome is a choice among the results the code can submit (`Results`), and
module `Integration` says which ones the branches lead to.

`Failures` names what else may happen: "crash" (a process ends between two
transactions and takes its coroutines along), "abandon" (a request or a
background execution is cancelled at an await), "error" (planning, a worker or
the preparation of a worktree raises what the service does not expect).  An
error of the database itself while a failure is being marked is left out.

### Integration

The commits of task `t` are `<<t, 1, 0>>`, `<<t, 2, 0>>`, ...; picking
`<<t, n, k>>` makes `<<t, n, k + 1>>`, a different commit with the same change,
whose message names its originals, since `cherry-pick -x` adds a line at each
pick.  `branch` is the integration branch above the run's base, `integration`
the state of its worktree, `fork[t]` what the task's branch started from and
`own[t]` what is on top.  Which commits touch the same lines is the constant
`Clashes`; a pick fails over a clashing commit that its own branch did not start
from (`Applies`, which stands for Git).

A process does one Git job at a time, since integration is synchronous code:
`job[p]` is the command it is at (`commit`, `integrate`, `messages`, `head`,
`pick`, `abort`, `reset`, `submit`).  One Git command is one step.  Jobs of two
processes interleave; the integration lock of each is its own.  A host submits
through the process that claimed for it.  `Disturbances` are "crash", a process
that ends between two commands, after which the worktree may be left `picking`,
and "edit", uncommitted changes of the user in the primary checkout, which
`prepare_run` refuses.  Workers do not write to a worktree while it is being
committed.  Every task of an instance changes the workspace.  A claim of a host is known by
the host's name alone, so `HostSubmits` lets a host bring the result of any
earlier claim of the task as if it were the current one.

Two history variables: `interrupted`, the tasks whose integration a crash cut
short, the only ones that leave commits without having succeeded, and
`overlapped`, whether a process ever entered the code that `_integration_lock`
guards, to integrate or to prepare a task, while another was integrating.  The
lock excludes both within a process (`service.py:586`, `:618`, `:697`).  Across
processes a preparation matters as much as an integration: a task's branch that
forks from half of another's commits has them as its own past when the other's
conflict takes them back, and picks onto a branch that lacks them.  Most of the
properties are about integrations that came one after the other, in whichever
process; `lost_pick` shows why.

### Cleanup

Here a branch is the set of commits on it, since deleting and merging ask only
what contains what: `git cherry` compares contents and `merge-base
--is-ancestor` histories, and a fast-forward makes them the same.  `head` is what
the user's branch has of the run, `branch`, `folder`, `own[t]` and `place[t]` are
the integration branch, its worktree and those of the tasks.  The execution goes
through its steps (`planner`, `stage`, `review`) with one integration as one
step; in another process the user cancels, applies (`Apply`, then `FastForward`)
and deletes.

`delete_run` is a list of commands (`deletion`): the checks of
`preview_run_cleanup`, then the removals of `cleanup_run_artifacts`, then the row.
`Passes` says which of them the code, or Git, refuses.  The code makes the preview
twice; the first can only refuse earlier, so the model has the second.  A host is
not told that its run was cancelled and goes on committing as long as its
worktree exists; Codex goes on editing until the poll stops it.

`history` holds what the properties remember: the commits made, those a host made
after a deletion had looked at its branch with `git cherry` (`unseen`; they are
taken back from it if that deletion ends before it took the branch,
`GiveUpDeletion`), what the last review saw, what was applied, and which removals
of the deletion were undone by a worker or a host that made the branch again after
them (`remade`).  The two exceptions are real: without `unseen`, `WorkSurvives`
fails by a host's commit between the look at its branch and the removal of its
worktree, which `branch -D` then discards; without `remade`, `NothingIsLeft` fails
by a worker that was claiming when its run was cancelled and deleted.  Both are as
narrow as that: a commit made before the look has to survive, and each branch not
made again after its removal has to be gone, also if it was made again before.

### Invocation

`call` is where `_await_invocation` is, `watcher` its poll, `task` the task of
`run_structured`, `codex` the process.  All three tasks share one event loop, so
an action goes from one await to the next.  `cancel_run` has two halves, the
status (`CancelRun`) and the look at `_active_invocations` (`Signal`); other
processes cancel, decide or delete the run without a word.  A run is "active" as
long as it can be cancelled, a blocked one included, and "decided" once it is
completed or failed.  A cancellation of
the task is `pending` until asyncio delivers it at the await the task is at:

* before there is a process, it ends the task;
* in `wait_for` it goes on to `_terminate`, or is dropped when the result is
  there already, as `asyncio.wait_for` of Python 3.11 does (the project
  requires 3.11 or newer; newer versions have only the first outcome);
* inside `_terminate` it ends `run_structured` and the escalation to SIGKILL
  with it (`interrupted`).

What the process writes is counted in bytes against `Limit`, `stream.read`
returning any number up to `Chunk` of them.  What it leaves (exit code, markers
of errors, JSONL, thread, file of the final message) is one record of `Endings`,
which `Amounts` turns into the result `run_structured` makes of it.  A child that
outlives Codex may hold its pipes open (`held`): then only the timeout ends the
reading.  `End` is the finally clause: a poll that failed, because its run was
deleted, raises out of it before the entry of `_active_invocations` is removed.

### Schema, Router and Capabilities

`sqlite3` is opened in autocommit mode, so `_initialize` is one statement after
the other: `Script(v)` lists what leads on from version `v`, with the names each
statement creates and those it needs; `Execute` does the next one, `Refuse` is
the exception of one that creates what exists, `Backfill` and `SetVersion` are
the rest, and `Interrupt` ends a process anywhere.  The first statement of every
script can succeed once only, and that is what keeps two processes from mixing
their migrations (`OneMigrates`): nobody wrote it as a lock.  It also means that
a database whose migration was cut short is refused at that statement by every
later start, which `VersionIsHonest` and `SomebodyOpens` except and name.

`Router` has the score of an executor exactly: weights in tenths, the success
rate and the average latency as fractions over one denominator (`Numerator`,
`Denominator`), the restrictions that exclude an executor, and the choice
(`Selected`).  The code adds floats.  Sums that are equal as fractions may differ
in their last bit: a mutating testing task of medium risk that prefers the host,
on fresh rows, scores 3.0999999999999996 for Codex and 3.1 for the host, and goes
to the host, although `docs/routing.md:4` says that ties select Codex.  So
`Selected` is a set, and at equal scores either executor may be chosen.  Two more
things the model keeps as the code has them: `"executor: codex"`, with a blank,
counts as a requirement of Codex in `_executor_allowed` and as an unknown ability
in the score (`router.py:238` and `246`), and a provider error is recorded with
latency 0, which lowers the average an executor is charged for.

`Capabilities` is who writes and reads the rows: an invocation counts its usage
and then its result, `submit_host_result` the host's, each in one transaction;
`_touch_host_capability` reads in one and writes in another (`ReadHost`,
`WriteHost`); a planning records its own success and then routes on what it
reads; a worker whose run was deleted or whose output cannot be integrated records
a failure without a provider's error (`RecordFailure`).  `made` is what was recorded,
whatever the rows say, `overtaken` how many successes and failures of the host were
recorded while a touch held the row it had read, and `spoiled` the plannings
during whose routing another job found Codex unavailable.  The touch writes back
the counts it read and so loses the results in between, which is why
`NothingForgotten` asks of Codex's row that its counts are exact, and of the host's
that it lacks at most the overtaken ones and never has one too many.  Jobs need a process
that has the store open, so nothing is recorded in a database half migrated.

### WebClient

`calls` are the asynchronous functions that await an answer, at the request they
are at: `refreshAll` goes from "lists" to "page" to "detail", `loadRuns` and
`selectRun` begin at the later ones, a dialog's request is followed by a refresh.
A request is answered at one time (`Reply`, which reads the server's `order`),
the answer is used at another (`Receive`), and in between comes anything else:
other answers, the poll (`busy` is `pollInFlight`), the user (`User`), a failure
(`Fail`), other processes (`Touch`).  When `loadMore` fails, at its page or at the
detail that follows it (`append`), the offset goes back.  An answer that does not depend on when the
server gave it is given and used in one step.

`dialogs` are the open ones, each with the runs the user saw when opening it or
typing into it (`read`), and whether the selection was taken from under it since
(`replaced`).  That is a real exception: the dialogs that cancel and apply ask
for `state.selectedRunId` when they are confirmed, and a poll, which loads the
first page again, selects another run when the old one is not on it.  The user
then confirms for a run whose name the dialog does not show.  `ConfirmsWhatWasRead`
excepts those two dialogs (`OnRun`), and only while another run is selected;
deletion asks for what was previewed, without exception.

## Runs

| Run | Question | Instance |
|---|---|---|
| `store` | Are the rows consistent after every sequence of transactions, and does the store implement `TaskBoard`? | 3 tasks, the 18 acyclic graphs with two dependencies or more, the host's task with 2 attempts; one claimant |
| `planning` | Does validation accept exactly the acyclic graphs and sort them, and do the sweeps over what it accepts end, in the least fixpoint? | every list of at most 3 tasks with known, unknown and reflexive dependencies; the chains and diamonds of 4 in every order of positions |
| `service` | Does each process review once, is no result refused, does a run get its verdict, does cancelled work stop, and does every run end if the host takes part? | 3 tasks in 3 graphs, 2 open submissions, 2 workers in parallel; executed by the MCP process or by the Dashboard, cancelled from either; fair processes |
| `failures` | What is left of it with crashes, abandoned requests and errors? | the same, the 2 graphs with a dependency |
| `two_reviews` | Is the final review serialized across processes?  It is not. | the same as `service`, executed by the Dashboard |
| `integration` | Is what succeeded on the branch, can an integration be repeated, does a conflict leave nothing behind, and has a reviewed run all its commits in order? | 3 tasks, a host's second commit clashes with a worker's first; the third needs both others, or, where nothing is tried twice, the first only; 2 processes, crashes, edits of the user |
| `lost_pick` | With integrations that overlap: does what succeeded stay on the branch?  It does not. | the same, nothing disturbing |
| `cleanup` | Is a commit ever lost, is what is applied what was reviewed, and can a deletion be repeated and come to its end? | 2 tasks, one of the host, side by side and one after the other; 2 commits each, crashes of either process |
| `invocation` | Does an invocation end, leave nothing behind, take exactly what is within the limit, and tell its caller the truth? | a limit of 1, chunks of 2, up to 2 bytes on each stream, 2 calls of `cancel_run` |
| `orphan` | Does cancelling a run end its Codex process?  Not always. | the same |
| `database` | Do processes that open an old database together get it open, and is what they record of the executors kept and used as it should be? | 2 processes, 2 rows to fill, databases of versions 0 to 5, 2 jobs, 3 histories of a row, 8 tasks to route, one duration |
| `web_client` | Does the page come to agree with the server, and does it ask for what the user was shown? | 2 runs of 2 workspaces, pages of 1, 2 calls at a time, 4 acts of the user, 1 change by others, 1 failure |

What a run shows is said above each property in its module.  In short:

* `store`: `Refreshed` and `NeverStuck` say that no reader ever sees a run that
  waits for nothing; `RunAgreesWithTasks` that the run's status and its tasks'
  tell the same story; `ImplementsBoard` that a failure takes exactly its
  dependents along, a retry happens exactly while the budget lasts, and the last
  decision, no other, settles the run.
* `service`: `ReviewedOnceByEach` and `RaisesOnlyIfStopped` are the safety of the
  locks and of the checks around them, `ReviewsConclude`, `CancelledWorkStops` and
  `RunsEnd` what must come to pass.
* `failures`: `CompletedWasApproved` ties the status to the recorded verdicts,
  `OneWorkerAtATask` holds across retries and gathers that left workers behind,
  and `ImplementsStore` says that the service uses `set_run_status` as `RunStore`
  lets its callers.
* `integration`: `SerializedKeepsSucceeded`, `ConflictsAreReal` and
  `UnfinishedLeavesNothing` hold with crashes between any two commands, as long as
  integrations overlap with no other and with no preparation; `DeliveredIsWhole`
  also if they do, as long as no process ends.
* `database`: `NothingForgotten` says which results concurrent touches may undo, and
  that nothing else loses or repeats one; `RoutingFailsForCause` and `FailuresRepel`
  are about the router on rows that change while a planning waits.  A failure that
  leaves an executor constrained brings it no task, whatever its latencies if it was
  healthy, and if it was constrained already as long as it is `Quick`: a slow one can
  gain, since the failure counts with latency 0 and lowers the average by more than
  the success rate falls.
* `cleanup`: `WorkSurvives`, `DeletionResumes` and `NothingIsLeft` are about a deletion
  that is cut short, repeated, and not alone with the branches it removes.

**Why the bounds are enough.**  Three tasks are a chain of failures two deep, a
diamond's half, and an order of positions that contradicts the order of
dependencies; four would add longer chains, which `planning` has and the theorems
have for every length.  Two attempts are a retry and its end; all 18 labelled
graphs with two dependencies or more put it at every place of a graph (those
with fewer have the same waiting and less of it).
In the service two submissions at once contend for every lock, two workers in
parallel are the smallest gather with a sibling to leave behind, and the three
graphs have the host's task beside, between and before those of Codex, so that
either process may have to drain and finalize.  Attempts are bounded by the
plan's budgets, so no counter needs a bound of its own; `reviews` grows by one
for each coroutine at most between two passes of the finalizer, and stays
finite because a run is decided once.  In `Integration` a branch gets at most
`MaxCommits` = 2 commits: the smallest number for which one pick is undone by
the failure of the next, and for which a retry adds to what an earlier attempt
left; in `Cleanup` two commits let a host go on after it submitted, and two tasks
are one that Codex and one that a host may still be at.  The third task of
`Integration` needs the two that may conflict, so that its commits and a delivery
come after either order of theirs; in the second plan it needs one, so that it may
be prepared while the other is integrated.  The run has 4.4 million states and
takes about two minutes.  In `Invocation` two cancellations are the
first and the one that finds `_terminate` under way; output of `Limit` and of
`Limit` + 1, in one read or two, are all the cases there are (and
`WholeWithinLimit` is proved for every size).  Two processes are the smallest
number that can mix migrations; two jobs, one that writes between the other's
read and write.  Jobs of the instance last 4 units of 30 seconds, and the rows it
starts from have latencies of 0, of 6 units for one success, which is the most a
`Quick` row of one success may have, and of 50, far beyond where the penalty is
capped.  A page of one run with two runs has a second page, and a run
that falls off the first; four acts are to select, open, confirm and one more;
`Settles` needs the acts, changes and failures to end, and their bounds are the
premise that they do.

`CHECK_DEADLOCK FALSE` stands where a system may really stop: a run that was
deleted, or is blocked with nothing asked of it, has no next step, nor has an
invocation that ended, a database refused by all, a plan that was rejected.  The
page of `WebClient` never stops polling, and there deadlock is checked.

**Fairness.**  `ServiceFairness` is weak fairness of each coroutine, each worker
and the requests being served: asyncio runs what can go on, Codex's
timeout ends every invocation, and the poll notices a cancellation.  Weak
fairness suffices since a process's loop is held for finitely many steps.
`ResponsiveHost`, that the host claims and submits, is a premise of `RunsEnd`
only.  What `Orchestrator` assumes of an invocation is checked one level down:
`InvocationEnds` and `CancelledRunIsLeft`.  There the loop runs what is ready and
its timers, SIGKILL ends a process, SIGTERM ends one that heeds it; nothing
makes Codex read its prompt, write or exit by itself, and the timeout, half an
hour by default, is a premise of `InvocationEnds` only, so that `CancelledRunIsLeft` cannot rest
on it.  In `Schema` a migration under way goes on unless it is interrupted; nobody
has to open a database again.  The page is visible, so it polls; the server answers
or fails, and the script takes the answer.  The sweeps of `RefreshLoop` are a loop
that runs.  No fairness is assumed of users, failures, cancellation, or of other
processes' changes.

**Findings.**  `two_reviews`: `CHANGELOG.md:66` says final review is serialized
per run.  It is within one process.  When the Dashboard executes a run whose
host tasks an MCP process serves, the last decision may find both of them on
their way to `_finalize_if_ready`; both read `integrating` or `reviewing`, both
review, and the two recorded verdicts may differ.  The first to write the status
wins; the second's `set_run_status` is a no-op or raises.  That the outcome
stays an approved one when the run is completed is `CompletedWasApproved`, which
holds.

`lost_pick`: `docs/security-boundaries.md:27` says a conflict restores the prior
integration commit.  `integrate_task` restores the head it read before its
picks.  When another process picked in between (Dashboard and MCP process again),
that head is not the prior commit, and the reset drops the other task's work
from the branch; its row stays succeeded, with the commit named.
`DeliveredIsWhole` shows what limits the damage: the task in conflict is blocked,
so the run is too and nothing is delivered.  That does not survive a crash as
well: if the process ends between the reset and its submission, a host may submit
again, its commits now apply, and the run is delivered without the lost task's
commits.  So `DeliveredIsWhole` is a statement about processes that go on.

`orphan`: `docs/releases/v0.1.0-alpha.2.md:12` says active Codex subprocesses are
cancelled with their run.  `_terminate` sends SIGTERM and waits three seconds
before it kills.  `cancel_run` in the process of the invocation cancels its task
(`service.py:412`), and the poll, at most a quarter of a second later, cancels it
again (`service.py:526`); the second cancellation is delivered at the wait of
`_terminate` and ends it (`providers/codex.py:319`).  A Codex that needs longer
than that to heed SIGTERM, or ignores it, is never killed and goes on in the
worktree of a cancelled run.

## Theorems

**The store.**  `RunStoreProofs` proves, for every finite or infinite set of
positions, every set of valid plans and every set of claimants, each invariant of
run `store`, budgets included, which are a part of `TypeOK` (`TypeCorrect`), and
that decisions are final (`FinalDecisions`).  The only assumptions are those on the constants: positions
are numbers, plans are well-formed and acyclic, which `ValidationIsExact` proves of
the plans that pass validation.

None of the invariants that matter is inductive alone.  `Consistent` is their
conjunction with four facts the code relies on silently: a plan has rows only
once the run left planning (`PlanWhenPlanned`), rows before the plan are fresh
(`FreshRows`), no committed status is `retrying` (`NoneRetrying`), and a running
run has a task still to be done (`WorkLeft`, which is what `_sync_run_from_tasks`
sees to).  `StoreConsistent` shows `Consistent` to hold of the initial state and
to be kept by each action; the properties follow.

`NeverAtStandstill` is the theorem with an argument of its own.  By `WorkLeft`
some task is active.  If none were ready or running, all active ones would wait;
in a valid graph some waiting task depends on no waiting one (`NoCircularWait`),
so all its dependencies are decided, and then a refreshed status (`Refreshed`) is
not waiting.  `RefreshCases`, `RefreshKeepsDecided` and `RefreshIdempotent` are
the lemmas about the fixpoint behind it.

**The refinement.**  The last part of `RunStoreProofs` proves `Spec => ImplementsBoard`
for the same constants.  Every transaction is a step of the board or none; all but one are so
by what they assign.  A result is the case with an argument: the board's `Lose`
closes exactly the tasks downstream of the lost one, a least fixpoint over the
dependencies, while the store runs a refresh over all rows.  What the refresh
closes lies downstream (`DoomedIsDownstream`), since what it finds is itself a
least fixpoint and the failed task with its downstream is closed under it; and all
of the downstream is closed afterwards (`DownstreamIsLost`), since the statuses are
refreshed and no task has gone further than its dependencies, which is
`DependenciesFirst`.  `SyncCloses` then says that the status of the run changes
exactly when the board closes or delivers.

**Validation and the sweeps.**  `PlanningProofs` proves that validation is exact and
that the sweeps reach the fixpoint, for answers of the planner of any finite length
(`AnswersAssumption`).  `SortConsistent` is the invariant of Kahn's sort: what is left
of a task's dependencies is what was not taken yet (`Removed`), and what was taken is
in order, once each (`Sorted`).  That an order was found proves the graph acyclic
without an induction: of the tasks of a supposed cycle, the one taken first depends
on none of the others; and where the sort stops early, the tasks not taken each
depend on another of them.  `SweepConsistent` bounds the sweeps from both sides: a row that was moved
was moved to what `Refresh` says (`Progress`), and the rows a sweep has passed
without a change need none (`NothingMissed`), so that a sweep without any change
leaves a state that is closed under the rules, which is the least one by the first
half (`StableIsFixpoint`).  That the sweeps end (`Terminates`) stays with TLC.

**The service.**  `OrchestratorProofs` is about any processes, open requests, tasks,
plans and degree of parallelism, and any failures.  `ServiceConsistent` holds the
store's invariant together with what the service's own state says of the rows:
where a coroutine is bounds the status of the run (`PlaceOK`: the execution drafts a
run nobody else plans; a run that a finalizer read never runs again, and is past
integrating once it was reviewed; who is about to complete it has an approval on
record), what requests hold is a host's (`Claimed`), a worker that is alive has
its task unless the user stopped the run (`WorkersHold`), and a gather has its own
workers (`OwnBatches`).  Every step of the service is then a step of the store
(`StepStores`, which proves `ImplementsStore`): so the store's theorems hold of the
service, and `ServiceRunAgrees` draws one.  `CompletedWasApproved`,
`BackgroundFailureIsMarked` and `OneWorkerAtATask` need no more.

Two theorems are for some failures only, and each excludes what would refute it.
`RaisesOnlyWhenStopped` assumes that "error" is none of them, since an unexpected
exception raises by definition.  `OneReviewEach` assumes that no process
crashes: one that came back after recording its review would review again.
`ReviewsInOrder` is its invariant: a process has one coroutine in the finalizer at
a time, it has not reviewed before it does, and afterwards either the run has
ended or that coroutine is still there to end it.

**Integration.**  `IntegrationProofs` proves the four properties of run `integration`
for any tasks, plans, clashes, processes and numbers of commits.  It assumes that
there is a process, that the clashing pairs are pairs of commits, and what
`RunStore` assumes.  Its invariant has five parts, by what they need.  That rows and
jobs agree (`RowsAgree`) holds always.  What is on the branch, what was made and
what the jobs have still to pick account for each other (`BranchAgrees`: each commit
picked once, the past of each task's branch a beginning of the integration branch,
`StillToPick` exactly the missing ones, a succeeded task missing none) as long as
integrations did not overlap, or nothing was ever taken back (`Safe`).  `SerialAgrees`
is for the first of these: a job that integrates is alone, what a reset goes back to
is what it read with nothing but its own picks on top, and a task that is neither
done nor interrupted has nothing on the branch.  `OrderAgrees` is for the second,
with which `DeliveredIsWhole` is proved where integrations do overlap.

That `overlapped` counts preparations was found here: with integrations alone
`SerialAgrees` is not inductive, and TLC, given a plan whose third task waits for the
first only, showed `UnfinishedLeavesNothing` itself to fail.  The lemmas it
rests on are about sequences: `PendingIs` (what is left to pick is what no message
names, once each), `TaskCommitsAre` (where a task's branch forked from a beginning of
the integration branch, what `rev-list` has above their merge base is what the task
made), and `BranchStays`, that what an action leaves alone keeps what was said of it.

**Applying and deleting.**  `CleanupProofs` proves `WorkSurvives`, `AppliedIsReviewed`
and `NothingIsLeft` for any finite plans, numbers of commits and failures.  The
invariant says who may still write (`TasksAgree`: whoever is busy at a task has it
running, or was not told that the run is over; `Over`: once a run is completed
nobody is busy), that the branch stays what was reviewed until it is applied and
after (`BranchReviewed`), and reads a deletion as what is still to be executed
(`DeletionAgrees`): the removal of a task's branch has the look at its worktree and
the comparison of its commits before it in the list, in this order, or they are
done and the commits are elsewhere (`Guarded`), all comparisons coming before all
removals; and a branch that is there is still to go or was made again after it went
(`Going`).  A worktree of the run is never there without its branch (`FolderAgrees`).  `RepeatedDeletion` proves `DeletionResumes` from it: what the checks of
a deletion ask comes down to a condition on branches and worktrees
(`NothingInTheWay`), which each command of a deletion keeps.

**The database.**  `DatabaseProofs` proves the four invariants and the action property
of run `database` for any processes, jobs, tasks and durations and any rows to fill.
`SchemaConsistent` finds the lock that nobody wrote as one: the first statement of
every migration creates something whose second creation fails, so whoever got past
it is alone (`Busy`), and the objects are those of the version with what its
statements have created so far (`BusyOK`); a process that ends leaves that lock for
good (`AtRest`).  `LocksStay` and `LocksCreate` are the facts about the four scripts.
`RowsConsistent` carries what was recorded through a touch that reads in one
transaction and writes in another.  `NoWorkFromFailures` proves `FailuresRepel` for
every row, of any number of successes, failures and latencies, where the run starts
from four: the score is a fraction, and `FailureLowers` compares two by multiplying
out.  What the success rate loses is at least what the lower average can give back,
for a row that was healthy because its status costs it more (`HealthyLosesMore`), for
a quick one by the bound itself (`QuickLosesMore`).

**The invocation.**  `InvocationProofs` proves `NothingLeftBehind`,
`OutcomeTellsTheCause` and `WholeWithinLimit` for every limit, chunk size, amount
of output and number of cancellations (the assumption `InvocationAssumption`:
they are numbers, the first two positive).  All three speak of the end of an
invocation; the inductive invariant `IInv` says what holds on the way: where the
call, its poll and its task are together (`InStep`), where the process is while
its task runs (`ProcessFollows`), that nobody reads more than was written and a
verdict on the output is final (`OutputJudged`), and who asked for each
cancellation that is requested, delivered or about to be raised (`AskedFor`).
The last is what carries "only when it happened" from the request to the outcome.

**The web client.**  `WebClientProofs` proves `QuietShowsSelected` and
`ConfirmsWhatWasRead` for any runs, sizes of a page, numbers of calls and acts of the
user.  `ClientConsistent` has two parts beside types.  As long as the detail shown is
not that of the selected run, some call will bring it: one whose answer leads to the
right detail whatever is selected by then, or one that asks for the detail of the run
selected now (`DetailComes`); a call that ends without one has missed it.  And an open
dialog shows what it will ask for, or another run was selected under it (`Reads`),
while no kind of dialog is open twice (`OnceEach`), without which a preview that
arrives would leave an older deletion dialog with other runs.  The lemmas beneath are
about calls that begin, go on and end, and about closing one dialog of several.

## Only model-checked

* All liveness, `Terminates`, `SomebodyOpens` and `Settles` included: proofs under
  fairness and ENABLED are out of the prover's reach.

Every other property that a passing run checks is proved.

## Not modelled

* Worktrees of read-only tasks, moved or replaced repositories, worktrees on a branch of another name.
* Git inside a command: locks of the index, partial writes of a reset.
* SQLite inside a transaction: WAL, the busy timeout.
* Python's floats in the scores, but for the choice at equal scores.
* Settings, display names, the lead thread, the texts and token counts of usage rows.
* Text: goals, summaries, prompts, redaction, event payloads but the verdict; the
  command line and environment of Codex.
* The Dashboard's HTTP layer: tokens, headers, serialisation, one call of the
  service or the store each.  The page's rendering, languages, settings forms and
  folder picker.
* The command line and the installer: one-shot file writes.

## Plan

What is left to prove is the composition of `Invocation` with `Orchestrator`: that
the answers the latter gives to a planner, a worker and a review are outcomes of the
former.
