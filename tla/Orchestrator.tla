------------------------------ MODULE Orchestrator ------------------------------
(***************************************************************************)
(* AgentBraidService (src/agentbraid/service.py) at work on one run: the   *)
(* coroutine that plans and executes it, the coroutines of the host's      *)
(* submit_host_result requests, and the workers both of them start, in the *)
(* event loops of one or more processes that share the store of RunStore.  *)
(*                                                                         *)
(* Between two awaits a coroutine keeps its process's loop, but not the    *)
(* database: other processes' transactions come between its own.  So each  *)
(* action is one transaction (or one answer from outside), and an action   *)
(* that follows an await needs the loop of its process to be free.         *)
(* What Git and Codex answer is a choice here.                             *)
(***************************************************************************)
EXTENDS RunStore, FiniteSets, Sequences

CONSTANTS
  Owners,       \* the processes the run may be started in, and is then executed by
  HostServer,   \* the MCP process that serves the host's claims and submissions
  Cancellers,   \* the processes the user cancels the run from
  Dashboards,   \* the processes the user deletes the run from
  Calls,        \* the submit_host_result requests open at one time
  MaxParallel,  \* max_parallel_codex
  Failures      \* which of "crash", "abandon" and "error" happen

CodexWorker == "agentbraid-codex-worker"
Hosts == Claimants \ {CodexWorker}

ASSUME ServiceAssumption ==
  /\ CodexWorker \in Claimants
  /\ "execute" \notin Calls
  /\ MaxParallel \in Nat \ {0}
  /\ Failures \subseteq {"crash", "abandon", "error"}

Processes == Owners \cup {HostServer} \cup Cancellers \cup Dashboards
Coroutines == {"execute"} \cup Calls

VARIABLES
  owner,     \* the process that executes the run
  pc,        \* where each coroutine is
  submits,   \* the task a request submits a result of
  batch,     \* the tasks whose workers a coroutine gathers
  worker,    \* where the worker of each Codex task is
  starter,   \* the coroutine that claimed the task for its worker
  preparing, \* the task claim_host_task prepares a worktree for, if any
  reviews    \* the run.reviewed events, in order, with the process each is from

serviceVars == <<owner, pc, submits, batch, worker, starter, preparing, reviews>>
allVars == <<vars, serviceVars>>

ProcessOf(c) == IF c = "execute" THEN owner ELSE HostServer

\* The Dashboard executes in the background and marks failures, the MCP tool awaits.
Background == owner \in Dashboards

\* Where a coroutine has given the loop of its process up.  In the background the
\* execution of a created run starts later.
Awaits == {"idle", "planning", "drain_wait", "gather", "finalize_wait", "reviewing",
           "done", "raised", "dead"} \cup (IF Background THEN {"created"} ELSE {})
WorkerAwaits == {"none", "claimed", "starting", "invoking", "raised", "dead"}
WorkerAlive == {"claimed", "starting", "invoking", "returned", "failing", "refused",
                "submit_output", "submit_failed", "submit_blocked"}

LoopFree(p) ==
  /\ \A c \in Coroutines : ProcessOf(c) = p => pc[c] \in Awaits
  /\ \A t \in Tasks : ProcessOf(starter[t]) = p => worker[t] \in WorkerAwaits
  /\ p = HostServer => preparing = {}

\* A coroutine may go on where it was, or after an await when its loop is free.
At(c, place) == pc[c] = place /\ (place \in Awaits => LoopFree(ProcessOf(c)))
WorkerAt(t, place) ==
  worker[t] = place /\ (place \in WorkerAwaits => LoopFree(ProcessOf(starter[t])))

\* The per-run locks of a process, by the places of the coroutine holding them.
Draining == {"loop", "claiming", "gather"}
Finalizing == {"finalize", "prepare_integrating", "prepare_reviewing", "reviewing",
               "review_failed", "approved", "rejected", "approving", "rejecting"}
LockFree(c, places) ==
  \A d \in Coroutines \ {c} : ProcessOf(d) = ProcessOf(c) => pc[d] \notin places

GoTo(c, place) == pc' = [pc EXCEPT ![c] = place]

\* A bug to find: the review is not serialized.
EnterFinalizeUnlocked(c) == "finalize"

\* An uncontended asyncio lock is taken without giving up the loop.
EnterDrain(c) == IF LockFree(c, Draining) THEN "loop" ELSE "drain_wait"
EnterFinalize(c) == IF LockFree(c, Finalizing) THEN "finalize" ELSE "finalize_wait"

\* Where a coroutine ends, and where an exception takes it: a request answers its
\* client, a background execution goes on to _mark_background_failure.
Return(c) == IF c = "execute" THEN "done" ELSE "idle"
Raise(c) ==
  CASE c \in Calls                      -> "idle"
    [] c = "execute" /\ Background      -> "marking"
    [] c = "execute" /\ ~Background     -> "raised"

\* set_run_status, which leaves a run alone that has the status already, and
\* raises when the table has no such transition.
TrySetStatus(c, s, next) ==
  \/ run = s /\ UNCHANGED vars /\ GoTo(c, next)
  \/ run # s /\ SetRunStatus(s) /\ GoTo(c, next)
  \/ run # s /\ ~Accepts(s) /\ UNCHANGED vars /\ GoTo(c, Raise(c))

-----------------------------------------------------------------------------
(* execute_run up to the saved plan *)

Start(mode) ==
  /\ At("execute", "idle")
  /\ CreateRun(mode)
  /\ GoTo("execute", "created")
  /\ UNCHANGED <<owner, submits, batch, worker, starter, preparing, reviews>>

\* The target moved since create_run, or begin_planning and the planner's call.
BeginPlanning ==
  /\ At("execute", "created")
  /\ \/ run = "created" /\ SetRunStatus("planning") /\ GoTo("execute", "planning")
     \/ run = "created" /\ SetRunStatus("failed") /\ GoTo("execute", Raise("execute"))
     \/ run # "created" /\ UNCHANGED vars /\ GoTo("execute", Raise("execute"))
  /\ UNCHANGED <<owner, submits, batch, worker, starter, preparing, reviews>>

\* A failing planner is not asked about cancellation, an answering one is.
PlanningEnds ==
  /\ At("execute", "planning")
  /\ \/ GoTo("execute", "plan_failed") /\ run # "deleted"
     \/ run = "cancelled" /\ GoTo("execute", "done")
     \/ run = "deleted" /\ GoTo("execute", Raise("execute"))
     \/ run \notin {"cancelled", "deleted"} /\ GoTo("execute", "planned")
  /\ UNCHANGED <<vars, owner, submits, batch, worker, starter, preparing, reviews>>

\* The plan cannot be routed, or the workspace or its worktree is not as it was.
PlanRefused ==
  /\ At("execute", "planned")
  /\ \E place \in {"plan_failed", "plan_blocked"} : GoTo("execute", place)
  /\ UNCHANGED <<vars, owner, submits, batch, worker, starter, preparing, reviews>>

PlanFails ==
  /\ \/ At("execute", "plan_failed") /\ TrySetStatus("execute", "failed", Raise("execute"))
     \/ At("execute", "plan_blocked") /\ TrySetStatus("execute", "blocked", Raise("execute"))
  /\ UNCHANGED <<owner, submits, batch, worker, starter, preparing, reviews>>

PlanSaved ==
  /\ At("execute", "planned")
  /\ \/ (\E p \in Plans : SavePlan(p)) /\ GoTo("execute", EnterDrain("execute"))
     \/ run \notin {"created", "planning"} /\ UNCHANGED vars /\ GoTo("execute", Raise("execute"))
  /\ UNCHANGED <<owner, submits, batch, worker, starter, preparing, reviews>>

\* A bug to find: only a failure of the planning is marked.
MarkPlanningFailure ==
  /\ At("execute", "marking")
  /\ GoTo("execute", "raised")
  /\ IF run = "planning" THEN SetRunStatus("failed") ELSE UNCHANGED vars
  /\ UNCHANGED <<owner, submits, batch, worker, starter, preparing, reviews>>

\* _mark_background_failure reads the status in one transaction and writes it in
\* the next.
MarkFailure ==
  /\ \/ /\ At("execute", "marking")
        /\ GoTo("execute", IF run \in {"blocked", "completed", "cancelled", "failed", "deleted"}
                           THEN "raised" ELSE "mark")
        /\ UNCHANGED vars
     \/ /\ At("execute", "mark")
        /\ GoTo("execute", "raised")
        /\ IF Accepts("failed") THEN SetRunStatus("failed") ELSE UNCHANGED vars
  /\ UNCHANGED <<owner, submits, batch, worker, starter, preparing, reviews>>

-----------------------------------------------------------------------------
(* _drain_codex_tasks *)

DrainLocked(c) ==
  /\ At(c, "drain_wait") /\ LockFree(c, Draining)
  /\ GoTo(c, "loop")
  /\ UNCHANGED <<vars, owner, submits, batch, worker, starter, preparing, reviews>>

DrainLoop(c) ==
  /\ At(c, "loop")
  /\ GoTo(c, CASE run = "running" -> "claiming"
               [] run = "deleted" -> Raise(c)
               [] OTHER           -> EnterFinalize(c))
  /\ UNCHANGED <<vars, owner, submits, batch, worker, starter, preparing, reviews>>

DrainClaims(c) ==
  /\ At(c, "claiming") /\ Cardinality(batch[c]) < MaxParallel
  /\ ClaimTask("codex", CodexWorker, Tasks)
  /\ LET claimed == {t \in Tasks : attempt'[t] # attempt[t]}
     IN /\ batch' = [batch EXCEPT ![c] = @ \cup claimed]
        /\ worker' = [t \in Tasks |-> IF t \in claimed THEN "claimed" ELSE worker[t]]
        /\ starter' = [t \in Tasks |-> IF t \in claimed THEN c ELSE starter[t]]
  /\ UNCHANGED <<owner, pc, submits, preparing, reviews>>

\* Enough is claimed, or claim_task returned None.
DrainStarts(c) ==
  /\ At(c, "claiming")
  /\ IF Cardinality(batch[c]) = MaxParallel
     THEN UNCHANGED vars
     ELSE \/ ClaimNothing("codex", Tasks)
          \/ run \in RunStatuses \ {"running"} /\ UNCHANGED vars
  /\ IF batch[c] = {} THEN GoTo(c, EnterFinalize(c)) ELSE GoTo(c, "gather")
  /\ worker' = [t \in Tasks |-> IF t \in batch[c] THEN "starting" ELSE worker[t]]
  /\ UNCHANGED <<owner, submits, batch, starter, preparing, reviews>>

\* claim_task raises; what was claimed before is not started.
DrainClaimRaises(c) ==
  /\ At(c, "claiming") /\ run = "deleted" /\ Cardinality(batch[c]) < MaxParallel
  /\ GoTo(c, Raise(c))
  /\ batch' = [batch EXCEPT ![c] = {}]
  /\ worker' = [t \in Tasks |-> IF t \in batch[c] THEN "none" ELSE worker[t]]
  /\ UNCHANGED <<vars, owner, submits, starter, preparing, reviews>>

\* gather returns when every worker did, or raises with the first that raised and
\* lets the others run on.
GatherEnds(c) ==
  /\ At(c, "gather")
  /\ LET failed == {t \in batch[c] : worker[t] = "raised"}
     IN /\ batch[c] = {} \/ failed # {}
        /\ GoTo(c, IF failed = {} THEN "loop" ELSE Raise(c))
        /\ batch' = [batch EXCEPT ![c] = {}]
        /\ worker' = [t \in Tasks |-> IF t \in failed THEN "none" ELSE worker[t]]
  /\ UNCHANGED <<vars, owner, submits, starter, preparing, reviews>>

-----------------------------------------------------------------------------
(* _execute_codex_task *)

WorkerGoesTo(t, place) ==
  worker' = [worker EXCEPT ![t] = place] /\ UNCHANGED batch

WorkerReturns(t) ==
  /\ worker' = [worker EXCEPT ![t] = "none"]
  /\ batch' = [c \in Coroutines |-> batch[c] \ {t}]

\* Nobody hears of the exception of a worker that is no longer gathered.
WorkerRaises(t) ==
  /\ worker' = [worker EXCEPT ![t] = IF t \in batch[starter[t]] THEN "raised" ELSE "none"]
  /\ UNCHANGED batch

\* prepare_task or prepare_run fails, or set_task_worktree finds the task not
\* running any more, or the worker is invoked.
WorkerPrepares(t) ==
  /\ WorkerAt(t, "starting")
  /\ \/ UNCHANGED vars /\ WorkerGoesTo(t, "failing")
     \/ SetTaskWorktree(t) /\ WorkerGoesTo(t, "invoking")
  /\ UNCHANGED <<owner, pc, submits, starter, preparing, reviews>>

\* A bug to find: the cancellation is not watched for, and the invocation hangs.
WorkerInvokedUnwatched(t) ==
  /\ WorkerAt(t, "invoking")
  /\ run # "cancelled"
  /\ \E place \in {"failing", "refused", "returned"} : WorkerGoesTo(t, place)
  /\ UNCHANGED <<vars, owner, pc, submits, starter, preparing, reviews>>

\* The invocation ends with an error of the provider, with an answer, or because
\* the cancellation was noticed; an answer counts only in a run not cancelled.
\* The answer of a worker includes the commit and integration of its changes.
WorkerInvoked(t) ==
  /\ WorkerAt(t, "invoking")
  /\ \/ \E place \in {"failing", "refused"} : WorkerGoesTo(t, place)
     \/ run = "cancelled" /\ WorkerReturns(t)
     \/ run \notin {"cancelled", "deleted"} /\ WorkerGoesTo(t, "returned")
  /\ UNCHANGED <<vars, owner, pc, submits, starter, preparing, reviews>>

\* A bug to find: the run is not looked at again.
WorkerDecidesBlindly(t) ==
  /\ worker[t] \in {"returned", "failing", "refused"}
  /\ WorkerGoesTo(t, CASE worker[t] = "returned" -> "submit_output"
                       [] worker[t] = "failing"  -> "submit_failed"
                       [] worker[t] = "refused"  -> "submit_blocked")
  /\ UNCHANGED <<vars, owner, pc, submits, starter, preparing, reviews>>

\* The last look at the run before the result is submitted.
WorkerDecides(t) ==
  /\ worker[t] \in {"returned", "failing", "refused"}
  /\ CASE run = "cancelled" -> WorkerReturns(t)
       [] run = "deleted"   -> WorkerRaises(t)
       [] OTHER -> WorkerGoesTo(t, CASE worker[t] = "returned" -> "submit_output"
                                     [] worker[t] = "failing"  -> "submit_failed"
                                     [] worker[t] = "refused"  -> "submit_blocked")
  /\ UNCHANGED <<vars, owner, pc, submits, starter, preparing, reviews>>

\* The outcomes and commits a result can have: a successful mutating task has its
\* commit, and an integration that failed leaves one too.
Results(t) ==
  {r \in Outcomes \X BOOLEAN :
     /\ r[2] => t \in plan.mutates
     /\ r[1] = "succeeded" => r[2] = (t \in plan.mutates)}

WorkerSubmits(t) ==
  /\ \/ \E r \in Results(t) :
          /\ \/ WorkerAt(t, "submit_output")
             \/ WorkerAt(t, "submit_failed") /\ r = <<"failed", FALSE>>
             \/ WorkerAt(t, "submit_blocked") /\ r = <<"blocked", FALSE>>
          /\ SubmitTaskResult(t, CodexWorker, r[1], r[2], worktree[t])
          /\ WorkerReturns(t)
     \/ /\ worker[t] \in {"submit_output", "submit_failed", "submit_blocked"}
        /\ status[t] # "running"
        /\ UNCHANGED vars
        /\ WorkerRaises(t)
  /\ UNCHANGED <<owner, pc, submits, starter, preparing, reviews>>

-----------------------------------------------------------------------------
(* claim_host_task and submit_host_result *)

HostClaims(w, wanted) ==
  /\ LoopFree(HostServer)
  /\ ClaimTask("host", w, wanted)
  /\ preparing' = {t \in Tasks : attempt'[t] # attempt[t]}
  /\ UNCHANGED <<owner, pc, submits, batch, worker, starter, reviews>>

\* The worktree is prepared and recorded, or a failure is submitted, or either
\* raises because the task is not running any more.
HostPrepares(t) ==
  /\ t \in preparing
  /\ preparing' = {}
  /\ \/ SetTaskWorktree(t)
     \/ SubmitTaskResult(t, claimant[t], "failed", FALSE, FALSE)
     \/ status[t] # "running" /\ UNCHANGED vars
  /\ UNCHANGED <<owner, pc, submits, batch, worker, starter, reviews>>

\* A bug to find: whose task it is is not checked.
HostCallsForAnyone(c, t) ==
  /\ At(c, "idle")
  /\ run \in RunStatuses
  /\ status[t] = "running"
  /\ submits' = [submits EXCEPT ![c] = {t}]
  /\ GoTo(c, "submitting")
  /\ UNCHANGED <<vars, owner, batch, worker, starter, preparing, reviews>>

\* The checks of submit_host_result; a request that fails them changes nothing.
HostCalls(c, t) ==
  /\ At(c, "idle")
  /\ run \in RunStatuses
  /\ status[t] = "running" /\ plan.executor[t] = "host"
  /\ submits' = [submits EXCEPT ![c] = {t}]
  /\ GoTo(c, "submitting")
  /\ UNCHANGED <<vars, owner, batch, worker, starter, preparing, reviews>>

\* A bug to find: the tasks a result makes ready wait for the next request.
HostSubmitsOnly(c, t) ==
  /\ At(c, "submitting") /\ t \in submits[c]
  /\ \/ \E r \in Results(t) :
          /\ SubmitTaskResult(t, claimant[t], r[1], r[2], worktree[t])
          /\ GoTo(c, EnterFinalize(c))
     \/ status[t] # "running" /\ UNCHANGED vars /\ GoTo(c, Raise(c))
  /\ submits' = [submits EXCEPT ![c] = {}]
  /\ UNCHANGED <<owner, batch, worker, starter, preparing, reviews>>

HostSubmits(c, t) ==
  /\ At(c, "submitting") /\ t \in submits[c]
  /\ \/ \E r \in Results(t) :
          /\ SubmitTaskResult(t, claimant[t], r[1], r[2], worktree[t])
          /\ GoTo(c, EnterDrain(c))
     \/ status[t] # "running" /\ UNCHANGED vars /\ GoTo(c, Raise(c))
  /\ submits' = [submits EXCEPT ![c] = {}]
  /\ UNCHANGED <<owner, batch, worker, starter, preparing, reviews>>

-----------------------------------------------------------------------------
(* _finalize_if_ready *)

FinalizeLocked(c) ==
  /\ At(c, "finalize_wait") /\ LockFree(c, Finalizing)
  /\ GoTo(c, "finalize")
  /\ UNCHANGED <<vars, owner, submits, batch, worker, starter, preparing, reviews>>

\* A bug to find: the finalizer takes it that the drain left nothing to do.
FinalizeUnread(c) ==
  /\ At(c, "finalize")
  /\ GoTo(c, CASE run \in {"running", "integrating"} -> "prepare_integrating"
               [] run = "reviewing" -> "prepare_reviewing"
               [] run = "deleted"   -> Raise(c)
               [] OTHER             -> Return(c))
  /\ UNCHANGED <<vars, owner, submits, batch, worker, starter, preparing, reviews>>

FinalizeReads(c) ==
  /\ At(c, "finalize")
  /\ GoTo(c, CASE run = "integrating" -> "prepare_integrating"
               [] run = "reviewing"   -> "prepare_reviewing"
               [] run = "deleted"     -> Raise(c)
               [] OTHER               -> Return(c))
  /\ UNCHANGED <<vars, owner, submits, batch, worker, starter, preparing, reviews>>

\* The integration worktree is there or not; a run read as integrating is set
\* to reviewing.
FinalizePrepares(c) ==
  /\ \/ /\ \/ At(c, "prepare_integrating")
           \/ At(c, "prepare_reviewing")
        /\ TrySetStatus(c, "blocked", Return(c))
     \/ At(c, "prepare_integrating") /\ TrySetStatus(c, "reviewing", "reviewing")
     \/ At(c, "prepare_reviewing") /\ UNCHANGED vars /\ GoTo(c, "reviewing")
  /\ UNCHANGED <<owner, submits, batch, worker, starter, preparing, reviews>>

\* A bug to find: a review that fails leaves the run to the next one.
ReviewEndsQuietly(c) ==
  /\ At(c, "reviewing")
  /\ \/ GoTo(c, Return(c))
     \/ \E verdict \in {"approved", "rejected"} : GoTo(c, verdict)
  /\ UNCHANGED <<vars, owner, submits, batch, worker, starter, preparing, reviews>>

ReviewEnds(c) ==
  /\ At(c, "reviewing")
  /\ \/ GoTo(c, "review_failed") /\ run # "deleted"
     \/ run = "cancelled" /\ GoTo(c, Return(c))
     \/ run = "deleted" /\ GoTo(c, Raise(c))
     \/ /\ run \notin {"cancelled", "deleted"}
        /\ \E verdict \in {"approved", "rejected"} : GoTo(c, verdict)
  /\ UNCHANGED <<vars, owner, submits, batch, worker, starter, preparing, reviews>>

\* A bug to find: the verdict is recorded and not acted on.
ReviewRecordedOnly(c) ==
  /\ \E verdict \in {"approved", "rejected"} :
       /\ At(c, verdict)
       /\ GoTo(c, "approving")
       /\ reviews' = Append(reviews, [verdict |-> verdict, by |-> ProcessOf(c)])
  /\ UNCHANGED <<vars, owner, submits, batch, worker, starter, preparing>>

\* record_event looks at nothing but the run's existence.
ReviewRecorded(c) ==
  /\ \E verdict \in {"approved", "rejected"} :
       /\ At(c, verdict)
       /\ IF run = "deleted"
          THEN GoTo(c, Raise(c)) /\ UNCHANGED reviews
          ELSE /\ GoTo(c, IF verdict = "approved" THEN "approving" ELSE "rejecting")
               /\ reviews' = Append(reviews, [verdict |-> verdict, by |-> ProcessOf(c)])
  /\ UNCHANGED <<vars, owner, submits, batch, worker, starter, preparing>>

ReviewRules(c) ==
  /\ \/ At(c, "approving") /\ TrySetStatus(c, "completed", Return(c))
     \/ At(c, "rejecting") /\ TrySetStatus(c, "blocked", Return(c))
     \/ At(c, "review_failed") /\ TrySetStatus(c, "blocked", Return(c))
  /\ UNCHANGED <<owner, submits, batch, worker, starter, preparing, reviews>>

-----------------------------------------------------------------------------
(* The user, and what goes wrong *)

Cancel(p) ==
  /\ LoopFree(p)
  /\ CancelRun
  /\ UNCHANGED serviceVars

Delete(p) ==
  /\ LoopFree(p)
  /\ DeleteRunRecord
  /\ UNCHANGED serviceVars

\* The client gives a request up, or the Dashboard's shutdown has cancelled the run
\* and cancels its execution: asyncio cancels the coroutine at its await, and with
\* a gather the workers in it.  No status is written.
Abandon(c) ==
  /\ "abandon" \in Failures
  /\ pc[c] \in {"planning", "drain_wait", "gather", "finalize_wait", "reviewing"}
  /\ LoopFree(ProcessOf(c))
  /\ c = "execute" /\ Background => run \in TerminalRun \cup {"deleted"}
  /\ GoTo(c, IF c = "execute" THEN "dead" ELSE "idle")
  /\ worker' = [t \in Tasks |-> IF t \in batch[c] /\ worker[t] # "raised" THEN "dead"
                               ELSE IF t \in batch[c] THEN "none" ELSE worker[t]]
  /\ batch' = [batch EXCEPT ![c] = {}]
  /\ UNCHANGED <<vars, owner, submits, starter, preparing, reviews>>

\* Planning, a worker, an integration or the preparation of a worktree raises what
\* the service handles nowhere, an OSError of the file system for instance.
Breaks(c) ==
  /\ "error" \in Failures
  /\ \E place \in {"created", "planning", "planned", "submitting", "prepare_integrating",
                    "prepare_reviewing", "reviewing"} : At(c, place)
  /\ GoTo(c, Raise(c))
  /\ submits' = [d \in Calls |-> IF d = c THEN {} ELSE submits[d]]
  /\ UNCHANGED <<vars, owner, batch, worker, starter, preparing, reviews>>

WorkerBreaks(t) ==
  /\ "error" \in Failures
  /\ \E place \in {"starting", "invoking", "returned"} : WorkerAt(t, place)
  /\ WorkerRaises(t)
  /\ UNCHANGED <<vars, owner, pc, submits, starter, preparing, reviews>>

HostPrepareBreaks ==
  /\ "error" \in Failures
  /\ preparing # {}
  /\ preparing' = {}
  /\ UNCHANGED <<vars, owner, pc, submits, batch, worker, starter, reviews>>

\* A process ends between any two transactions and takes its coroutines along.
\* The host's next session starts a new server; nothing resumes an execution.
Crash(p) ==
  /\ "crash" \in Failures
  /\ pc' = [c \in Coroutines |->
              IF ProcessOf(c) # p THEN pc[c]
              ELSE IF c \in Calls THEN "idle"
              ELSE IF pc[c] = "idle" THEN "idle" ELSE "dead"]
  /\ submits' = [c \in Calls |-> IF p = HostServer THEN {} ELSE submits[c]]
  /\ batch' = [c \in Coroutines |-> IF ProcessOf(c) = p THEN {} ELSE batch[c]]
  /\ worker' = [t \in Tasks |->
                  IF ProcessOf(starter[t]) = p /\ worker[t] \in WorkerAlive
                  THEN "dead" ELSE worker[t]]
  /\ preparing' = IF p = HostServer THEN {} ELSE preparing
  /\ UNCHANGED <<vars, owner, starter, reviews>>

-----------------------------------------------------------------------------
ServiceInit ==
  /\ Init
  /\ owner \in Owners
  /\ pc = [c \in Coroutines |-> "idle"]
  /\ submits = [c \in Calls |-> {}]
  /\ batch = [c \in Coroutines |-> {}]
  /\ worker = [t \in Tasks |-> "none"]
  /\ starter = [t \in Tasks |-> "execute"]
  /\ preparing = {}
  /\ reviews = <<>>

ExecuteStep ==
  \/ BeginPlanning \/ PlanningEnds \/ PlanRefused \/ PlanFails \/ PlanSaved \/ MarkFailure

CoroutineStep(c) ==
  \/ DrainLocked(c) \/ DrainLoop(c) \/ DrainClaims(c) \/ DrainStarts(c)
  \/ DrainClaimRaises(c) \/ GatherEnds(c)
  \/ FinalizeLocked(c) \/ FinalizeReads(c) \/ FinalizePrepares(c)
  \/ ReviewEnds(c) \/ ReviewRecorded(c) \/ ReviewRules(c)

WorkerStep(t) ==
  \/ WorkerPrepares(t) \/ WorkerInvoked(t) \/ WorkerDecides(t) \/ WorkerSubmits(t)

RequestStep ==
  \/ \E t \in Tasks : HostPrepares(t)
  \/ \E c \in Calls, t \in Tasks : HostSubmits(c, t)

HostStep ==
  \/ \E w \in Hosts, wanted \in Wishes : HostClaims(w, wanted)
  \/ \E c \in Calls, t \in Tasks : HostCalls(c, t)

UserStep ==
  \/ \E mode \in Deliveries : Start(mode)
  \/ \E p \in Cancellers : Cancel(p)
  \/ \E p \in Dashboards : Delete(p)

FailureStep ==
  \/ \E c \in Coroutines : Abandon(c) \/ Breaks(c)
  \/ \E t \in Tasks : WorkerBreaks(t)
  \/ HostPrepareBreaks
  \/ \E p \in Processes : Crash(p)

ServiceNext ==
  \/ ExecuteStep
  \/ \E c \in Coroutines : CoroutineStep(c)
  \/ \E t \in Tasks : WorkerStep(t)
  \/ RequestStep \/ HostStep \/ UserStep \/ FailureStep

ServiceSpec == ServiceInit /\ [][ServiceNext]_allVars

\* asyncio runs every coroutine that can go on; the provider's timeout ends every
\* invocation, and a lock is handed to one of those that wait for it.
ServiceFairness ==
  /\ WF_allVars(ExecuteStep)
  /\ \A c \in Coroutines : WF_allVars(CoroutineStep(c))
  /\ \A t \in Tasks : WF_allVars(WorkerStep(t))
  /\ WF_allVars(RequestStep)

\* The host claims what it is offered and submits a result of what it claimed.
ResponsiveHost == WF_allVars(HostStep)

FairServiceSpec == ServiceSpec /\ ServiceFairness

-----------------------------------------------------------------------------
(* What is expected of the service *)

\* Whatever the coroutines do to the run, they do it as RunStore lets its callers:
\* in particular nobody moves a run on while its tasks are being drained, except
\* to fail it.
ImplementsStore == Init /\ [][Next]_vars

\* The final review of a run is held once, however many results come in at once.
ReviewedOnce == Len(reviews) <= 1

\* No process reviews a run twice, however many results come in at once and however
\* often they are rejected or fail: the finalize lock, and the status read under
\* it, see to that.
ReviewedOnceByEach ==
  \A i, j \in DOMAIN reviews : reviews[i].by = reviews[j].by => i = j

\* A run is completed on the word of an approving review, not by the failure of a
\* review, a rejection that lost a race, or a restart.
CompletedWasApproved ==
  run = "completed" => \E i \in DOMAIN reviews : reviews[i].verdict = "approved"

\* _drain_codex_tasks never starts a worker on a task that another worker is still
\* at, be it one of an earlier attempt or of another request.
ClaimsAreFree ==
  \A t \in Tasks : worker'[t] = "claimed" => worker[t] \in {"claimed", "none", "dead"}
OneWorkerAtATask ==
  [][ClaimsAreFree /\ \A t \in Tasks :
       attempt'[t] = attempt[t] + 1 => worker[t] \in {"none", "dead"}]_allVars

\* A worker finds its task taken from it only by the user: no retry, no request
\* and no other worker decides a task that a worker is at, so that the exception
\* that ends a gather early comes in a run cancelled or deleted.
RaisesOnlyIfStopped ==
  \A t \in Tasks : worker[t] = "raised" => run \in {"cancelled", "deleted"}

\* A run whose execution in the Dashboard's background raised, for a reason it
\* expects or not, is not left to look active.
BackgroundFailureIsMarked ==
  Background /\ pc["execute"] = "raised" => run \in TerminalRun \cup {"blocked", "deleted"}

\* If the host takes part in the run, the run ends.
Ended == run \in TerminalRun \cup {"blocked", "deleted"}
RunsEnd == ResponsiveHost => (run = "created" ~> Ended)

\* A run whose tasks are done gets its verdict whether the host is there or not.
ReviewsConclude == run \in {"integrating", "reviewing"} ~> Ended

\* What works at a cancelled run stops.
AtRest ==
  /\ \A c \in Coroutines : pc[c] \in {"idle", "done", "raised", "dead"}
  /\ \A t \in Tasks : worker[t] \in {"none", "dead"}
CancelledWorkStops == run = "cancelled" ~> AtRest
=============================================================================
