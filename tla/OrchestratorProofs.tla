--------------------------- MODULE OrchestratorProofs ---------------------------
(***************************************************************************)
(* The service uses the store as the store lets its callers, reviews what  *)
(* it completes, and never puts two workers to a task: for any processes,  *)
(* requests, plans and limits, and for any failures but where a theorem    *)
(* says which.                                                             *)
(***************************************************************************)
EXTENDS Orchestrator, RunStoreProofs

-----------------------------------------------------------------------------
(* The inductive invariant *)

Held == WorkerAlive \cup {"raised"}
Reviews == [verdict : {"approved", "rejected"}, by : Processes]

ServiceTypeOK ==
  /\ owner \in Owners
  /\ pc = [c \in Coroutines |-> pc[c]]
  /\ submits \in [Calls -> SUBSET Tasks]
  /\ batch \in [Coroutines -> SUBSET Tasks]
  /\ worker \in [Tasks -> Held \cup {"none", "dead"}]
  /\ starter \in [Tasks -> Coroutines]
  /\ preparing \in SUBSET Tasks
  /\ reviews \in Seq(Reviews)

\* Where the execution plans, and where a finalizer is after it read the run:
\* before and after its review is recorded.
Drafting == {"created", "planning", "planned", "plan_failed", "plan_blocked"}
Judging == {"prepare_integrating", "prepare_reviewing", "reviewing", "review_failed",
            "approved", "rejected"}
Ruling == {"approving", "rejecting"}

Approved == \E i \in DOMAIN reviews : reviews[i].verdict = "approved"

\* What a coroutine's place says of the run: the execution begins with the run's
\* row and plans a run nobody else plans, a run read by a finalizer never runs
\* again, and is integrated no more once it is reviewed.
PlaceOK(c) ==
  /\ c = "execute" => (run = "none" <=> pc[c] = "idle")
  /\ c = "execute" /\ pc[c] \in Drafting
       => run \notin {"running", "integrating", "reviewing", "completed"}
  /\ pc[c] \in Judging \cup Ruling => run \notin {"none", "created", "planning", "running"}
  /\ pc[c] \in (Judging \ {"prepare_integrating"}) \cup Ruling => run # "integrating"
  /\ pc[c] = "approving" => Approved
  /\ c = "execute" /\ Background /\ pc[c] = "raised" => Ended

PlacesAgree == \A c \in Coroutines : PlaceOK(c)

\* Running tasks were claimed under a known name, and a host's request or claim is
\* at a task of the host.
HostTask(t) == run = "deleted" \/ (t \in plan.tasks /\ plan.executor[t] = "host")
Claimed ==
  /\ \A t \in Tasks : status[t] = "running" => claimant[t] \in Claimants
  /\ \A c \in Calls : \A t \in submits[c] : HostTask(t)
  /\ \A t \in preparing : HostTask(t)

\* Only the user takes a task from the worker at it, and a coroutine gathers
\* nobody else's workers.
Stopped == run \in {"cancelled", "deleted"}
Holds(t) == Stopped \/ (plan.executor[t] = "codex" /\ status[t] = "running")
WorkersHold == \A t \in Tasks : worker[t] \in Held => Holds(t)
OwnBatches == \A c \in Coroutines : \A t \in batch[c] : starter[t] = c /\ worker[t] \in Held

ServiceConsistent ==
  /\ Consistent
  /\ ServiceTypeOK
  /\ PlacesAgree
  /\ CompletedWasApproved
  /\ Claimed
  /\ WorkersHold
  /\ OwnBatches

\* Without crashes: one finalizer in a process at a time, which has not reviewed
\* before it does, and after whose review the run is not left to the next one.
OneFinalizer ==
  \A c, d \in Coroutines :
    ProcessOf(c) = ProcessOf(d) /\ pc[c] \in Finalizing /\ pc[d] \in Finalizing => c = d

Reviewed(p) == \E i \in DOMAIN reviews : reviews[i].by = p

ReviewsInOrder ==
  /\ OneFinalizer
  /\ \A c \in Coroutines : pc[c] \in Judging => ~Reviewed(ProcessOf(c))
  /\ \A p \in Processes :
       Reviewed(p) => Ended \/ \E c \in Coroutines : ProcessOf(c) = p /\ pc[c] \in Ruling
  /\ ReviewedOnceByEach

-----------------------------------------------------------------------------
(* What the service sees of the store's transactions *)

\* The moves of a run but for its creation and its plan.
Onward ==
  \/ run' = run
  \/ run \in RunStatuses /\ run' \in RunTransitions[run] \ {"running"}
  \/ run \in TerminalRun /\ run' = "deleted"

\* A claim hands out a ready task of the plan, and only that one becomes running.
LEMMA ClaimSeen ==
  ASSUME Consistent, NEW e \in Executors, NEW w \in Claimants, NEW wanted \in Wishes,
         ClaimTask(e, w, wanted)
  PROVE  /\ Next /\ run = "running" /\ UNCHANGED <<run, plan>>
         /\ \E t \in plan.tasks :
              /\ t \in Tasks /\ plan.executor[t] = e /\ status[t] = "ready"
              /\ status' = [status EXCEPT ![t] = "running"]
              /\ attempt' = [attempt EXCEPT ![t] = @ + 1]
              /\ claimant' = [claimant EXCEPT ![t] = w]
<1>1. Next /\ run = "running" /\ UNCHANGED <<run, plan>>
  BY DEF Next, ClaimTask
<1>2. PICK t \in Claimable(e, wanted) :
        /\ status' = [Refresh(plan, status) EXCEPT ![t] = "running"]
        /\ attempt' = [attempt EXCEPT ![t] = @ + 1]
        /\ claimant' = [claimant EXCEPT ![t] = w]
  BY DEF ClaimTask
<1>3. Refresh(plan, status) = status
  BY DEF Consistent, Refreshed
<1>4. t \in Tasks
  BY DEF Claimable, Wishes
<1>5. status[t] = "ready" /\ plan.executor[t] = e
  BY <1>3 DEF Claimable
<1>6. t \in plan.tasks
  BY <1>4, <1>5 DEF Consistent, RowsTyped
<1>. QED
  BY <1>1, <1>2, <1>3, <1>4, <1>5, <1>6

\* A result decides the task it is of, and touches no other running task.
LEMMA SubmitSeen ==
  ASSUME Consistent, NEW t \in Tasks, NEW w, NEW o \in Outcomes, NEW sha, NEW path,
         SubmitTaskResult(t, w, o, sha, path)
  PROVE  /\ run \in RunStatuses /\ status[t] = "running" /\ UNCHANGED <<plan, attempt, claimant>>
         /\ Onward /\ (run' = "completed" => run = "completed")
         /\ \A u \in Tasks : status'[u] = "running" <=> u # t /\ status[u] = "running"
<1> DEFINE s == ResultStatus(t, o)
<1> DEFINE mid == [status EXCEPT ![t] = s]
<1>1. /\ run \in RunStatuses /\ status[t] = "running" /\ UNCHANGED <<plan, attempt, claimant>>
      /\ status' = Refresh(plan, mid) /\ run' = SyncRun(status')
  BY DEF SubmitTaskResult, CanSubmit
<1>2. s # "running"
  BY DEF ResultStatus, Outcomes
<1>3. status \in [Tasks -> TaskStatuses \cup {"absent"}] /\ delivery \in Deliveries
  BY DEF Consistent, RowsTyped
<1>. HIDE DEF s
<1>4. \A u \in Tasks : mid[u] = "running" <=> u # t /\ status[u] = "running"
  BY <1>2, <1>3
<1>. HIDE DEF mid
<1>5. \A u \in Tasks : status'[u] = "running" <=> mid[u] = "running"
  BY <1>1, RefreshKeepsDecided
<1>6. Onward /\ (run' = "completed" => run = "completed")
  BY <1>1 DEF Onward, SyncRun, Verdict, RunStatuses, RunTransitions
<1>. QED
  BY <1>1, <1>4, <1>5, <1>6

\* A status the service asks for is a step of the store, and a move onward.
LEMMA SetStatusSeen ==
  ASSUME NEW s \in RunStatuses \ {"running"}, SetRunStatus(s), CallersAsk(s)
  PROVE  Next /\ Onward /\ run' = s
  BY DEF Next, SetRunStatus, Accepts, Onward

\* A cancellation leaves no task running.
LEMMA CancelSeen ==
  ASSUME CancelRun
  PROVE  /\ Next /\ Onward /\ run' = "cancelled" /\ UNCHANGED <<plan, attempt, claimant>>
         /\ \A t \in Tasks : status'[t] # "running"
  BY DEF Next, CancelRun, Onward, RunStatuses, TerminalRun, RunTransitions, Active, details

\* A deletion is a step of the store.
LEMMA DeleteSeen ==
  ASSUME DeleteRunRecord
  PROVE  /\ Next /\ Onward /\ run' = "deleted"
         /\ \A t \in Tasks : status'[t] # "running" /\ attempt'[t] = 0
  BY DEF Next, DeleteRunRecord, Onward, Absent

\* TrySetStatus is a step of the store or none, and ends where it should.
LEMMA TrySeen ==
  ASSUME NEW c, NEW next, NEW s \in {"failed", "blocked", "reviewing", "completed"},
         run = "running" => s = "failed",
         TrySetStatus(c, s, next)
  PROVE  /\ [Next]_vars /\ Onward /\ UNCHANGED <<plan, status, attempt, claimant>>
         /\ \/ run' = s /\ GoTo(c, next)
            \/ run' = run /\ run # s /\ ~Accepts(s) /\ GoTo(c, Raise(c))
<1>1. s \in RunStatuses \ {"running"} /\ CallersAsk(s)
  BY DEF RunStatuses, CallersAsk
<1>2. CASE run = s /\ UNCHANGED vars /\ GoTo(c, next)
  BY <1>2 DEF Onward, vars
<1>3. CASE SetRunStatus(s) /\ GoTo(c, next)
  BY <1>1, <1>3, SetStatusSeen DEF SetRunStatus, details
<1>4. CASE run # s /\ ~Accepts(s) /\ UNCHANGED vars /\ GoTo(c, Raise(c))
  BY <1>4 DEF Onward, vars
<1>. QED
  BY <1>2, <1>3, <1>4 DEF TrySetStatus

-----------------------------------------------------------------------------
(* The service's steps keep the variables' types. *)

\* A coroutine's place and the tasks it gathers, a worker's place and its starter.
LEMMA InitServiceConsistent == ServiceInit => ServiceConsistent
<1>. SUFFICES ASSUME ServiceInit PROVE ServiceConsistent
  OBVIOUS
<1>. USE DEF ServiceInit
<1>1. Consistent /\ run = "none"
  BY InitConsistent DEF Init
<1>2. ServiceTypeOK
  <2>1. "execute" \in Coroutines
    BY DEF Coroutines
  <2>. QED
    BY <2>1 DEF ServiceTypeOK
<1>3. PlacesAgree /\ CompletedWasApproved
  BY <1>1 DEF PlacesAgree, PlaceOK, Drafting, Judging, Ruling, CompletedWasApproved
<1>4. Claimed
  BY <1>1 DEF Claimed, Init, Absent
<1>5. WorkersHold /\ OwnBatches
  BY DEF WorkersHold, OwnBatches, Held, WorkerAlive
<1>. QED
  BY <1>1, <1>2, <1>3, <1>4, <1>5 DEF ServiceConsistent

\* The tasks a step claims are tasks.
LEMMA StepTypes == ServiceTypeOK /\ [ServiceNext]_allVars => ServiceTypeOK'
<1>. SUFFICES ASSUME ServiceTypeOK, [ServiceNext]_allVars PROVE ServiceTypeOK'
  OBVIOUS
<1>. USE DEF ServiceTypeOK
<1>1. CASE UNCHANGED allVars
  BY <1>1 DEF allVars, serviceVars
<1>2. CASE \E mode \in Deliveries : Start(mode)
  BY <1>2 DEF Start, GoTo
<1>3. CASE BeginPlanning \/ PlanningEnds \/ PlanRefused \/ PlanSaved \/ MarkFailure
  BY <1>3 DEF BeginPlanning, PlanningEnds, PlanRefused, PlanSaved, MarkFailure, GoTo
<1>4. CASE PlanFails
  BY <1>4 DEF PlanFails, TrySetStatus, GoTo
<1>5. ASSUME NEW c \in Coroutines, DrainLocked(c) \/ DrainLoop(c) \/ FinalizeLocked(c) \/ FinalizeReads(c)
      PROVE  ServiceTypeOK'
  BY <1>5 DEF DrainLocked, DrainLoop, FinalizeLocked, FinalizeReads, GoTo
<1>6. ASSUME NEW c \in Coroutines, DrainClaims(c)
      PROVE  ServiceTypeOK'
  <2> DEFINE claimed == {t \in Tasks : attempt'[t] # attempt[t]}
  <2>1. /\ batch' = [batch EXCEPT ![c] = @ \cup claimed]
        /\ worker' = [t \in Tasks |-> IF t \in claimed THEN "claimed" ELSE worker[t]]
        /\ starter' = [t \in Tasks |-> IF t \in claimed THEN c ELSE starter[t]]
        /\ UNCHANGED <<owner, pc, submits, preparing, reviews>>
    BY <1>6 DEF DrainClaims
  <2>2. claimed \in SUBSET Tasks
    OBVIOUS
  <2>. HIDE DEF claimed
  <2>3. batch' \in [Coroutines -> SUBSET Tasks] /\ starter' \in [Tasks -> Coroutines]
    BY <2>1, <2>2
  <2>4. worker' \in [Tasks -> Held \cup {"none", "dead"}]
    BY <2>1 DEF Held, WorkerAlive
  <2>. QED
    BY <2>1, <2>3, <2>4
<1>7. ASSUME NEW c \in Coroutines, DrainStarts(c) \/ DrainClaimRaises(c) \/ GatherEnds(c)
      PROVE  ServiceTypeOK'
  <2>1. worker' \in [Tasks -> Held \cup {"none", "dead"}]
    BY <1>7 DEF DrainStarts, DrainClaimRaises, GatherEnds, Held, WorkerAlive
  <2>2. pc' = [d \in Coroutines |-> pc'[d]]
    BY <1>7 DEF DrainStarts, DrainClaimRaises, GatherEnds, GoTo
  <2>3. /\ batch' \in [Coroutines -> SUBSET Tasks]
        /\ UNCHANGED <<owner, submits, starter, preparing, reviews>>
    BY <1>7 DEF DrainStarts, DrainClaimRaises, GatherEnds
  <2>. QED
    BY <2>1, <2>2, <2>3
<1>8. ASSUME NEW c \in Coroutines, FinalizePrepares(c) \/ ReviewEnds(c) \/ ReviewRules(c)
      PROVE  ServiceTypeOK'
  BY <1>8 DEF FinalizePrepares, ReviewEnds, ReviewRules, TrySetStatus, GoTo
<1>9. ASSUME NEW c \in Coroutines, ReviewRecorded(c)
      PROVE  ServiceTypeOK'
  <2>1. PICK verdict \in {"approved", "rejected"} :
          /\ pc' = [d \in Coroutines |-> pc'[d]]
          /\ reviews' \in {reviews, Append(reviews, [verdict |-> verdict, by |-> ProcessOf(c)])}
          /\ UNCHANGED <<owner, submits, batch, worker, starter, preparing>>
    BY <1>9 DEF ReviewRecorded, GoTo
  <2>2. [verdict |-> verdict, by |-> ProcessOf(c)] \in Reviews
    BY DEF ProcessOf, Processes, Reviews
  <2>3. reviews' \in Seq(Reviews)
    BY <2>1, <2>2
  <2>. QED
    BY <2>1, <2>3
<1>10. ASSUME NEW t \in Tasks,
              WorkerPrepares(t) \/ WorkerInvoked(t) \/ WorkerDecides(t) \/ WorkerSubmits(t) \/ WorkerBreaks(t)
       PROVE  ServiceTypeOK'
  <2>1. UNCHANGED <<owner, pc, submits, starter, preparing, reviews>>
    BY <1>10 DEF WorkerPrepares, WorkerInvoked, WorkerDecides, WorkerSubmits, WorkerBreaks
  <2>2. \/ \E place \in WorkerAlive : WorkerGoesTo(t, place)
        \/ WorkerReturns(t)
        \/ WorkerRaises(t)
    BY <1>10 DEF WorkerPrepares, WorkerInvoked, WorkerDecides, WorkerSubmits, WorkerBreaks, WorkerAlive
  <2>3. /\ worker' \in [Tasks -> Held \cup {"none", "dead"}]
        /\ batch' \in [Coroutines -> SUBSET Tasks]
    BY <2>2 DEF WorkerGoesTo, WorkerReturns, WorkerRaises, Held
  <2>. QED
    BY <2>1, <2>3
<1>11. ASSUME NEW w, NEW wanted, HostClaims(w, wanted)
       PROVE  ServiceTypeOK'
  BY <1>11 DEF HostClaims
<1>12. ASSUME NEW t \in Tasks, HostPrepares(t)
       PROVE  ServiceTypeOK'
  BY <1>12 DEF HostPrepares
<1>13. ASSUME NEW c \in Calls, NEW t \in Tasks, HostCalls(c, t) \/ HostSubmits(c, t)
       PROVE  ServiceTypeOK'
  BY <1>13 DEF HostCalls, HostSubmits, GoTo
<1>14. ASSUME NEW p, Cancel(p) \/ Delete(p)
       PROVE  ServiceTypeOK'
  BY <1>14 DEF Cancel, Delete, serviceVars
<1>15. ASSUME NEW c \in Coroutines, Abandon(c)
       PROVE  ServiceTypeOK'
  <2>1. worker' \in [Tasks -> Held \cup {"none", "dead"}]
    BY <1>15 DEF Abandon
  <2>. QED
    BY <1>15, <2>1 DEF Abandon, GoTo
<1>16. ASSUME NEW c \in Coroutines, Breaks(c)
       PROVE  ServiceTypeOK'
  BY <1>16 DEF Breaks, GoTo
<1>17. CASE HostPrepareBreaks
  BY <1>17 DEF HostPrepareBreaks
<1>18. ASSUME NEW p, Crash(p)
       PROVE  ServiceTypeOK'
  <2>1. worker' \in [Tasks -> Held \cup {"none", "dead"}]
    BY <1>18 DEF Crash
  <2>2. pc' = [c \in Coroutines |-> pc'[c]]
    BY <1>18 DEF Crash
  <2>3. /\ submits' \in [Calls -> SUBSET Tasks] /\ batch' \in [Coroutines -> SUBSET Tasks]
        /\ preparing' \in SUBSET Tasks /\ UNCHANGED <<owner, starter, reviews>>
    BY <1>18 DEF Crash
  <2>. QED
    BY <2>1, <2>2, <2>3
<1>. QED
  BY <1>1, <1>2, <1>3, <1>4, <1>5, <1>6, <1>7, <1>8, <1>9, <1>10, <1>11, <1>12, <1>13, <1>14,
     <1>15, <1>16, <1>17, <1>18
     DEF ServiceNext, ExecuteStep, CoroutineStep, WorkerStep, RequestStep, HostStep, UserStep,
         FailureStep

-----------------------------------------------------------------------------
(* The service's steps are the store's. *)

\* The execution creates the run or saves its plan.
Starting == pc["execute"] \in {"idle", "planned"} /\ pc'["execute"] # pc["execute"]

\* A step beside the store leaves its rows.
LEMMA NothingSeen == UNCHANGED vars => [Next]_vars /\ Onward
  BY DEF Onward, vars

\* Every step of the service is one of the store, or none.
LEMMA StepStores ==
  ServiceConsistent /\ [ServiceNext]_allVars => [Next]_vars /\ (Onward \/ Starting)
<1>. SUFFICES ASSUME ServiceConsistent, [ServiceNext]_allVars
              PROVE  [Next]_vars /\ (Onward \/ Starting)
  OBVIOUS
<1>1. Consistent /\ ServiceTypeOK /\ PlacesAgree /\ Claimed
  BY DEF ServiceConsistent
<1>2. CASE UNCHANGED allVars
  BY <1>2, NothingSeen DEF allVars
<1>3. ASSUME NEW mode \in Deliveries, Start(mode)
      PROVE  [Next]_vars /\ Starting
  BY <1>1, <1>3 DEF Start, Next, At, GoTo, Starting, ServiceTypeOK, Coroutines
<1>4. CASE BeginPlanning
  <2>1. CASE UNCHANGED vars
    BY <2>1, NothingSeen
  <2>2. CASE run = "created" /\ (SetRunStatus("planning") \/ SetRunStatus("failed"))
    BY <2>2, SetStatusSeen DEF CallersAsk, RunStatuses
  <2>. QED
    BY <1>4, <2>1, <2>2 DEF BeginPlanning
<1>5. CASE PlanningEnds \/ PlanRefused
  BY <1>5, NothingSeen DEF PlanningEnds, PlanRefused, vars
<1>6. CASE PlanFails
  <2>1. run # "running"
    BY <1>1, <1>6 DEF PlanFails, At, PlacesAgree, PlaceOK, Drafting, Coroutines
  <2>. QED
    BY <1>6, <2>1, TrySeen DEF PlanFails
<1>7. CASE PlanSaved
  <2>1. CASE UNCHANGED vars
    BY <2>1, NothingSeen
  <2>2. CASE (\E p \in Plans : SavePlan(p)) /\ GoTo("execute", EnterDrain("execute"))
    <3>1. [Next]_vars
      BY <2>2 DEF Next
    <3>2. pc["execute"] = "planned" /\ "execute" \in Coroutines
      BY <1>7 DEF PlanSaved, At, Coroutines
    <3>. QED
      BY <1>1, <2>2, <3>1, <3>2 DEF Starting, GoTo, EnterDrain, ServiceTypeOK
  <2>. QED
    BY <1>7, <2>1, <2>2 DEF PlanSaved
<1>8. CASE MarkFailure
  <2>1. CASE UNCHANGED vars
    BY <2>1, NothingSeen
  <2>2. CASE SetRunStatus("failed")
    BY <2>2, SetStatusSeen DEF CallersAsk, RunStatuses
  <2>. QED
    BY <1>8, <2>1, <2>2 DEF MarkFailure
<1>9. ASSUME NEW c \in Coroutines,
             \/ DrainLocked(c) \/ DrainLoop(c) \/ DrainClaimRaises(c) \/ GatherEnds(c)
             \/ FinalizeLocked(c) \/ FinalizeReads(c) \/ ReviewEnds(c) \/ ReviewRecorded(c)
             \/ Abandon(c) \/ Breaks(c)
      PROVE  [Next]_vars /\ Onward
  <2>1. UNCHANGED vars
    BY <1>9 DEF DrainLocked, DrainLoop, DrainClaimRaises, GatherEnds, FinalizeLocked,
                FinalizeReads, ReviewEnds, ReviewRecorded, Abandon, Breaks, vars
  <2>. QED
    BY <2>1, NothingSeen
<1>10. ASSUME NEW c \in Coroutines, DrainClaims(c)
       PROVE  [Next]_vars /\ Onward
  <2>1. ClaimTask("codex", CodexWorker, Tasks)
    BY <1>10 DEF DrainClaims
  <2>2. "codex" \in Executors /\ CodexWorker \in Claimants /\ Tasks \in Wishes
    BY ServiceAssumption DEF Executors, Wishes
  <2>. QED
    BY <1>1, <2>1, <2>2, ClaimSeen DEF Onward
<1>11. ASSUME NEW c \in Coroutines, DrainStarts(c)
       PROVE  [Next]_vars /\ Onward
  <2>1. CASE UNCHANGED vars
    BY <2>1, NothingSeen
  <2>2. CASE ClaimNothing("codex", Tasks)
    BY <2>2 DEF ClaimNothing, Next, Onward, Executors, Wishes
  <2>. QED
    BY <1>11, <2>1, <2>2 DEF DrainStarts
<1>12. ASSUME NEW c \in Coroutines, FinalizePrepares(c) \/ ReviewRules(c)
       PROVE  [Next]_vars /\ Onward
  <2>1. run # "running"
    BY <1>1, <1>12 DEF FinalizePrepares, ReviewRules, At, PlacesAgree, PlaceOK, Judging, Ruling
  <2>2. \/ UNCHANGED vars
        \/ \E s \in {"blocked", "reviewing", "completed"}, next \in {Return(c), "reviewing"} :
             TrySetStatus(c, s, next)
    BY <1>12 DEF FinalizePrepares, ReviewRules
  <2>. QED
    BY <2>1, <2>2, NothingSeen, TrySeen
<1>13. ASSUME NEW t \in Tasks, WorkerPrepares(t)
       PROVE  [Next]_vars /\ Onward
  <2>1. CASE UNCHANGED vars
    BY <2>1, NothingSeen
  <2>2. CASE SetTaskWorktree(t)
    BY <2>2 DEF SetTaskWorktree, Next, Onward
  <2>. QED
    BY <1>13, <2>1, <2>2 DEF WorkerPrepares
<1>14. ASSUME NEW t \in Tasks, WorkerInvoked(t) \/ WorkerDecides(t) \/ WorkerBreaks(t)
       PROVE  [Next]_vars /\ Onward
  <2>1. UNCHANGED vars
    BY <1>14 DEF WorkerInvoked, WorkerDecides, WorkerBreaks, vars
  <2>. QED
    BY <2>1, NothingSeen
<1>15. ASSUME NEW t \in Tasks, NEW w, NEW r \in Results(t), NEW path \in BOOLEAN,
              SubmitTaskResult(t, w, r[1], r[2], path)
       PROVE  [Next]_vars /\ Onward
  <2>1. status[t] = "running" /\ claimant[t] = w
    BY <1>15 DEF SubmitTaskResult, CanSubmit
  <2>2. w \in Claimants /\ r[1] \in Outcomes /\ r[2] \in BOOLEAN
    BY <1>1, <2>1 DEF Claimed, Results
  <2>. QED
    BY <1>1, <1>15, <2>2, SubmitSeen DEF Next
<1>16. \A t \in Tasks : worktree[t] \in BOOLEAN
  BY <1>1 DEF Consistent, RowsTyped
<1>17. ASSUME NEW t \in Tasks, WorkerSubmits(t)
       PROVE  [Next]_vars /\ Onward
  BY <1>15, <1>16, <1>17, NothingSeen DEF WorkerSubmits
<1>18. ASSUME NEW c \in Calls, NEW t \in Tasks, HostCalls(c, t) \/ HostSubmits(c, t)
       PROVE  [Next]_vars /\ Onward
  <2>1. \/ UNCHANGED vars
        \/ \E r \in Results(t) : SubmitTaskResult(t, claimant[t], r[1], r[2], worktree[t])
    BY <1>18 DEF HostCalls, HostSubmits, vars
  <2>. QED
    BY <1>15, <1>16, <2>1, NothingSeen
<1>19. ASSUME NEW w \in Hosts, NEW wanted \in Wishes, HostClaims(w, wanted)
       PROVE  [Next]_vars /\ Onward
  <2>1. ClaimTask("host", w, wanted) /\ w \in Claimants /\ "host" \in Executors
    BY <1>19 DEF HostClaims, Hosts, Executors
  <2>. QED
    BY <1>1, <2>1, ClaimSeen DEF Onward
<1>20. ASSUME NEW t \in Tasks, HostPrepares(t)
       PROVE  [Next]_vars /\ Onward
  <2>1. CASE UNCHANGED vars
    BY <2>1, NothingSeen
  <2>2. CASE SetTaskWorktree(t)
    BY <2>2 DEF SetTaskWorktree, Next, Onward
  <2>3. CASE SubmitTaskResult(t, claimant[t], "failed", FALSE, FALSE)
    <3>1. <<"failed", FALSE>> \in Results(t)
      BY DEF Results, Outcomes
    <3>. QED
      BY <1>15, <2>3, <3>1
  <2>. QED
    BY <1>20, <2>1, <2>2, <2>3 DEF HostPrepares
<1>21. ASSUME NEW p, Cancel(p) \/ Delete(p)
       PROVE  [Next]_vars /\ Onward
  BY <1>21, CancelSeen, DeleteSeen DEF Cancel, Delete
<1>22. ASSUME HostPrepareBreaks \/ \E p \in Processes : Crash(p)
       PROVE  [Next]_vars /\ Onward
  <2>1. UNCHANGED vars
    BY <1>22 DEF HostPrepareBreaks, Crash, vars
  <2>. QED
    BY <2>1, NothingSeen
<1>. QED
  BY <1>2, <1>3, <1>4, <1>5, <1>6, <1>7, <1>8, <1>9, <1>10, <1>11, <1>12, <1>13, <1>14, <1>17,
     <1>18, <1>19, <1>20, <1>21, <1>22
     DEF ServiceNext, ExecuteStep, CoroutineStep, WorkerStep, RequestStep, HostStep, UserStep,
         FailureStep

-----------------------------------------------------------------------------
(* Where the coroutines go *)

\* What stays true of a run that moves on.
LEMMA OnwardKeeps ==
  ASSUME Onward
  PROVE  /\ run' = "none" <=> run = "none"
         /\ run \notin {"none", "created", "planning", "running"}
              => run' \notin {"none", "created", "planning", "running"}
         /\ run \notin {"none", "created", "planning", "running", "integrating"}
              => run' # "integrating"
         /\ run \notin {"running", "integrating", "reviewing", "completed"}
              => run' \notin {"running", "integrating", "reviewing", "completed"}
         /\ Ended => Ended'
         /\ Stopped => Stopped'
  BY DEF Onward, RunStatuses, RunTransitions, TerminalRun, Ended, Stopped

\* A coroutine that moves respects the finalize lock, judges a run it found
\* unfinished, and ends it once it rules.
Moves(c) ==
  /\ \A d \in Coroutines \ {c} : pc'[d] = pc[d]
  /\ PlaceOK(c)'
  /\ pc'[c] \in Finalizing => pc[c] \in Finalizing \/ LockFree(c, Finalizing)
  /\ pc'[c] \in Judging => pc[c] \in Judging \/ (pc[c] = "finalize" /\ ~Ended)
  /\ pc[c] \in Ruling => Ended'
  /\ run' = "completed" => run = "completed" \/ Approved
  /\ UNCHANGED <<owner, reviews>>

Stays ==
  /\ Onward
  /\ run' = "completed" => run = "completed"
  /\ UNCHANGED <<pc, owner, reviews>>

\* Where a coroutine goes when it ends, raises or comes to a lock.
LEMMA EndsAt ==
  ASSUME NEW c \in Coroutines
  PROVE  /\ Return(c) \in {"done", "idle"} /\ (c = "execute" => Return(c) = "done")
         /\ Raise(c) \in {"idle", "marking", "raised"}
         /\ c = "execute" => Raise(c) # "idle" /\ (Raise(c) = "raised" => ~Background)
         /\ EnterDrain(c) \in {"loop", "drain_wait"}
         /\ EnterFinalize(c) \in {"finalize", "finalize_wait"}
         /\ EnterFinalize(c) = "finalize" => LockFree(c, Finalizing)
  BY ServiceAssumption DEF Return, Raise, EnterDrain, EnterFinalize, Coroutines

\* The places that say nothing of the run.
Plain == {"idle", "drain_wait", "loop", "claiming", "gather", "submitting", "finalize_wait",
          "finalize", "marking", "mark", "raised", "done", "dead"}

\* Going to one of them is a legal move.
LEMMA PlainMove ==
  ASSUME ServiceTypeOK, PlacesAgree, Onward, run' = "completed" => run = "completed",
         UNCHANGED <<owner, reviews>>,
         NEW c \in Coroutines, NEW place \in Plain, GoTo(c, place),
         place = "finalize" => LockFree(c, Finalizing),
         pc[c] \in Ruling => Ended',
         c = "execute" => /\ pc[c] # "idle" /\ place # "idle"
                          /\ place = "raised" => ~Background \/ Ended'
  PROVE  Moves(c)
<1>1. pc'[c] = place /\ \A d \in Coroutines \ {c} : pc'[d] = pc[d]
  BY DEF GoTo, ServiceTypeOK
<1>2. place \notin Drafting \cup Judging \cup Ruling
  BY DEF Plain, Drafting, Judging, Ruling
<1>3. place \in Finalizing => place = "finalize"
  BY DEF Plain, Finalizing
<1>4. Background' = Background
  BY DEF Background
<1>5. PlaceOK(c)'
  BY <1>1, <1>2, <1>4, OnwardKeeps DEF PlacesAgree, PlaceOK, Ruling
<1>. QED
  BY <1>1, <1>2, <1>3, <1>5 DEF Moves

\* Ended runs are those with none of the other statuses.
LEMMA EndedIs ==
  ASSUME Consistent
  PROVE  ~Ended <=> run \in {"none", "created", "planning", "running", "integrating", "reviewing"}
  BY DEF Consistent, RowsTyped, RunStatuses, Ended, TerminalRun

\* Every step leaves the coroutines where they are, or moves one of them, or records
\* a review, or is a crash.
LEMMA StepMoves ==
  ASSUME ServiceConsistent, [ServiceNext]_allVars
  PROVE  \/ Stays
         \/ \E c \in Coroutines : Moves(c) \/ ReviewRecorded(c)
         \/ \E p \in Processes : Crash(p)
<1>1. Consistent /\ ServiceTypeOK /\ PlacesAgree
  BY DEF ServiceConsistent
<1>2. "execute" \in Coroutines
  BY DEF Coroutines
<1>3. [Next]_vars /\ (Onward \/ Starting)
  BY StepStores
<1>4. ASSUME pc' = pc PROVE Onward
  BY <1>3, <1>4 DEF Starting
<1>5. CASE UNCHANGED <<vars, pc, owner, reviews>>
  BY <1>4, <1>5 DEF Stays, vars
\* A move that leaves the run alone and ends at a plain place.
<1>6. ASSUME NEW c \in Coroutines, UNCHANGED <<vars, owner, reviews>>,
             NEW place \in Plain, GoTo(c, place), pc[c] \notin Ruling,
             place = "finalize" => LockFree(c, Finalizing),
             c = "execute" => /\ pc[c] # "idle" /\ place # "idle"
                              /\ place = "raised" => ~Background \/ Ended'
      PROVE  Moves(c)
  BY <1>1, <1>6, NothingSeen, PlainMove DEF vars
<1>7. ASSUME NEW mode \in Deliveries, Start(mode)
      PROVE  Moves("execute")
  <2>1. run' = "created" /\ pc'["execute"] = "created" /\ UNCHANGED <<owner, reviews>>
        /\ \A d \in Coroutines \ {"execute"} : pc'[d] = pc[d]
    BY <1>1, <1>2, <1>7 DEF Start, CreateRun, GoTo, ServiceTypeOK
  <2>2. pc["execute"] = "idle"
    BY <1>7 DEF Start, At
  <2>. QED
    BY <2>1, <2>2 DEF Moves, PlaceOK, Drafting, Judging, Ruling, Finalizing
<1>8. CASE BeginPlanning
  <2>1. pc["execute"] = "created" /\ UNCHANGED <<owner, reviews>>
    BY <1>8 DEF BeginPlanning, At
  <2>2. CASE UNCHANGED vars /\ GoTo("execute", Raise("execute"))
    BY <1>2, <1>6, <2>1, <2>2, EndsAt DEF Ruling, Plain
  <2>3. CASE run = "created" /\ SetRunStatus("failed") /\ GoTo("execute", Raise("execute"))
    <3>1. Onward /\ run' = "failed"
      BY <2>3, SetStatusSeen DEF CallersAsk, RunStatuses
    <3>. QED
      BY <1>1, <1>2, <2>1, <2>3, <3>1, EndsAt, PlainMove DEF Ruling, Plain
  <2>4. CASE run = "created" /\ SetRunStatus("planning") /\ GoTo("execute", "planning")
    <3>1. run' = "planning" /\ pc'["execute"] = "planning"
          /\ \A d \in Coroutines \ {"execute"} : pc'[d] = pc[d]
      BY <1>1, <1>2, <2>4 DEF SetRunStatus, GoTo, ServiceTypeOK
    <3>. QED
      BY <1>2, <2>1, <3>1 DEF Moves, PlaceOK, Drafting, Judging, Ruling, Finalizing
  <2>. QED
    BY <1>8, <2>2, <2>3, <2>4 DEF BeginPlanning
\* A move within the planning that leaves the run alone.
<1>9. ASSUME UNCHANGED <<vars, owner, reviews>>, pc["execute"] \in Drafting,
             NEW place \in Drafting, GoTo("execute", place)
      PROVE  Moves("execute")
  <2>1. pc'["execute"] = place /\ \A d \in Coroutines \ {"execute"} : pc'[d] = pc[d]
    BY <1>1, <1>2, <1>9 DEF GoTo, ServiceTypeOK
  <2>2. PlaceOK("execute") /\ run' = run
    BY <1>1, <1>2, <1>9 DEF PlacesAgree, vars
  <2>. QED
    BY <1>9, <2>1, <2>2 DEF Moves, PlaceOK, Drafting, Judging, Ruling, Finalizing
<1>10. CASE PlanningEnds \/ PlanRefused
  <2>1. /\ pc["execute"] \in {"planning", "planned"} /\ UNCHANGED <<vars, owner, reviews>>
        /\ \E place \in {"plan_failed", "plan_blocked", "planned", "done", Raise("execute")} :
             GoTo("execute", place)
    BY <1>10 DEF PlanningEnds, PlanRefused, At, vars
  <2>2. pc["execute"] \in Drafting
    BY <2>1 DEF Drafting
  <2>3. PICK place \in {"plan_failed", "plan_blocked", "planned", "done", Raise("execute")} :
          GoTo("execute", place)
    BY <2>1
  <2>4. CASE place \in Drafting
    BY <1>2, <1>9, <2>1, <2>2, <2>3, <2>4
  <2>5. CASE place \in {"done", Raise("execute")}
    BY <1>2, <1>6, <2>1, <2>3, <2>5, EndsAt DEF Ruling, Plain
  <2>. QED
    BY <2>3, <2>4, <2>5 DEF Drafting
<1>11. CASE PlanFails
  <2>1. /\ pc["execute"] \in {"plan_failed", "plan_blocked"} /\ UNCHANGED <<owner, reviews>>
        /\ \E s \in {"failed", "blocked"} : TrySetStatus("execute", s, Raise("execute"))
    BY <1>11 DEF PlanFails, At
  <2>2. run # "running"
    BY <1>1, <1>2, <2>1 DEF PlacesAgree, PlaceOK, Drafting
  <2>3. Onward /\ run' \in {run, "failed", "blocked"} /\ GoTo("execute", Raise("execute"))
    BY <2>1, <2>2, TrySeen
  <2>. QED
    BY <1>1, <1>2, <2>1, <2>3, EndsAt, PlainMove DEF Ruling, Plain
<1>12. CASE PlanSaved
  <2>1. pc["execute"] = "planned" /\ UNCHANGED <<owner, reviews>>
    BY <1>12 DEF PlanSaved, At
  <2>2. CASE UNCHANGED vars /\ GoTo("execute", Raise("execute"))
    BY <1>2, <1>6, <2>1, <2>2, EndsAt DEF Ruling, Plain
  <2>3. CASE (\E p \in Plans : SavePlan(p)) /\ GoTo("execute", EnterDrain("execute"))
    <3>1. run' = "running" /\ pc'["execute"] \in {"loop", "drain_wait"}
          /\ \A d \in Coroutines \ {"execute"} : pc'[d] = pc[d]
      BY <1>1, <1>2, <2>3, EndsAt DEF SavePlan, GoTo, ServiceTypeOK
    <3>. QED
      BY <1>2, <2>1, <3>1 DEF Moves, PlaceOK, Drafting, Judging, Ruling, Finalizing
  <2>. QED
    BY <1>12, <2>2, <2>3 DEF PlanSaved
<1>13. CASE MarkFailure
  <2>1. pc["execute"] \in {"marking", "mark"} /\ UNCHANGED <<owner, reviews>>
    BY <1>13 DEF MarkFailure, At
  <2>2. CASE UNCHANGED vars /\ GoTo("execute", "mark")
    BY <1>2, <1>6, <2>1, <2>2 DEF Ruling, Plain
  <2>3. CASE /\ UNCHANGED vars /\ GoTo("execute", "raised")
             /\ run \in {"blocked", "completed", "cancelled", "failed", "deleted"}
    <3>1. Ended'
      BY <2>3 DEF Ended, TerminalRun, vars
    <3>. QED
      BY <1>2, <1>6, <2>1, <2>3, <3>1 DEF Ruling, Plain
  <2>4. CASE GoTo("execute", "raised") /\ Accepts("failed") /\ SetRunStatus("failed")
    <3>1. Onward /\ run' = "failed"
      BY <2>4, SetStatusSeen DEF CallersAsk, RunStatuses
    <3>2. Ended'
      BY <3>1 DEF Ended, TerminalRun
    <3>. QED
      BY <1>1, <1>2, <2>1, <2>4, <3>1, <3>2, PlainMove DEF Ruling, Plain
  <2>5. CASE GoTo("execute", "raised") /\ ~Accepts("failed") /\ UNCHANGED vars
    <3>1. run # "none"
      BY <1>1, <1>2, <2>1 DEF PlacesAgree, PlaceOK
    <3>2. run \in TerminalRun \cup {"deleted"}
      BY <1>1, <2>5, <3>1 DEF Accepts, Consistent, RowsTyped, RunStatuses, RunTransitions, TerminalRun
    <3>3. Ended'
      BY <2>5, <3>2 DEF Ended, vars
    <3>. QED
      BY <1>2, <1>6, <2>1, <2>5, <3>3 DEF Ruling, Plain
  <2>. QED
    BY <1>13, <2>2, <2>3, <2>4, <2>5 DEF MarkFailure
<1>14. ASSUME NEW c \in Coroutines,
              DrainLocked(c) \/ DrainLoop(c) \/ DrainClaimRaises(c) \/ GatherEnds(c) \/ FinalizeLocked(c)
       PROVE  Moves(c)
  <2>1. /\ pc[c] \in {"drain_wait", "loop", "claiming", "gather", "finalize_wait"}
        /\ UNCHANGED <<vars, owner, reviews>>
        /\ \/ GoTo(c, "finalize") /\ LockFree(c, Finalizing)
           \/ \E place \in {"loop", "claiming", EnterFinalize(c), Raise(c)} : GoTo(c, place)
    BY <1>14 DEF DrainLocked, DrainLoop, DrainClaimRaises, GatherEnds, FinalizeLocked, At, vars
  <2>. QED
    BY <1>6, <2>1, EndsAt DEF Ruling, Plain
<1>15. ASSUME NEW c \in Coroutines, DrainClaims(c)
       PROVE  Stays
  <2>1. ClaimTask("codex", CodexWorker, Tasks) /\ UNCHANGED <<owner, pc, reviews>>
    BY <1>15 DEF DrainClaims
  <2>2. run' = run
    BY <2>1 DEF ClaimTask
  <2>. QED
    BY <1>4, <2>1, <2>2 DEF Stays
<1>16. ASSUME NEW c \in Coroutines, DrainStarts(c)
       PROVE  Moves(c)
  <2>1. /\ pc[c] = "claiming" /\ UNCHANGED <<owner, reviews>>
        /\ UNCHANGED vars \/ ClaimNothing("codex", Tasks)
        /\ \E place \in {"gather", EnterFinalize(c)} : GoTo(c, place)
    BY <1>16 DEF DrainStarts, At
  <2>2. run' = run
    BY <2>1 DEF ClaimNothing, vars
  <2>. QED
    BY <1>1, <2>1, <2>2, EndsAt, PlainMove DEF Ruling, Plain, Onward
<1>17. ASSUME NEW c \in Coroutines, FinalizeReads(c)
       PROVE  Moves(c)
  <2>1. pc[c] = "finalize" /\ UNCHANGED <<vars, owner, reviews>>
    BY <1>17 DEF FinalizeReads, At, vars
  <2>2. CASE \E place \in {Raise(c), Return(c)} : GoTo(c, place)
    BY <1>6, <2>1, <2>2, EndsAt DEF Ruling, Plain
  <2>3. CASE \/ run = "integrating" /\ GoTo(c, "prepare_integrating")
             \/ run = "reviewing" /\ GoTo(c, "prepare_reviewing")
    <3>1. /\ \/ run = "integrating" /\ pc'[c] = "prepare_integrating"
             \/ run = "reviewing" /\ pc'[c] = "prepare_reviewing"
          /\ \A d \in Coroutines \ {c} : pc'[d] = pc[d]
          /\ run' = run
      BY <1>1, <2>1, <2>3 DEF GoTo, ServiceTypeOK, vars
    <3>2. ~Ended
      BY <3>1 DEF Ended, TerminalRun
    <3>. QED
      BY <2>1, <3>1, <3>2 DEF Moves, PlaceOK, Drafting, Judging, Ruling, Finalizing
  <2>. QED
    BY <1>17, <2>2, <2>3 DEF FinalizeReads
\* A move from judging on to judging.
<1>18. ASSUME NEW c \in Coroutines, pc[c] \in Judging, UNCHANGED <<owner, reviews>>, Onward,
              NEW place \in Judging \ {"prepare_integrating"}, GoTo(c, place),
              run' \notin {"none", "created", "planning", "running", "integrating"},
              run' = "completed" => run = "completed"
       PROVE  Moves(c)
  <2>1. pc'[c] = place /\ \A d \in Coroutines \ {c} : pc'[d] = pc[d]
    BY <1>1, <1>18 DEF GoTo, ServiceTypeOK
  <2>2. pc[c] \in Finalizing /\ pc[c] \notin Ruling
    BY <1>18 DEF Judging, Finalizing, Ruling
  <2>3. place \notin {"idle", "approving", "raised"} \cup Drafting
    BY <1>18 DEF Judging, Drafting
  <2>4. PlaceOK(c)'
    <3>1. PlaceOK(c) /\ pc[c] # "idle"
      BY <1>1, <1>18 DEF PlacesAgree, Judging
    <3>. QED
      BY <1>18, <2>1, <2>3, <3>1 DEF PlaceOK
  <2>. QED
    BY <1>18, <2>1, <2>2, <2>4 DEF Moves
<1>19. ASSUME NEW c \in Coroutines, FinalizePrepares(c)
       PROVE  Moves(c)
  <2>1. pc[c] \in {"prepare_integrating", "prepare_reviewing"} /\ UNCHANGED <<owner, reviews>>
    BY <1>19 DEF FinalizePrepares, At
  <2>2. /\ run \notin {"none", "created", "planning", "running"}
        /\ pc[c] = "prepare_reviewing" => run # "integrating"
    BY <1>1, <2>1 DEF PlacesAgree, PlaceOK, Judging
  <2>3. CASE TrySetStatus(c, "blocked", Return(c))
    <3>1. Onward /\ run' \in {run, "blocked"} /\ \E place \in {Return(c), Raise(c)} : GoTo(c, place)
      BY <2>2, <2>3, TrySeen
    <3>. QED
      BY <1>1, <2>1, <3>1, EndsAt, PlainMove DEF Ruling, Plain
  <2>4. CASE TrySetStatus(c, "reviewing", "reviewing")
    <3>1. /\ Onward
          /\ \/ run' = "reviewing" /\ GoTo(c, "reviewing")
             \/ run' = run /\ GoTo(c, Raise(c))
      BY <2>2, <2>4, TrySeen
    <3>. QED
      BY <1>1, <1>18, <2>1, <3>1, EndsAt, PlainMove DEF Ruling, Plain, Judging
  <2>5. CASE pc[c] = "prepare_reviewing" /\ UNCHANGED vars /\ GoTo(c, "reviewing")
    BY <1>18, <2>1, <2>2, <2>5, NothingSeen DEF Judging, vars
  <2>. QED
    BY <1>19, <2>3, <2>4, <2>5 DEF FinalizePrepares, At
<1>20. ASSUME NEW c \in Coroutines, ReviewEnds(c)
       PROVE  Moves(c)
  <2>1. /\ pc[c] = "reviewing" /\ UNCHANGED <<vars, owner, reviews>>
        /\ \E place \in {"review_failed", "approved", "rejected", Return(c), Raise(c)} : GoTo(c, place)
    BY <1>20 DEF ReviewEnds, At, vars
  <2>2. run \notin {"none", "created", "planning", "running", "integrating"} /\ run' = run /\ Onward
    BY <1>1, <2>1, NothingSeen DEF PlacesAgree, PlaceOK, Judging, vars
  <2>. QED
    BY <1>6, <1>18, <2>1, <2>2, EndsAt DEF Ruling, Plain, Judging
<1>21. ASSUME NEW c \in Coroutines, ReviewRules(c)
       PROVE  Moves(c)
  <2>1. /\ pc[c] \in Ruling \cup {"review_failed"} /\ UNCHANGED <<owner, reviews>>
        /\ \E s \in {"completed", "blocked"} :
             TrySetStatus(c, s, Return(c)) /\ (s = "completed" => pc[c] = "approving")
    BY <1>21 DEF ReviewRules, At, Ruling
  <2>2. PICK s \in {"completed", "blocked"} :
             TrySetStatus(c, s, Return(c)) /\ (s = "completed" => pc[c] = "approving")
    BY <2>1
  <2>3. /\ run \notin {"none", "created", "planning", "running", "integrating"}
        /\ pc[c] = "approving" => Approved
    BY <1>1, <2>1 DEF PlacesAgree, PlaceOK, Judging, Ruling
  <2>4. /\ Onward
        /\ \/ run' = s /\ GoTo(c, Return(c))
           \/ run' = run /\ ~Accepts(s) /\ GoTo(c, Raise(c))
    BY <2>2, <2>3, TrySeen
  <2>5. Ended'
    <3>1. CASE run' = s
      BY <3>1 DEF Ended, TerminalRun
    <3>2. CASE run' = run /\ ~Accepts(s)
      <4>1. run # "reviewing"
        BY <3>2 DEF Accepts, RunStatuses, RunTransitions
      <4>. QED
        BY <1>1, <2>3, <3>2, <4>1, EndedIs DEF Ended
    <3>. QED
      BY <2>4, <3>1, <3>2
  <2>6. PICK place \in {Return(c), Raise(c)} : GoTo(c, place)
    BY <2>4
  <2>7. /\ pc'[c] = place /\ \A d \in Coroutines \ {c} : pc'[d] = pc[d]
        /\ Background' = Background
    BY <1>1, <2>1, <2>6 DEF GoTo, ServiceTypeOK, Background
  <2>8. place \in {"done", "idle", "marking", "raised"} /\ (c = "execute" => place # "idle")
    BY <2>6, EndsAt
  <2>9. PlaceOK(c)'
    <3>1. PlaceOK(c) /\ pc[c] # "idle"
      BY <1>1, <2>1 DEF PlacesAgree, Ruling
    <3>2. run' # "none"
      BY <2>5 DEF Ended, TerminalRun
    <3>. QED
      BY <2>5, <2>7, <2>8, <3>1, <3>2 DEF PlaceOK, Drafting, Judging, Ruling
  <2>. QED
    BY <2>1, <2>2, <2>3, <2>4, <2>5, <2>7, <2>8, <2>9 DEF Moves, Finalizing, Judging
<1>22. ASSUME NEW t \in Tasks,
              WorkerPrepares(t) \/ WorkerInvoked(t) \/ WorkerDecides(t) \/ WorkerSubmits(t) \/ WorkerBreaks(t)
       PROVE  Stays
  <2>1. UNCHANGED <<owner, pc, reviews>>
    BY <1>22 DEF WorkerPrepares, WorkerInvoked, WorkerDecides, WorkerSubmits, WorkerBreaks
  <2>2. \/ UNCHANGED vars
        \/ SetTaskWorktree(t)
        \/ \E r \in Results(t) : SubmitTaskResult(t, CodexWorker, r[1], r[2], worktree[t])
    BY <1>22 DEF WorkerPrepares, WorkerInvoked, WorkerDecides, WorkerSubmits, WorkerBreaks, vars
  <2>3. run' = "completed" => run = "completed"
    BY <1>1, <2>2, SubmitSeen DEF SetTaskWorktree, Results, vars
  <2>. QED
    BY <1>4, <2>1, <2>3 DEF Stays
<1>23. ASSUME NEW w, NEW wanted, HostClaims(w, wanted)
       PROVE  Stays
  <2>1. run' = run /\ UNCHANGED <<owner, pc, reviews>>
    BY <1>23 DEF HostClaims, ClaimTask
  <2>. QED
    BY <1>4, <2>1 DEF Stays
<1>24. ASSUME NEW t \in Tasks, HostPrepares(t)
       PROVE  Stays
  <2>1. UNCHANGED <<owner, pc, reviews>>
    BY <1>24 DEF HostPrepares
  <2>2. run' = "completed" => run = "completed"
    BY <1>1, <1>24, SubmitSeen DEF HostPrepares, SetTaskWorktree, vars, Outcomes
  <2>. QED
    BY <1>4, <2>1, <2>2 DEF Stays
<1>25. ASSUME NEW c \in Calls, NEW t \in Tasks, HostCalls(c, t)
       PROVE  Moves(c)
  <2>1. c \in Coroutines /\ c # "execute"
    BY ServiceAssumption DEF Coroutines
  <2>2. pc[c] = "idle" /\ GoTo(c, "submitting") /\ UNCHANGED <<vars, owner, reviews>>
    BY <1>25 DEF HostCalls, At, vars
  <2>. QED
    BY <1>6, <2>1, <2>2 DEF Plain, Ruling
<1>26. ASSUME NEW c \in Calls, NEW t \in Tasks, HostSubmits(c, t)
       PROVE  Moves(c)
  <2>1. c \in Coroutines /\ c # "execute"
    BY ServiceAssumption DEF Coroutines
  <2>2. /\ pc[c] = "submitting" /\ UNCHANGED <<owner, reviews>>
        /\ \E place \in {EnterDrain(c), Raise(c)} : GoTo(c, place)
        /\ \/ UNCHANGED vars
           \/ \E r \in Results(t) : SubmitTaskResult(t, claimant[t], r[1], r[2], worktree[t])
    BY <1>26 DEF HostSubmits, At
  <2>3. Onward /\ (run' = "completed" => run = "completed")
    BY <1>1, <2>2, NothingSeen, SubmitSeen DEF Results, vars
  <2>. QED
    BY <1>1, <2>1, <2>2, <2>3, EndsAt, PlainMove DEF Plain, Ruling
<1>27. ASSUME NEW p, Cancel(p) \/ Delete(p)
       PROVE  Stays
  BY <1>27, CancelSeen, DeleteSeen DEF Cancel, Delete, serviceVars, Stays
<1>28. ASSUME NEW c \in Coroutines, Abandon(c) \/ Breaks(c)
       PROVE  Moves(c)
  <2>1. /\ pc[c] \in {"created", "planning", "planned", "drain_wait", "gather", "submitting",
                      "finalize_wait", "prepare_integrating", "prepare_reviewing", "reviewing"}
        /\ UNCHANGED <<vars, owner, reviews>>
        /\ \E place \in {IF c = "execute" THEN "dead" ELSE "idle", Raise(c)} : GoTo(c, place)
    BY <1>28 DEF Abandon, Breaks, At, vars
  <2>. QED
    BY <1>6, <2>1, EndsAt DEF Plain, Ruling
<1>29. ASSUME HostPrepareBreaks
       PROVE  Stays
  BY <1>5, <1>29 DEF HostPrepareBreaks, Stays, vars, Onward
<1>30. CASE UNCHANGED allVars
  BY <1>5, <1>30 DEF allVars, serviceVars, vars
<1>31. Calls \subseteq Coroutines
  BY DEF Coroutines
<1>. QED
  BY <1>2, <1>7, <1>8, <1>10, <1>11, <1>12, <1>13, <1>14, <1>15, <1>16, <1>17, <1>19, <1>20, <1>21,
     <1>22, <1>23, <1>24, <1>25, <1>26, <1>27, <1>28, <1>29, <1>30, <1>31
     DEF ServiceNext, ExecuteStep, CoroutineStep, WorkerStep, RequestStep, HostStep, UserStep,
         FailureStep

-----------------------------------------------------------------------------
(* What the places say of the run stays true. *)

\* A run that is planned moves onward only.
LEMMA RunMoves == [Next]_vars => Onward \/ run \in {"none", "created", "planning"}
<1>. SUFFICES ASSUME [Next]_vars PROVE Onward \/ run \in {"none", "created", "planning"}
  OBVIOUS
<1>1. CASE \E mode \in Deliveries : CreateRun(mode)
  BY <1>1 DEF CreateRun
<1>2. CASE \E p \in Plans : SavePlan(p)
  BY <1>2 DEF SavePlan
<1>3. CASE \E s \in RunStatuses : CallersAsk(s) /\ SetRunStatus(s)
  <2>1. \E s \in RunStatuses \ {"running"} : CallersAsk(s) /\ SetRunStatus(s)
    BY <1>3 DEF CallersAsk
  <2>. QED
    BY <2>1, SetStatusSeen
<1>4. CASE \/ \E e \in Executors, w \in Claimants, wanted \in Wishes : ClaimTask(e, w, wanted)
           \/ \E e \in Executors, wanted \in Wishes : ClaimNothing(e, wanted)
           \/ \E t \in Tasks : SetTaskWorktree(t)
           \/ UNCHANGED vars
  BY <1>4 DEF ClaimTask, ClaimNothing, SetTaskWorktree, vars, Onward
<1>5. CASE \E t \in Tasks, w \in Claimants, o \in Outcomes, sha, path \in BOOLEAN :
             SubmitTaskResult(t, w, o, sha, path)
  <2>1. run' = SyncRun(status')
    BY <1>5 DEF SubmitTaskResult
  <2>. QED
    BY <2>1 DEF Onward, SyncRun, Verdict, RunStatuses, RunTransitions
<1>6. CASE CancelRun \/ DeleteRunRecord
  BY <1>6, CancelSeen, DeleteSeen
<1>. QED
  BY <1>1, <1>2, <1>3, <1>4, <1>5, <1>6 DEF Next

\* A coroutine that does not move stays where it may be.
LEMMA OthersStay ==
  ASSUME NEW d, PlaceOK(d), Onward, pc'[d] = pc[d], owner' = owner, Approved => Approved'
  PROVE  PlaceOK(d)'
<1>1. Background' = Background
  BY DEF Background
<1>2. /\ Judging \cup Ruling = {"prepare_integrating"} \cup (Judging \ {"prepare_integrating"}) \cup Ruling
      /\ "prepare_integrating" \notin Ruling
  BY DEF Judging, Ruling
<1>. QED
  BY <1>1, <1>2, OnwardKeeps DEF PlaceOK

\* A recorded review is the last of the reviews and leaves the others.
LEMMA RecordSeen ==
  ASSUME ServiceTypeOK, NEW c \in Coroutines, ReviewRecorded(c)
  PROVE  /\ UNCHANGED <<vars, owner>> /\ pc[c] \in {"approved", "rejected"}
         /\ \A d \in Coroutines \ {c} : pc'[d] = pc[d]
         /\ \/ pc'[c] = Raise(c) /\ run = "deleted" /\ reviews' = reviews
            \/ /\ pc'[c] = IF pc[c] = "approved" THEN "approving" ELSE "rejecting"
               /\ DOMAIN reviews' = DOMAIN reviews \cup {Len(reviews) + 1}
               /\ \A i \in DOMAIN reviews : reviews'[i] = reviews[i]
               /\ reviews'[Len(reviews) + 1] = [verdict |-> pc[c], by |-> ProcessOf(c)]
<1>1. PICK verdict \in {"approved", "rejected"} :
        /\ pc[c] = verdict /\ UNCHANGED <<vars, owner>>
        /\ \/ run = "deleted" /\ GoTo(c, Raise(c)) /\ UNCHANGED reviews
           \/ /\ GoTo(c, IF verdict = "approved" THEN "approving" ELSE "rejecting")
              /\ reviews' = Append(reviews, [verdict |-> verdict, by |-> ProcessOf(c)])
  BY DEF ReviewRecorded, At, vars
<1>2. /\ \A d \in Coroutines \ {c} : pc'[d] = pc[d]
      /\ \A place : GoTo(c, place) => pc'[c] = place
  BY <1>1 DEF GoTo, ServiceTypeOK
<1>3. ASSUME NEW x, reviews' = Append(reviews, x)
      PROVE  /\ DOMAIN reviews' = DOMAIN reviews \cup {Len(reviews) + 1}
             /\ \A i \in DOMAIN reviews : reviews'[i] = reviews[i]
             /\ reviews'[Len(reviews) + 1] = x
  BY <1>3 DEF ServiceTypeOK
<1>. QED
  BY <1>1, <1>2, <1>3

\* Each step keeps what the places of the coroutines say of the run.
LEMMA StepPlaces ==
  ASSUME ServiceConsistent, [ServiceNext]_allVars
  PROVE  PlacesAgree' /\ CompletedWasApproved'
<1>1. Consistent /\ ServiceTypeOK /\ PlacesAgree /\ CompletedWasApproved
  BY DEF ServiceConsistent
<1>2. [Next]_vars /\ (Onward \/ Starting)
  BY StepStores
<1>3. CompletedWasApproved <=> (run = "completed" => Approved)
  BY DEF CompletedWasApproved, Approved
<1>4. CompletedWasApproved' <=> (run' = "completed" => Approved')
  BY DEF CompletedWasApproved, Approved
<1>5. CASE Stays
  <2>1. Approved' <=> Approved
    BY <1>5 DEF Stays, Approved
  <2>2. \A d \in Coroutines : PlaceOK(d)'
    BY <1>1, <1>5, <2>1, OthersStay DEF Stays, PlacesAgree
  <2>. QED
    BY <1>1, <1>3, <1>4, <1>5, <2>1, <2>2 DEF Stays, PlacesAgree
<1>6. ASSUME NEW c \in Coroutines, Moves(c)
      PROVE  PlacesAgree' /\ CompletedWasApproved'
  <2>1. Approved' <=> Approved
    BY <1>6 DEF Moves, Approved
  <2>2. ASSUME NEW d \in Coroutines \ {c}
        PROVE  PlaceOK(d)'
    <3>1. pc'[d] = pc[d] /\ PlaceOK(d) /\ owner' = owner
      BY <1>1, <1>6 DEF Moves, PlacesAgree
    <3>2. CASE Onward
      BY <2>1, <3>1, <3>2, OthersStay
    <3>3. CASE Starting /\ ~Onward
      <4>1. run \in {"none", "created", "planning"}
        BY <1>2, <3>3, RunMoves
      <4>2. d # "execute"
        BY <3>1, <3>3 DEF Starting
      <4>. QED
        BY <3>1, <4>1, <4>2 DEF PlaceOK, Ruling
    <3>. QED
      BY <1>2, <3>2, <3>3
  <2>3. PlaceOK(c)'
    BY <1>6 DEF Moves
  <2>. QED
    BY <1>1, <1>3, <1>4, <1>6, <2>1, <2>2, <2>3 DEF Moves, PlacesAgree
<1>7. ASSUME NEW c \in Coroutines, ReviewRecorded(c)
      PROVE  PlacesAgree' /\ CompletedWasApproved'
  <2>1. /\ UNCHANGED <<vars, owner>> /\ pc[c] \in {"approved", "rejected"}
        /\ \A d \in Coroutines \ {c} : pc'[d] = pc[d]
        /\ \/ pc'[c] = Raise(c) /\ run = "deleted" /\ reviews' = reviews
           \/ /\ pc'[c] = IF pc[c] = "approved" THEN "approving" ELSE "rejecting"
              /\ DOMAIN reviews' = DOMAIN reviews \cup {Len(reviews) + 1}
              /\ \A i \in DOMAIN reviews : reviews'[i] = reviews[i]
              /\ reviews'[Len(reviews) + 1] = [verdict |-> pc[c], by |-> ProcessOf(c)]
    BY <1>1, <1>7, RecordSeen
  <2>2. Approved => Approved'
    BY <2>1 DEF Approved
  <2>3. \A d \in Coroutines \ {c} : PlaceOK(d)'
    BY <1>1, <2>1, <2>2, NothingSeen, OthersStay DEF PlacesAgree
  <2>4. pc'[c] = "approving" => Approved'
    <3>1. Raise(c) # "approving"
      BY EndsAt
    <3>2. "rejecting" # "approving"
      OBVIOUS
    <3>. QED
      BY <2>1, <3>1, <3>2 DEF Approved
  <2>5. PlaceOK(c)'
    <3>1. /\ PlaceOK(c) /\ run' = run
          /\ run \notin {"none", "created", "planning", "running", "integrating"}
      BY <1>1, <2>1 DEF PlacesAgree, PlaceOK, Judging, vars
    <3>2. pc'[c] \in Ruling \/ (pc'[c] = Raise(c) /\ run = "deleted")
      BY <2>1 DEF Ruling
    <3>3. c = "execute" => pc'[c] # "idle"
      BY <3>2, EndsAt DEF Ruling
    <3>4. pc'[c] \notin Drafting /\ (pc'[c] = "raised" => Ended')
      BY <3>1, <3>2, EndsAt DEF Ruling, Drafting, Ended
    <3>. QED
      BY <2>4, <3>1, <3>3, <3>4 DEF PlaceOK
  <2>. QED
    BY <1>1, <1>3, <1>4, <2>1, <2>2, <2>3, <2>5 DEF PlacesAgree, vars
<1>8. ASSUME NEW p, Crash(p)
      PROVE  PlacesAgree' /\ CompletedWasApproved'
  <2>1. /\ UNCHANGED <<run, owner, reviews>>
        /\ \A c \in Coroutines :
             \/ pc'[c] = pc[c]
             \/ pc'[c] = "dead" /\ pc[c] # "idle"
             \/ pc'[c] = "idle" /\ c # "execute"
    BY <1>8, ServiceAssumption DEF Crash, vars
  <2>2. (Approved' <=> Approved) /\ (Background' <=> Background) /\ (Ended' <=> Ended)
    BY <2>1 DEF Approved, Background, Ended
  <2>3. \A c \in Coroutines : PlaceOK(c)'
    BY <1>1, <2>1, <2>2 DEF PlacesAgree, PlaceOK, Drafting, Judging, Ruling
  <2>. QED
    BY <1>1, <1>3, <1>4, <2>1, <2>2, <2>3 DEF PlacesAgree
<1>. QED
  BY <1>5, <1>6, <1>7, <1>8, StepMoves

-----------------------------------------------------------------------------
(* Who holds which task *)

\* What a transaction may take from a worker is the task it decides.
LEMMA TasksKept ==
  ASSUME Consistent, [Next]_vars, NEW t \in Tasks
  PROVE  /\ HostTask(t) => HostTask(t)'
         /\ Stopped => Stopped'
         /\ (status[t] = "running" => claimant[t] \in Claimants)
              => (status'[t] = "running" => claimant'[t] \in Claimants)
         /\ Holds(t) => \/ Holds(t)'
                        \/ status[t] = "running" /\ status'[t] # "running"
<1>. USE DEF HostTask, Holds, Stopped
<1>1. RowsTyped /\ PlanWhenPlanned /\ Refresh(plan, status) = status
  BY DEF Consistent, Refreshed
<1>2. ASSUME NEW mode \in Deliveries, CreateRun(mode)
      PROVE  run \notin {"cancelled", "deleted"} /\ UNCHANGED <<plan, status, claimant>>
  BY <1>2 DEF CreateRun, details
<1>3. ASSUME NEW p \in Plans, SavePlan(p)
      PROVE  /\ run \notin {"cancelled", "deleted"} /\ status[t] # "running" /\ status'[t] # "running"
             /\ t \notin plan.tasks
  <2>1. /\ run \notin {"cancelled", "deleted"} /\ plan.tasks = {}
        /\ status' = Refresh(p, [u \in Tasks |-> IF u \in p.tasks THEN "pending" ELSE "absent"])
    BY <1>3 DEF SavePlan
  <2>2. status'[t] # "running"
    BY <2>1, RefreshKeepsDecided
  <2>. QED
    BY <1>1, <2>1, <2>2 DEF RowsTyped
<1>4. ASSUME NEW s \in RunStatuses, CallersAsk(s), SetRunStatus(s)
      PROVE  run \notin {"cancelled", "deleted"} /\ UNCHANGED <<plan, status, claimant>>
  BY <1>4 DEF SetRunStatus, Accepts, RunStatuses, RunTransitions, details
<1>5. ASSUME NEW e \in Executors, NEW w \in Claimants, NEW wanted \in Wishes, ClaimTask(e, w, wanted)
      PROVE  /\ UNCHANGED <<run, plan>>
             /\ status[t] = "running" => status'[t] = "running" /\ claimant'[t] = claimant[t]
             /\ status'[t] = "running" => status[t] = "running" \/ claimant'[t] = w
  <2>1. /\ UNCHANGED <<run, plan>>
        /\ \E u \in plan.tasks :
              /\ u \in Tasks /\ status[u] = "ready"
              /\ status' = [status EXCEPT ![u] = "running"]
              /\ claimant' = [claimant EXCEPT ![u] = w]
    BY <1>5, ClaimSeen
  <2>2. PICK u \in Tasks :
              /\ status[u] = "ready"
              /\ status' = [status EXCEPT ![u] = "running"]
              /\ claimant' = [claimant EXCEPT ![u] = w]
    BY <2>1
  <2>. QED
    BY <1>1, <2>1, <2>2 DEF RowsTyped
<1>6. ASSUME NEW e, NEW wanted, ClaimNothing(e, wanted)
      PROVE  UNCHANGED <<run, plan, status, claimant>>
  BY <1>1, <1>6 DEF ClaimNothing, details
<1>7. ASSUME NEW u \in Tasks, NEW w, NEW o \in Outcomes, NEW sha, NEW path,
             SubmitTaskResult(u, w, o, sha, path)
      PROVE  /\ run # "deleted" /\ UNCHANGED <<plan, claimant>> /\ (Stopped => Stopped')
             /\ status'[t] = "running" => status[t] = "running"
  BY <1>7, SubmitSeen, OnwardKeeps DEF RunStatuses
<1>8. ASSUME NEW u, SetTaskWorktree(u)
      PROVE  UNCHANGED <<run, plan, status, claimant>>
  BY <1>8 DEF SetTaskWorktree
<1>9. CASE CancelRun
  BY <1>9, CancelSeen DEF CancelRun, RunStatuses, TerminalRun
<1>10. CASE DeleteRunRecord
  BY <1>10, DeleteSeen
<1>11. CASE UNCHANGED vars
  BY <1>11 DEF vars
<1>. QED
  BY <1>2, <1>3, <1>4, <1>5, <1>6, <1>7, <1>8, <1>9, <1>10, <1>11 DEF Next

\* A task that is claimed has no worker at it.
LEMMA ClaimedIsFree ==
  ASSUME ServiceConsistent, NEW e \in Executors, NEW w \in Claimants, NEW wanted \in Wishes,
         ClaimTask(e, w, wanted)
  PROVE  \A t \in Tasks : attempt'[t] # attempt[t] =>
           /\ t \in plan.tasks /\ plan'.executor[t] = e /\ status'[t] = "running" /\ run' = "running"
           /\ t \in plan'.tasks /\ worker[t] \in {"none", "dead"}
<1>1. Consistent /\ ServiceTypeOK /\ WorkersHold
  BY DEF ServiceConsistent
<1>2. run = "running" /\ UNCHANGED <<run, plan>>
  BY <1>1, ClaimSeen
<1>3. PICK t \in plan.tasks :
        /\ t \in Tasks /\ plan.executor[t] = e /\ status[t] = "ready"
        /\ status' = [status EXCEPT ![t] = "running"]
        /\ attempt' = [attempt EXCEPT ![t] = @ + 1]
  BY <1>1, ClaimSeen
<1>4. \A u \in Tasks : attempt'[u] # attempt[u] => u = t
  BY <1>1, <1>3 DEF Consistent, RowsTyped
<1>5. status'[t] = "running"
  BY <1>1, <1>3 DEF Consistent, RowsTyped
<1>6. ~Holds(t)
  BY <1>2, <1>3 DEF Holds, Stopped
<1>7. worker[t] \in {"none", "dead"}
  BY <1>1, <1>3, <1>6 DEF WorkersHold, ServiceTypeOK
<1>. QED
  BY <1>2, <1>3, <1>4, <1>5, <1>7

\* What the steps do to the workers: whoever is at a task was at it before or was
\* given it, and every coroutine gathers its own.
LEMMA StepWorkers ==
  ASSUME ServiceConsistent, [ServiceNext]_allVars
  PROVE  /\ \A t \in Tasks : worker'[t] \in Held => worker[t] \in Held \/ Holds(t)'
         /\ OwnBatches'
<1> DEFINE Goal == /\ \A t \in Tasks : worker'[t] \in Held => worker[t] \in Held \/ Holds(t)'
                   /\ OwnBatches'
<1>. SUFFICES Goal
  OBVIOUS
<1>1. ServiceTypeOK /\ OwnBatches
  BY DEF ServiceConsistent
<1>2. CASE UNCHANGED <<batch, worker, starter>>
  BY <1>1, <1>2 DEF OwnBatches
<1>3. ASSUME NEW t \in Tasks, NEW place \in WorkerAlive, WorkerGoesTo(t, place), worker[t] \in Held,
             starter' = starter
      PROVE  Goal
  <2>1. \A u \in Tasks : worker'[u] = IF u = t THEN place ELSE worker[u]
    BY <1>1, <1>3 DEF WorkerGoesTo, ServiceTypeOK
  <2>2. batch' = batch /\ \A c \in Coroutines : batch[c] \subseteq Tasks
    BY <1>1, <1>3 DEF WorkerGoesTo, ServiceTypeOK
  <2>. QED
    BY <1>1, <1>3, <2>1, <2>2 DEF OwnBatches, Held
<1>4. ASSUME NEW t \in Tasks, WorkerReturns(t), starter' = starter
      PROVE  Goal
  <2>1. \A u \in Tasks : worker'[u] = IF u = t THEN "none" ELSE worker[u]
    BY <1>1, <1>4 DEF WorkerReturns, ServiceTypeOK
  <2>2. \A c \in Coroutines : batch'[c] = batch[c] \ {t} /\ batch[c] \subseteq Tasks
    BY <1>1, <1>4 DEF WorkerReturns, ServiceTypeOK
  <2>3. "none" \notin Held
    BY DEF Held, WorkerAlive
  <2>. QED
    BY <1>1, <1>4, <2>1, <2>2, <2>3 DEF OwnBatches
<1>5. ASSUME NEW t \in Tasks, WorkerRaises(t), worker[t] \in Held, starter' = starter
      PROVE  Goal
  <2>1. \A u \in Tasks : worker'[u] = IF u # t THEN worker[u]
                                      ELSE IF t \in batch[starter[t]] THEN "raised" ELSE "none"
    BY <1>1, <1>5 DEF WorkerRaises, ServiceTypeOK
  <2>2. batch' = batch /\ \A c \in Coroutines : batch[c] \subseteq Tasks
    BY <1>1, <1>5 DEF WorkerRaises, ServiceTypeOK
  <2>3. "none" \notin Held /\ "raised" \in Held
    BY DEF Held, WorkerAlive
  <2>. QED
    BY <1>1, <1>5, <2>1, <2>2, <2>3 DEF OwnBatches
<1>6. ASSUME NEW c \in Coroutines, DrainClaims(c)
      PROVE  Goal
  <2> DEFINE claimed == {t \in Tasks : attempt'[t] # attempt[t]}
  <2>1. /\ batch' = [batch EXCEPT ![c] = @ \cup claimed]
        /\ worker' = [t \in Tasks |-> IF t \in claimed THEN "claimed" ELSE worker[t]]
        /\ starter' = [t \in Tasks |-> IF t \in claimed THEN c ELSE starter[t]]
        /\ ClaimTask("codex", CodexWorker, Tasks)
    BY <1>6 DEF DrainClaims
  <2>2. "codex" \in Executors /\ CodexWorker \in Claimants /\ Tasks \in Wishes
    BY ServiceAssumption DEF Executors, Wishes
  <2>3. \A t \in claimed : /\ t \in Tasks /\ plan'.executor[t] = "codex" /\ status'[t] = "running"
                           /\ worker[t] \in {"none", "dead"}
    BY <2>1, <2>2, ClaimedIsFree
  <2>. HIDE DEF claimed
  <2>4. \A t \in claimed : Holds(t)' /\ worker[t] \notin Held
    BY <2>3 DEF Holds, Held, WorkerAlive
  <2>5. /\ \A d \in Coroutines : batch'[d] = (IF d = c THEN batch[d] \cup claimed ELSE batch[d])
                                  /\ batch[d] \subseteq Tasks
        /\ "claimed" \in Held
    BY <1>1, <2>1 DEF ServiceTypeOK, Held, WorkerAlive
  <2>6. ASSUME NEW d \in Coroutines, NEW t \in batch'[d]
        PROVE  starter'[t] = d /\ worker'[t] \in Held
    <3>1. CASE t \in claimed
      <4>1. d = c
        BY <1>1, <2>4, <2>5, <2>6, <3>1 DEF OwnBatches
      <4>. QED
        BY <2>1, <2>3, <2>5, <3>1, <4>1
    <3>2. CASE t \notin claimed
      <4>1. t \in batch[d] /\ t \in Tasks
        BY <2>5, <2>6, <3>2
      <4>2. starter[t] = d /\ worker[t] \in Held
        BY <1>1, <4>1 DEF OwnBatches
      <4>. QED
        BY <2>1, <3>2, <4>1, <4>2
    <3>. QED
      BY <3>1, <3>2
  <2>. QED
    BY <2>1, <2>4, <2>6 DEF OwnBatches
<1>7. ASSUME NEW c \in Coroutines, DrainStarts(c)
      PROVE  Goal
  <2>1. /\ \A t \in Tasks : worker'[t] = IF t \in batch[c] THEN "starting" ELSE worker[t]
        /\ UNCHANGED <<batch, starter>> /\ \A d \in Coroutines : batch[d] \subseteq Tasks
    BY <1>1, <1>7 DEF DrainStarts, ServiceTypeOK
  <2>2. "starting" \in Held
    BY DEF Held, WorkerAlive
  <2>. QED
    BY <1>1, <2>1, <2>2 DEF OwnBatches
\* A coroutine's batch dissolves, and its workers are none, dead or left to run on.
<1>8. ASSUME NEW c \in Coroutines, batch' = [batch EXCEPT ![c] = {}], starter' = starter,
             \A t \in Tasks : /\ worker'[t] \in {worker[t], "none", "dead"}
                              /\ t \notin batch[c] => worker'[t] = worker[t]
      PROVE  Goal
  <2>1. \A d \in Coroutines :
          /\ batch'[d] = IF d = c THEN {} ELSE batch[d]
          /\ batch[d] \subseteq Tasks
    BY <1>1, <1>8 DEF ServiceTypeOK
  <2>2. {"none", "dead"} \cap Held = {}
    BY DEF Held, WorkerAlive
  <2>3. \A d \in Coroutines \ {c} : \A t \in batch[d] : t \notin batch[c]
    BY <1>1 DEF OwnBatches
  <2>. QED
    BY <1>1, <1>8, <2>1, <2>2, <2>3 DEF OwnBatches
<1>9. ASSUME NEW c \in Coroutines, DrainClaimRaises(c) \/ GatherEnds(c) \/ Abandon(c)
      PROVE  Goal
  <2>1. /\ batch' = [batch EXCEPT ![c] = {}] /\ starter' = starter
        /\ \A t \in Tasks : /\ worker'[t] \in {worker[t], "none", "dead"}
                            /\ t \notin batch[c] => worker'[t] = worker[t]
    BY <1>9 DEF DrainClaimRaises, GatherEnds, Abandon
  <2>. QED
    BY <1>8, <2>1
<1>10. ASSUME NEW t \in Tasks,
              WorkerPrepares(t) \/ WorkerInvoked(t) \/ WorkerDecides(t) \/ WorkerSubmits(t) \/ WorkerBreaks(t)
       PROVE  Goal
  <2>1. worker[t] \in Held
    BY <1>10 DEF WorkerPrepares, WorkerInvoked, WorkerDecides, WorkerSubmits, WorkerBreaks, WorkerAt,
                 Held, WorkerAlive
  <2>2. /\ starter' = starter
        /\ \/ \E place \in WorkerAlive : WorkerGoesTo(t, place)
           \/ WorkerReturns(t)
           \/ WorkerRaises(t)
    BY <1>10 DEF WorkerPrepares, WorkerInvoked, WorkerDecides, WorkerSubmits, WorkerBreaks, WorkerAlive
  <2>. QED
    BY <1>3, <1>4, <1>5, <2>1, <2>2
<1>11. ASSUME NEW p, Crash(p)
       PROVE  Goal
  <2>1. /\ \A c \in Coroutines : batch'[c] = IF ProcessOf(c) = p THEN {} ELSE batch[c]
        /\ \A t \in Tasks : worker'[t] = IF ProcessOf(starter[t]) = p /\ worker[t] \in WorkerAlive
                                         THEN "dead" ELSE worker[t]
        /\ starter' = starter
    BY <1>11 DEF Crash
  <2>2. "dead" \notin Held /\ \A c \in Coroutines : batch[c] \subseteq Tasks
    BY <1>1 DEF Held, WorkerAlive, ServiceTypeOK
  <2>. QED
    BY <1>1, <2>1, <2>2 DEF OwnBatches
\* The other steps are none of the workers' business.
<1>12. ASSUME \/ \E mode \in Deliveries : Start(mode)
              \/ BeginPlanning \/ PlanningEnds \/ PlanRefused \/ PlanFails \/ PlanSaved \/ MarkFailure
              \/ HostPrepareBreaks
              \/ \E p : Cancel(p) \/ Delete(p)
              \/ UNCHANGED allVars
       PROVE  Goal
  <2>1. UNCHANGED <<batch, worker, starter>>
    BY <1>12 DEF Start, BeginPlanning, PlanningEnds, PlanRefused, PlanFails, PlanSaved, MarkFailure,
                 HostPrepareBreaks, Cancel, Delete, allVars, serviceVars
  <2>. QED
    BY <1>2, <2>1
<1>13. ASSUME NEW c \in Coroutines,
              \/ DrainLocked(c) \/ DrainLoop(c) \/ FinalizeLocked(c) \/ FinalizeReads(c)
              \/ FinalizePrepares(c) \/ ReviewEnds(c) \/ ReviewRecorded(c) \/ ReviewRules(c)
              \/ Breaks(c)
       PROVE  Goal
  <2>1. UNCHANGED <<batch, worker, starter>>
    BY <1>13 DEF DrainLocked, DrainLoop, FinalizeLocked, FinalizeReads, FinalizePrepares, ReviewEnds,
                 ReviewRecorded, ReviewRules, Breaks
  <2>. QED
    BY <1>2, <2>1
<1>14. ASSUME \/ \E w, wanted : HostClaims(w, wanted)
              \/ \E t : HostPrepares(t)
              \/ \E c, t : HostCalls(c, t) \/ HostSubmits(c, t)
       PROVE  Goal
  <2>1. UNCHANGED <<batch, worker, starter>>
    BY <1>14 DEF HostClaims, HostPrepares, HostCalls, HostSubmits
  <2>. QED
    BY <1>2, <2>1
<1>. HIDE DEF Goal
<1>. QED
  BY <1>6, <1>7, <1>9, <1>10, <1>11, <1>12, <1>13, <1>14
     DEF ServiceNext, ExecuteStep, CoroutineStep, WorkerStep, RequestStep, HostStep, UserStep,
         FailureStep

\* Nobody decides a task of Codex over the head of its worker.
LEMMA WorkerDecidesAlone ==
  ASSUME ServiceConsistent, [ServiceNext]_allVars, NEW t \in Tasks, plan.executor[t] = "codex",
         status[t] = "running", status'[t] # "running", ~Stopped'
  PROVE  worker'[t] \notin Held
<1>1. Consistent /\ ServiceTypeOK /\ Claimed /\ RowsTyped /\ Refresh(plan, status) = status
  BY DEF ServiceConsistent, Consistent, Refreshed
\* Steps that leave the statuses of tasks as they are.
<1>2. CASE status' = status
  BY <1>2
<1>3. CASE \/ \E mode \in Deliveries : Start(mode)
           \/ BeginPlanning \/ PlanningEnds \/ PlanRefused \/ PlanFails \/ MarkFailure
           \/ HostPrepareBreaks \/ \E p : Crash(p)
           \/ UNCHANGED allVars
  <2>1. status' = status
    BY <1>3 DEF Start, CreateRun, BeginPlanning, PlanningEnds, PlanRefused, PlanFails, MarkFailure,
                TrySetStatus, SetRunStatus, HostPrepareBreaks, Crash, allVars, vars
  <2>. QED
    BY <1>2, <2>1
<1>4. ASSUME NEW c \in Coroutines,
             \/ FinalizePrepares(c) \/ ReviewRules(c)
             \/ DrainLocked(c) \/ DrainLoop(c) \/ DrainClaimRaises(c) \/ GatherEnds(c)
             \/ FinalizeLocked(c) \/ FinalizeReads(c) \/ ReviewEnds(c) \/ ReviewRecorded(c)
             \/ Abandon(c) \/ Breaks(c)
      PROVE  status' = status
  BY <1>4 DEF FinalizePrepares, ReviewRules, TrySetStatus, SetRunStatus, DrainLocked,
              DrainLoop, DrainClaimRaises, GatherEnds, FinalizeLocked, FinalizeReads, ReviewEnds,
              ReviewRecorded, Abandon, Breaks, vars
<1>5. CASE PlanSaved
  <2>1. CASE UNCHANGED vars
    BY <1>2, <2>1 DEF vars
  <2>2. CASE \E p \in Plans : SavePlan(p)
    BY <1>1, <2>2 DEF SavePlan, RowsTyped
  <2>. QED
    BY <1>5, <2>1, <2>2 DEF PlanSaved
<1>6. ASSUME NEW e \in Executors, NEW w \in Claimants, NEW wanted \in Wishes, ClaimTask(e, w, wanted)
      PROVE  FALSE
  <2>1. PICK u \in plan.tasks : u \in Tasks /\ status' = [status EXCEPT ![u] = "running"]
    BY <1>1, <1>6, ClaimSeen
  <2>. QED
    BY <1>1, <2>1 DEF RowsTyped
<1>7. ASSUME NEW c \in Coroutines, DrainClaims(c)
      PROVE  FALSE
  BY <1>6, <1>7, ServiceAssumption DEF DrainClaims, Executors, Wishes
<1>8. ASSUME NEW w \in Hosts, NEW wanted \in Wishes, HostClaims(w, wanted)
      PROVE  FALSE
  BY <1>6, <1>8 DEF HostClaims, Executors, Hosts
<1>9. ASSUME NEW c \in Coroutines, DrainStarts(c)
      PROVE  status' = status
  BY <1>1, <1>9 DEF DrainStarts, ClaimNothing, vars
<1>10. ASSUME NEW u \in Tasks, NEW w, NEW o \in Outcomes, NEW sha, NEW path,
              SubmitTaskResult(u, w, o, sha, path)
       PROVE  u = t /\ run # "deleted"
  BY <1>1, <1>10, SubmitSeen DEF RunStatuses
<1>11. ASSUME NEW u \in Tasks,
              WorkerPrepares(u) \/ WorkerInvoked(u) \/ WorkerDecides(u) \/ WorkerSubmits(u) \/ WorkerBreaks(u)
       PROVE  worker'[t] \notin Held
  <2>1. CASE status' = status
    BY <2>1
  <2>2. CASE WorkerReturns(u) /\ \E r \in Results(u) : SubmitTaskResult(u, CodexWorker, r[1], r[2], worktree[u])
    <3>1. u = t
      BY <1>10, <2>2 DEF Results
    <3>2. worker'[t] = "none"
      BY <2>2, <3>1 DEF WorkerReturns, ServiceTypeOK, ServiceConsistent
    <3>. QED
      BY <3>2 DEF Held, WorkerAlive
  <2>. QED
    BY <1>11, <2>1, <2>2
       DEF WorkerPrepares, WorkerInvoked, WorkerDecides, WorkerSubmits, WorkerBreaks, SetTaskWorktree, vars
<1>12. ASSUME NEW u \in Tasks, HostTask(u), u = t, run # "deleted"
       PROVE  FALSE
  BY <1>12 DEF HostTask
<1>13. ASSUME NEW c \in Calls, NEW u \in Tasks, HostCalls(c, u) \/ HostSubmits(c, u)
       PROVE  status' = status
  <2>1. CASE UNCHANGED vars
    BY <2>1 DEF vars
  <2>2. CASE HostSubmits(c, u) /\ \E r \in Results(u) : SubmitTaskResult(u, claimant[u], r[1], r[2], worktree[u])
    <3>1. u = t /\ run # "deleted"
      BY <1>10, <2>2 DEF Results
    <3>2. HostTask(u)
      BY <1>1, <2>2 DEF HostSubmits, Claimed
    <3>. QED
      BY <1>12, <3>1, <3>2
  <2>. QED
    BY <1>13, <2>1, <2>2 DEF HostCalls, HostSubmits, vars
<1>14. ASSUME NEW u \in Tasks, HostPrepares(u)
       PROVE  status' = status
  <2>1. CASE SubmitTaskResult(u, claimant[u], "failed", FALSE, FALSE)
    <3>1. u = t /\ run # "deleted"
      BY <1>10, <2>1 DEF Outcomes
    <3>2. HostTask(u)
      BY <1>1, <1>14 DEF HostPrepares, Claimed
    <3>. QED
      BY <1>12, <3>1, <3>2
  <2>. QED
    BY <1>14, <2>1 DEF HostPrepares, SetTaskWorktree, vars
<1>15. ASSUME NEW p, Cancel(p) \/ Delete(p)
       PROVE  FALSE
  BY <1>15, CancelSeen, DeleteSeen DEF Cancel, Delete, Stopped
<1>. QED
  BY <1>2, <1>3, <1>4, <1>5, <1>7, <1>8, <1>9, <1>11, <1>13, <1>14, <1>15
     DEF ServiceNext, ExecuteStep, CoroutineStep, WorkerStep, RequestStep, HostStep, UserStep,
         FailureStep

\* Each step keeps what the workers and claims say of the tasks.
LEMMA StepTasks ==
  ASSUME ServiceConsistent, [ServiceNext]_allVars
  PROVE  Claimed' /\ WorkersHold' /\ OwnBatches'
<1>1. Consistent /\ ServiceTypeOK /\ Claimed /\ WorkersHold
  BY DEF ServiceConsistent
<1>2. [Next]_vars /\ ServiceTypeOK'
  BY StepStores, StepTypes DEF ServiceConsistent
<1>3. OwnBatches'
  BY StepWorkers
<1>4. WorkersHold'
  <2>. SUFFICES ASSUME NEW t \in Tasks, worker'[t] \in Held PROVE Holds(t)'
    BY DEF WorkersHold
  <2>1. CASE worker[t] \in Held /\ ~Holds(t)'
    <3>1. Holds(t)
      BY <1>1, <2>1 DEF WorkersHold
    <3>2. ~Stopped /\ ~Stopped' /\ status[t] = "running" /\ status'[t] # "running"
      BY <1>1, <1>2, <2>1, <3>1, TasksKept DEF Holds
    <3>3. plan.executor[t] = "codex"
      BY <3>1, <3>2 DEF Holds
    <3>. QED
      BY <3>2, <3>3, WorkerDecidesAlone
  <2>. QED
    BY <2>1, StepWorkers
<1>5. ASSUME \A c \in Calls : submits'[c] \subseteq submits[c], preparing' \subseteq preparing
      PROVE  Claimed'
  <2>1. \A c \in Calls : submits[c] \subseteq Tasks
    BY <1>1 DEF ServiceTypeOK
  <2>2. preparing \subseteq Tasks
    BY <1>1 DEF ServiceTypeOK
  <2>3. \A t \in Tasks : status'[t] = "running" => claimant'[t] \in Claimants
    BY <1>1, <1>2, TasksKept DEF Claimed
  <2>4. \A t \in Tasks : HostTask(t) => HostTask(t)'
    BY <1>1, <1>2, TasksKept
  <2>5. \A c \in Calls : \A t \in submits'[c] : HostTask(t)'
    BY <1>1, <1>5, <2>1, <2>4 DEF Claimed
  <2>6. \A t \in preparing' : HostTask(t)'
    BY <1>1, <1>5, <2>2, <2>4 DEF Claimed
  <2>. QED
    BY <2>3, <2>5, <2>6 DEF Claimed
<1>6. ASSUME UNCHANGED <<submits, preparing>>
      PROVE  Claimed'
  BY <1>5, <1>6
<1>7. ASSUME \/ \E mode \in Deliveries : Start(mode)
             \/ BeginPlanning \/ PlanningEnds \/ PlanRefused \/ PlanFails \/ PlanSaved \/ MarkFailure
             \/ \E p : Cancel(p) \/ Delete(p)
             \/ UNCHANGED allVars
      PROVE  Claimed'
  <2>1. UNCHANGED <<submits, preparing>>
    BY <1>7 DEF Start, BeginPlanning, PlanningEnds, PlanRefused, PlanFails, PlanSaved, MarkFailure,
                Cancel, Delete, allVars, serviceVars
  <2>. QED
    BY <1>6, <2>1
<1>8. ASSUME NEW c \in Coroutines, CoroutineStep(c) \/ Abandon(c)
      PROVE  Claimed'
  <2>1. UNCHANGED <<submits, preparing>>
    BY <1>8 DEF CoroutineStep, DrainLocked, DrainLoop, DrainClaims, DrainStarts, DrainClaimRaises, GatherEnds,
                FinalizeLocked, FinalizeReads, FinalizePrepares, ReviewEnds, ReviewRecorded, ReviewRules,
                Abandon
  <2>. QED
    BY <1>6, <2>1
<1>9. ASSUME NEW t \in Tasks, WorkerStep(t) \/ WorkerBreaks(t)
      PROVE  Claimed'
  <2>1. UNCHANGED <<submits, preparing>>
    BY <1>9 DEF WorkerStep, WorkerPrepares, WorkerInvoked, WorkerDecides, WorkerSubmits, WorkerBreaks
  <2>. QED
    BY <1>6, <2>1
<1>10. ASSUME NEW w \in Hosts, NEW wanted \in Wishes, HostClaims(w, wanted)
       PROVE  Claimed'
  <2>1. /\ ClaimTask("host", w, wanted) /\ preparing' = {t \in Tasks : attempt'[t] # attempt[t]}
        /\ submits' = submits
    BY <1>10 DEF HostClaims
  <2>2. \A t \in preparing' : HostTask(t)'
    BY <2>1, ClaimedIsFree DEF HostTask, Hosts, Executors
  <2>3. \A c \in Calls : \A t \in submits[c] : HostTask(t)'
    <3>1. \A c \in Calls : submits[c] \subseteq Tasks
      BY <1>1 DEF ServiceTypeOK
    <3>. QED
      BY <1>1, <1>2, <3>1, TasksKept DEF Claimed
  <2>. QED
    BY <1>1, <1>2, <2>1, <2>2, <2>3, TasksKept DEF Claimed
<1>11. ASSUME NEW c \in Calls, NEW t \in Tasks, HostCalls(c, t)
       PROVE  Claimed'
  <2>1. /\ status[t] = "running" /\ plan.executor[t] = "host" /\ UNCHANGED <<vars, preparing>>
        /\ submits' = [submits EXCEPT ![c] = {t}]
    BY <1>11 DEF HostCalls, vars
  <2>2. HostTask(t)
    BY <1>1, <2>1 DEF HostTask, Consistent, RowsTyped
  <2>3. \A d \in Calls : submits'[d] = IF d = c THEN {t} ELSE submits[d]
    BY <1>1, <2>1 DEF ServiceTypeOK
  <2>. QED
    BY <1>1, <2>1, <2>2, <2>3 DEF Claimed, HostTask, vars
<1>12. ASSUME \/ \E c \in Calls, t \in Tasks : HostSubmits(c, t)
              \/ \E t \in Tasks : HostPrepares(t)
              \/ \E c \in Coroutines : Breaks(c)
              \/ HostPrepareBreaks
              \/ \E p : Crash(p)
       PROVE  Claimed'
  <2>1. (\A c \in Calls : submits'[c] \subseteq submits[c]) /\ preparing' \subseteq preparing
    <3>1. ASSUME NEW c \in Calls, NEW t \in Tasks, HostSubmits(c, t)
          PROVE  (\A d \in Calls : submits'[d] \subseteq submits[d]) /\ preparing' \subseteq preparing
      BY <1>1, <3>1 DEF HostSubmits, ServiceTypeOK
    <3>2. ASSUME NEW c \in Coroutines, Breaks(c)
          PROVE  (\A d \in Calls : submits'[d] \subseteq submits[d]) /\ preparing' \subseteq preparing
      BY <3>2 DEF Breaks
    <3>3. ASSUME NEW p, Crash(p)
          PROVE  (\A d \in Calls : submits'[d] \subseteq submits[d]) /\ preparing' \subseteq preparing
      BY <3>3 DEF Crash
    <3>. QED
      BY <1>12, <3>1, <3>2, <3>3 DEF HostPrepares, HostPrepareBreaks
  <2>. QED
    BY <1>5, <2>1
<1>13. Claimed'
  BY <1>7, <1>8, <1>9, <1>10, <1>11, <1>12
     DEF ServiceNext, ExecuteStep, RequestStep, HostStep, UserStep, FailureStep
<1>. QED
  BY <1>3, <1>4, <1>13

-----------------------------------------------------------------------------
(* The theorems *)

\* Each step keeps the inductive invariant.
LEMMA StepServiceConsistent == ServiceConsistent /\ [ServiceNext]_allVars => ServiceConsistent'
<1>. SUFFICES ASSUME ServiceConsistent, [ServiceNext]_allVars PROVE ServiceConsistent'
  OBVIOUS
<1>1. Consistent'
  BY StepStores, StepConsistent DEF ServiceConsistent
<1>2. ServiceTypeOK'
  BY StepTypes DEF ServiceConsistent
<1>. QED
  BY <1>1, <1>2, StepPlaces, StepTasks DEF ServiceConsistent

\* What the places of the service's coroutines, its workers and its requests say of the
\* run and its tasks holds through every interleaving and failure.
THEOREM AlwaysServiceConsistent == ServiceSpec => []ServiceConsistent
  BY InitServiceConsistent, StepServiceConsistent, PTL DEF ServiceSpec

\* The service uses the store as its specification lets it be used, through every
\* interleaving and failure: so what is proved of the store holds of the service.
THEOREM ServiceUsesStore == ServiceSpec => ImplementsStore
<1>1. ServiceInit => Init
  BY DEF ServiceInit
<1>2. ServiceConsistent /\ [ServiceNext]_allVars => [Next]_vars
  BY StepStores
<1>. QED
  BY <1>1, <1>2, AlwaysServiceConsistent, PTL DEF ServiceSpec, ImplementsStore

\* A run is completed on the word of an approving review only.
THEOREM CompletedOnApproval == ServiceSpec => []CompletedWasApproved
<1>1. ServiceConsistent => CompletedWasApproved
  BY DEF ServiceConsistent
<1>. QED
  BY <1>1, AlwaysServiceConsistent, PTL

\* A background execution that raised leaves no run that looks active.
THEOREM FailuresAreMarked == ServiceSpec => []BackgroundFailureIsMarked
<1>1. ServiceConsistent => BackgroundFailureIsMarked
  BY DEF ServiceConsistent, PlacesAgree, PlaceOK, Coroutines, BackgroundFailureIsMarked, Ended
<1>. QED
  BY <1>1, AlwaysServiceConsistent, PTL

\* Every invariant of the store is one of the service: what a run says of itself
\* agrees with its tasks while coroutines of several processes are at it.
THEOREM ServiceRunAgrees == ServiceSpec => []RunAgreesWithTasks
<1>1. ServiceConsistent => RunAgreesWithTasks
  BY DEF ServiceConsistent, Consistent, RunAgreesWithTasks
<1>. QED
  BY <1>1, AlwaysServiceConsistent, PTL

-----------------------------------------------------------------------------
(* Workers that start and workers that raise *)

\* A step that claims nothing and raises nothing.
LEMMA QuietWorkers ==
  ASSUME ServiceConsistent, attempt' = attempt,
         \A t \in Tasks : worker'[t] \in {"claimed", "raised"} => worker'[t] = worker[t]
  PROVE  \A t \in Tasks :
           /\ worker'[t] = "claimed" => worker[t] \in {"claimed", "none", "dead"}
           /\ attempt'[t] = attempt[t] + 1 => worker[t] \in {"none", "dead"}
           /\ worker'[t] = "raised" => worker[t] = "raised" \/ Stopped' \/ "error" \in Failures
<1>1. \A t \in Tasks : attempt[t] \in Nat
  BY DEF ServiceConsistent, Consistent, RowsTyped
<1>. QED
  BY <1>1

\* Who claims a task, and when a worker raises.
LEMMA ClaimsAndRaises ==
  ASSUME ServiceConsistent, [ServiceNext]_allVars
  PROVE  \A t \in Tasks :
           /\ worker'[t] = "claimed" => worker[t] \in {"claimed", "none", "dead"}
           /\ attempt'[t] = attempt[t] + 1 => worker[t] \in {"none", "dead"}
           /\ worker'[t] = "raised" => worker[t] = "raised" \/ Stopped' \/ "error" \in Failures
<1> DEFINE Goal == \A t \in Tasks :
                     /\ worker'[t] = "claimed" => worker[t] \in {"claimed", "none", "dead"}
                     /\ attempt'[t] = attempt[t] + 1 => worker[t] \in {"none", "dead"}
                     /\ worker'[t] = "raised" => worker[t] = "raised" \/ Stopped' \/ "error" \in Failures
<1>. SUFFICES Goal
  OBVIOUS
<1>1. Consistent /\ ServiceTypeOK /\ WorkersHold
  BY DEF ServiceConsistent
<1>2. ASSUME UNCHANGED <<attempt, worker>>
      PROVE  Goal
  BY <1>2, QuietWorkers
<1>3. ASSUME \/ \E mode \in Deliveries : Start(mode)
             \/ BeginPlanning \/ PlanningEnds \/ PlanRefused \/ PlanFails \/ PlanSaved \/ MarkFailure
             \/ HostPrepareBreaks
             \/ UNCHANGED allVars
      PROVE  Goal
  <2>1. attempt' = attempt
    BY <1>3 DEF Start, CreateRun, BeginPlanning, PlanningEnds, PlanRefused, PlanFails, PlanSaved,
                SavePlan, MarkFailure, TrySetStatus, SetRunStatus, HostPrepareBreaks, allVars, vars, details
  <2>2. worker' = worker
    BY <1>3 DEF Start, BeginPlanning, PlanningEnds, PlanRefused, PlanFails, PlanSaved, MarkFailure,
                HostPrepareBreaks, allVars, serviceVars
  <2>. QED
    BY <1>2, <2>1, <2>2
<1>4. ASSUME NEW c \in Coroutines,
             \/ DrainLocked(c) \/ DrainLoop(c) \/ FinalizeLocked(c) \/ FinalizeReads(c)
             \/ FinalizePrepares(c) \/ ReviewEnds(c) \/ ReviewRecorded(c) \/ ReviewRules(c)
             \/ Breaks(c)
      PROVE  Goal
  <2>1. attempt' = attempt
    BY <1>4 DEF DrainLocked, DrainLoop, FinalizeLocked, FinalizeReads, FinalizePrepares, TrySetStatus,
                SetRunStatus, ReviewEnds, ReviewRecorded, ReviewRules, Breaks, vars, details
  <2>2. worker' = worker
    BY <1>4 DEF DrainLocked, DrainLoop, FinalizeLocked, FinalizeReads, FinalizePrepares, ReviewEnds,
                ReviewRecorded, ReviewRules, Breaks
  <2>. QED
    BY <1>2, <2>1, <2>2
<1>5. ASSUME NEW c \in Coroutines,
             DrainStarts(c) \/ DrainClaimRaises(c) \/ GatherEnds(c) \/ Abandon(c)
      PROVE  Goal
  <2>1. attempt' = attempt
    BY <1>5 DEF DrainStarts, ClaimNothing, DrainClaimRaises, GatherEnds, Abandon, vars, details
  <2>2. \A t \in Tasks : worker'[t] \in {worker[t], "starting", "none", "dead"}
    BY <1>5 DEF DrainStarts, DrainClaimRaises, GatherEnds, Abandon
  <2>. QED
    BY <2>1, <2>2, QuietWorkers
<1>6. ASSUME NEW p, Crash(p)
      PROVE  Goal
  <2>1. attempt' = attempt /\ \A t \in Tasks : worker'[t] \in {worker[t], "dead"}
    BY <1>6 DEF Crash, vars
  <2>. QED
    BY <2>1, QuietWorkers
<1>7. ASSUME NEW c \in Coroutines, DrainClaims(c)
      PROVE  Goal
  <2>1. /\ ClaimTask("codex", CodexWorker, Tasks)
        /\ worker' = [t \in Tasks |-> IF t \in {u \in Tasks : attempt'[u] # attempt[u]}
                                      THEN "claimed" ELSE worker[t]]
    BY <1>7 DEF DrainClaims
  <2>2. "codex" \in Executors /\ CodexWorker \in Claimants /\ Tasks \in Wishes
    BY ServiceAssumption DEF Executors, Wishes
  <2>3. \A t \in Tasks : attempt'[t] # attempt[t] => worker[t] \in {"none", "dead"}
    BY <2>1, <2>2, ClaimedIsFree
  <2>4. \A t \in Tasks : attempt[t] \in Nat
    BY <1>1 DEF Consistent, RowsTyped
  <2>. QED
    BY <2>1, <2>3, <2>4
<1>8. ASSUME NEW w \in Hosts, NEW wanted \in Wishes, HostClaims(w, wanted)
      PROVE  Goal
  <2>1. /\ ClaimTask("host", w, wanted) /\ worker' = worker
        /\ w \in Claimants /\ "host" \in Executors
    BY <1>8 DEF HostClaims, Hosts, Executors
  <2>2. \A t \in Tasks : attempt'[t] # attempt[t] => worker[t] \in {"none", "dead"}
    BY <2>1, ClaimedIsFree
  <2>3. \A t \in Tasks : attempt[t] \in Nat
    BY <1>1 DEF Consistent, RowsTyped
  <2>. QED
    BY <2>1, <2>2, <2>3
\* A worker that raises does so in a run the user stopped, or breaks.
<1>9. ASSUME NEW t \in Tasks, attempt' = attempt, WorkerRaises(t), Stopped' \/ "error" \in Failures
      PROVE  Goal
  <2>1. \A u \in Tasks \ {t} : worker'[u] = worker[u]
    BY <1>1, <1>9 DEF WorkerRaises, ServiceTypeOK
  <2>2. worker'[t] \in {"raised", "none"}
    BY <1>1, <1>9 DEF WorkerRaises, ServiceTypeOK
  <2>3. \A u \in Tasks : attempt[u] \in Nat
    BY <1>1 DEF Consistent, RowsTyped
  <2>. QED
    BY <1>9, <2>1, <2>2, <2>3
<1>10. ASSUME NEW t \in Tasks, attempt' = attempt, worker' = [worker EXCEPT ![t] = worker'[t]],
              worker'[t] \notin {"claimed", "raised"}
       PROVE  Goal
  <2>1. \A u \in Tasks \ {t} : worker'[u] = worker[u]
    BY <1>1, <1>10 DEF ServiceTypeOK
  <2>. QED
    BY <1>10, <2>1, QuietWorkers
<1>11. ASSUME NEW t \in Tasks, WorkerPrepares(t) \/ WorkerInvoked(t)
       PROVE  Goal
  <2>1. attempt' = attempt
    BY <1>11 DEF WorkerPrepares, WorkerInvoked, SetTaskWorktree, vars
  <2>2. \E place \in {"failing", "invoking", "refused", "returned", "none"} :
          worker' = [worker EXCEPT ![t] = place]
    BY <1>11 DEF WorkerPrepares, WorkerInvoked, WorkerGoesTo, WorkerReturns
  <2>3. /\ worker'[t] \in {"failing", "invoking", "refused", "returned", "none"}
        /\ worker' = [worker EXCEPT ![t] = worker'[t]]
    BY <1>1, <2>2 DEF ServiceTypeOK
  <2>. QED
    BY <1>10, <2>1, <2>3
<1>12. ASSUME NEW t \in Tasks, WorkerDecides(t)
       PROVE  Goal
  <2>1. attempt' = attempt /\ run' = run /\ worker[t] \in {"returned", "failing", "refused"}
    BY <1>12 DEF WorkerDecides, vars
  <2>2. \/ run = "deleted" /\ WorkerRaises(t)
        \/ \E place \in {"submit_output", "submit_failed", "submit_blocked", "none"} :
             worker' = [worker EXCEPT ![t] = place]
    BY <1>12 DEF WorkerDecides, WorkerReturns, WorkerGoesTo
  <2>3. CASE run = "deleted" /\ WorkerRaises(t)
    BY <1>9, <2>1, <2>3 DEF Stopped
  <2>4. CASE \E place \in {"submit_output", "submit_failed", "submit_blocked", "none"} :
               worker' = [worker EXCEPT ![t] = place]
    <3>1. /\ worker'[t] \in {"submit_output", "submit_failed", "submit_blocked", "none"}
          /\ worker' = [worker EXCEPT ![t] = worker'[t]]
      BY <1>1, <2>4 DEF ServiceTypeOK
    <3>. QED
      BY <1>10, <2>1, <3>1
  <2>. QED
    BY <2>2, <2>3, <2>4
<1>13. ASSUME NEW t \in Tasks, WorkerSubmits(t)
       PROVE  Goal
  <2>1. CASE WorkerReturns(t) /\ \E r \in Results(t) : SubmitTaskResult(t, CodexWorker, r[1], r[2], worktree[t])
    <3>1. attempt' = attempt
      BY <2>1 DEF SubmitTaskResult
    <3>2. worker'[t] = "none" /\ worker' = [worker EXCEPT ![t] = worker'[t]]
      BY <1>1, <2>1 DEF WorkerReturns, ServiceTypeOK
    <3>. QED
      BY <1>10, <3>1, <3>2
  <2>2. CASE /\ worker[t] \in {"submit_output", "submit_failed", "submit_blocked"}
             /\ status[t] # "running" /\ UNCHANGED vars /\ WorkerRaises(t)
    <3>1. Holds(t)
      BY <1>1, <2>2 DEF WorkersHold, Held, WorkerAlive
    <3>2. Stopped'
      BY <2>2, <3>1 DEF Holds, Stopped, vars
    <3>. QED
      BY <1>9, <2>2, <3>2 DEF vars
  <2>. QED
    BY <1>13, <2>1, <2>2 DEF WorkerSubmits
<1>14. ASSUME NEW t \in Tasks, WorkerBreaks(t)
       PROVE  Goal
  <2>1. attempt' = attempt /\ WorkerRaises(t) /\ "error" \in Failures
    BY <1>14 DEF WorkerBreaks, vars
  <2>. QED
    BY <1>9, <2>1
<1>15. ASSUME \/ \E t : HostPrepares(t)
              \/ \E c, t : HostCalls(c, t) \/ HostSubmits(c, t)
       PROVE  Goal
  <2>1. UNCHANGED <<attempt, worker>>
    BY <1>15 DEF HostPrepares, HostCalls, HostSubmits, SubmitTaskResult, SetTaskWorktree, vars
  <2>. QED
    BY <1>2, <2>1
<1>16. ASSUME NEW p, Cancel(p) \/ Delete(p)
       PROVE  Goal
  <2>1. worker' = worker
    BY <1>16 DEF Cancel, Delete, serviceVars
  <2>2. \A t \in Tasks : attempt'[t] # attempt[t] + 1
    <3>1. \A t \in Tasks : attempt[t] \in Nat
      BY <1>1 DEF Consistent, RowsTyped
    <3>. QED
      BY <1>16, <3>1, CancelSeen, DeleteSeen DEF Cancel, Delete
  <2>. QED
    BY <2>1, <2>2
<1>. HIDE DEF Goal
<1>. QED
  BY <1>3, <1>4, <1>5, <1>6, <1>7, <1>8, <1>11, <1>12, <1>13, <1>14, <1>15, <1>16
     DEF ServiceNext, ExecuteStep, CoroutineStep, WorkerStep, RequestStep, HostStep, UserStep,
         FailureStep

\* A worker is only ever started on a task that no worker is at, whoever claims it
\* and whatever became of its earlier attempts.
THEOREM OneWorker == ServiceSpec => OneWorkerAtATask
<1>1. ServiceConsistent /\ [ServiceNext]_allVars
        => [ClaimsAreFree /\ \A t \in Tasks :
              attempt'[t] = attempt[t] + 1 => worker[t] \in {"none", "dead"}]_allVars
  BY ClaimsAndRaises DEF ClaimsAreFree
<1>. QED
  BY <1>1, AlwaysServiceConsistent, PTL DEF ServiceSpec, OneWorkerAtATask

\* Where nothing unforeseen raises, a worker whose task was taken from it is in a
\* run that was cancelled or deleted, whatever processes crash and clients give up.
THEOREM RaisesOnlyWhenStopped ==
  ASSUME "error" \notin Failures
  PROVE  ServiceSpec => []RaisesOnlyIfStopped
<1>1. ServiceInit => RaisesOnlyIfStopped
  BY DEF ServiceInit, RaisesOnlyIfStopped
<1>2. ServiceConsistent /\ RaisesOnlyIfStopped /\ [ServiceNext]_allVars => RaisesOnlyIfStopped'
  <2>. SUFFICES ASSUME ServiceConsistent, RaisesOnlyIfStopped, [ServiceNext]_allVars,
                       NEW t \in Tasks, worker'[t] = "raised"
                PROVE  Stopped'
    BY DEF RaisesOnlyIfStopped, Stopped
  <2>1. CASE worker[t] = "raised"
    <3>1. Stopped
      BY <2>1 DEF RaisesOnlyIfStopped, Stopped
    <3>2. Consistent /\ [Next]_vars
      BY StepStores DEF ServiceConsistent
    <3>. QED
      BY <3>1, <3>2, TasksKept
  <2>. QED
    BY <2>1, ClaimsAndRaises
<1>. QED
  BY <1>1, <1>2, AlwaysServiceConsistent, PTL DEF ServiceSpec

-----------------------------------------------------------------------------
(* Reviews, where no process crashes *)

\* A run that ended does not begin again.
LEMMA EndedStays == [Next]_vars /\ Ended => Ended'
<1>. SUFFICES ASSUME [Next]_vars, Ended PROVE Ended'
  OBVIOUS
<1>1. run \notin {"none", "created", "planning"}
  BY DEF Ended, TerminalRun
<1>. QED
  BY <1>1, RunMoves, OnwardKeeps

\* A coroutine that moves within the finalizer, or out of it, keeps the order of reviews.
LEMMA MovesInOrder ==
  ASSUME ServiceTypeOK, ReviewsInOrder, Ended => Ended', NEW c \in Coroutines, Moves(c)
  PROVE  ReviewsInOrder'
<1>1. /\ \A d \in Coroutines \ {c} : pc'[d] = pc[d]
      /\ UNCHANGED <<owner, reviews>>
      /\ \A d : ProcessOf(d)' = ProcessOf(d)
  BY DEF Moves, ProcessOf
<1>2. "finalize" \in Finalizing \ Ruling /\ Judging \subseteq Finalizing /\ Ruling \subseteq Finalizing
  BY DEF Finalizing, Judging, Ruling
<1>3. \A p : Reviewed(p)' <=> Reviewed(p)
  BY <1>1 DEF Reviewed
<1>4. OneFinalizer'
  BY <1>1 DEF ReviewsInOrder, OneFinalizer, Moves, LockFree
<1>5. ASSUME NEW d \in Coroutines, pc'[d] \in Judging
      PROVE  ~Reviewed(ProcessOf(d))
  <2>1. CASE pc[d] \in Judging
    BY <2>1 DEF ReviewsInOrder
  <2>2. CASE pc[d] = "finalize" /\ ~Ended
    <3>1. \A e \in Coroutines : ProcessOf(e) = ProcessOf(d) => pc[e] \notin Ruling
      BY <1>2, <2>2 DEF ReviewsInOrder, OneFinalizer
    <3>2. ProcessOf(d) \in Processes
      BY DEF ProcessOf, Processes, ServiceTypeOK
    <3>. QED
      BY <2>2, <3>1, <3>2 DEF ReviewsInOrder
  <2>. QED
    BY <1>1, <1>5, <2>1, <2>2 DEF Moves
<1>6. ASSUME NEW p \in Processes, Reviewed(p), ~Ended'
      PROVE  \E d \in Coroutines : ProcessOf(d) = p /\ pc'[d] \in Ruling
  <2>1. PICK d \in Coroutines : ProcessOf(d) = p /\ pc[d] \in Ruling
    BY <1>6 DEF ReviewsInOrder
  <2>2. d # c
    BY <1>6, <2>1 DEF Moves
  <2>. QED
    BY <1>1, <2>1, <2>2
<1>7. ReviewedOnceByEach'
  BY <1>1 DEF ReviewsInOrder, ReviewedOnceByEach
<1>. QED
  BY <1>1, <1>3, <1>4, <1>5, <1>6, <1>7 DEF ReviewsInOrder

\* A review is recorded by the one finalizer of its process, which is past judging then.
LEMMA RecordsInOrder ==
  ASSUME ServiceTypeOK, ReviewsInOrder, NEW c \in Coroutines, ReviewRecorded(c)
  PROVE  ReviewsInOrder'
<1>1. /\ UNCHANGED <<vars, owner>> /\ pc[c] \in {"approved", "rejected"}
      /\ \A d \in Coroutines \ {c} : pc'[d] = pc[d]
      /\ \/ pc'[c] = Raise(c) /\ run = "deleted" /\ reviews' = reviews
         \/ /\ pc'[c] = IF pc[c] = "approved" THEN "approving" ELSE "rejecting"
            /\ DOMAIN reviews' = DOMAIN reviews \cup {Len(reviews) + 1}
            /\ \A i \in DOMAIN reviews : reviews'[i] = reviews[i]
            /\ reviews'[Len(reviews) + 1] = [verdict |-> pc[c], by |-> ProcessOf(c)]
  BY RecordSeen
<1>2. /\ \A d : ProcessOf(d)' = ProcessOf(d)
      /\ Ended' <=> Ended
  BY <1>1 DEF ProcessOf, Ended, vars
<1>3. Judging \subseteq Finalizing /\ Ruling \subseteq Finalizing /\ Ruling \cap Judging = {}
  BY DEF Finalizing, Judging, Ruling
<1>4. pc[c] \in Judging
  BY <1>1 DEF Judging
<1>5. CASE pc'[c] = Raise(c) /\ run = "deleted" /\ reviews' = reviews
  <2>1. pc'[c] \notin Finalizing
    BY <1>5, EndsAt DEF Finalizing
  <2>2. \A p : Reviewed(p)' <=> Reviewed(p)
    BY <1>5 DEF Reviewed
  <2>3. Ended' /\ ReviewedOnceByEach'
    BY <1>2, <1>5 DEF Ended, ReviewsInOrder, ReviewedOnceByEach
  <2>. QED
    BY <1>1, <1>2, <1>3, <2>1, <2>2, <2>3 DEF ReviewsInOrder, OneFinalizer
<1>6. CASE /\ pc'[c] = IF pc[c] = "approved" THEN "approving" ELSE "rejecting"
           /\ DOMAIN reviews' = DOMAIN reviews \cup {Len(reviews) + 1}
           /\ \A i \in DOMAIN reviews : reviews'[i] = reviews[i]
           /\ reviews'[Len(reviews) + 1] = [verdict |-> pc[c], by |-> ProcessOf(c)]
  <2>1. pc'[c] \in Ruling
    BY <1>6 DEF Ruling
  <2>2. ~Reviewed(ProcessOf(c))
    BY <1>4 DEF ReviewsInOrder
  <2>3. reviews'[Len(reviews) + 1].by = ProcessOf(c)
    BY <1>6
  <2>4. \A p : Reviewed(p)' => Reviewed(p) \/ p = ProcessOf(c)
    BY <1>6, <2>3 DEF Reviewed
  <2>5. OneFinalizer'
    BY <1>1, <1>2, <1>3, <1>4, <2>1 DEF ReviewsInOrder, OneFinalizer
  <2>6. ASSUME NEW d \in Coroutines, pc'[d] \in Judging
        PROVE  ~Reviewed(ProcessOf(d))'
    <3>1. d # c /\ pc[d] \in Judging
      BY <1>1, <1>3, <2>1, <2>6
    <3>2. ProcessOf(d) # ProcessOf(c)
      BY <1>3, <1>4, <3>1 DEF ReviewsInOrder, OneFinalizer
    <3>3. ~Reviewed(ProcessOf(d))
      BY <3>1 DEF ReviewsInOrder
    <3>4. \A i \in DOMAIN reviews' : reviews'[i].by # ProcessOf(d)
      BY <1>6, <2>3, <3>2, <3>3 DEF Reviewed
    <3>. QED
      BY <1>2, <3>4 DEF Reviewed
  <2>7. ASSUME NEW p \in Processes, Reviewed(p)'
        PROVE  Ended' \/ \E d \in Coroutines : ProcessOf(d) = p /\ pc'[d] \in Ruling
    <3>1. CASE p = ProcessOf(c)
      BY <2>1, <3>1
    <3>2. CASE Reviewed(p) /\ ~Ended
      <4>1. PICK d \in Coroutines : ProcessOf(d) = p /\ pc[d] \in Ruling
        BY <3>2 DEF ReviewsInOrder
      <4>2. d # c
        BY <1>3, <1>4, <4>1
      <4>. QED
        BY <1>1, <4>1, <4>2
    <3>. QED
      BY <1>2, <2>4, <2>7, <3>1, <3>2
  <2>8. ReviewedOnceByEach'
    <3>1. \A i \in DOMAIN reviews : reviews[i].by # ProcessOf(c)
      BY <2>2 DEF Reviewed
    <3>2. \A i, j \in DOMAIN reviews : reviews[i].by = reviews[j].by => i = j
      BY DEF ReviewsInOrder, ReviewedOnceByEach
    <3>3. \A i, j \in DOMAIN reviews' : reviews'[i].by = reviews'[j].by => i = j
      BY <1>6, <2>3, <3>1, <3>2
    <3>. QED
      BY <3>3 DEF ReviewedOnceByEach
  <2>. QED
    BY <1>2, <2>5, <2>6, <2>7, <2>8 DEF ReviewsInOrder
<1>. QED
  BY <1>1, <1>5, <1>6

\* Unless it crashes and is started again, no process reviews a run twice, for any
\* number of requests and verdicts: a request that waited for the finalize lock finds
\* the run ended by the review it waited for.
THEOREM OneReviewEach ==
  ASSUME "crash" \notin Failures
  PROVE  ServiceSpec => []ReviewedOnceByEach
<1>1. ServiceInit => ReviewsInOrder
  BY DEF ServiceInit, ReviewsInOrder, OneFinalizer, Reviewed, ReviewedOnceByEach, Finalizing, Judging
<1>2. ServiceConsistent /\ ReviewsInOrder /\ [ServiceNext]_allVars => ReviewsInOrder'
  <2>. SUFFICES ASSUME ServiceConsistent, ReviewsInOrder, [ServiceNext]_allVars
                PROVE  ReviewsInOrder'
    OBVIOUS
  <2>1. ServiceTypeOK /\ (Ended => Ended')
    BY StepStores, EndedStays DEF ServiceConsistent
  <2>2. CASE Stays
    <3>1. /\ UNCHANGED <<pc, owner, reviews>>
          /\ \A d : ProcessOf(d)' = ProcessOf(d)
          /\ \A p : Reviewed(p)' <=> Reviewed(p)
      BY <2>2 DEF Stays, ProcessOf, Reviewed
    <3>. QED
      BY <2>1, <3>1 DEF ReviewsInOrder, OneFinalizer, ReviewedOnceByEach
  <2>3. ~ \E p \in Processes : Crash(p)
    BY DEF Crash
  <2>. QED
    BY <2>1, <2>2, <2>3, StepMoves, MovesInOrder, RecordsInOrder
<1>3. ReviewsInOrder => ReviewedOnceByEach
  BY DEF ReviewsInOrder
<1>. QED
  BY <1>1, <1>2, <1>3, AlwaysServiceConsistent, PTL DEF ServiceSpec
=============================================================================
