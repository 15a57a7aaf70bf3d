----------------------------- MODULE RunStoreProofs -----------------------------
(***************************************************************************)
(* The run store's invariants, and that it implements the board of module  *)
(* TaskBoard, for any tasks, plans and claimants: every transaction is one *)
(* step of the board or none.                                              *)
(***************************************************************************)
EXTENDS RunStore, FiniteSetTheorems, TLAPS

-----------------------------------------------------------------------------
(* What Doomed and Refresh compute, for every plan and all statuses.       *)

\* Only a waiting task is doomed: _refresh_ready_tasks skips every other.
LEMMA DoomedWait ==
  ASSUME NEW p, NEW st, NEW t \in Doomed(p, st)
  PROVE  st[t] \in Waiting
<1> DEFINE D == {u \in p.tasks : st[u] \in Waiting}
<1>1. ClosedUnderFailure(p, st, D)
  BY DEF ClosedUnderFailure
<1>2. D \in SUBSET p.tasks
  OBVIOUS
<1>. QED
  BY <1>1, <1>2 DEF Doomed

\* The doomed tasks are closed under the rule that dooms them: the sweeps leave
\* no waiting task behind a failed one.
LEMMA DoomedClosed ==
  ASSUME NEW p, NEW st
  PROVE  ClosedUnderFailure(p, st, Doomed(p, st))
<1>. SUFFICES ASSUME NEW t \in p.tasks, st[t] \in Waiting,
                     NEW d \in p.deps[t],
                     st[d] \in FailedDependency \/ d \in Doomed(p, st)
              PROVE  t \in Doomed(p, st)
  BY DEF ClosedUnderFailure
<1>. SUFFICES ASSUME NEW D \in SUBSET p.tasks, ClosedUnderFailure(p, st, D)
              PROVE  t \in D
  BY DEF Doomed
<1>1. st[d] \in FailedDependency \/ d \in D
  BY DEF Doomed
<1>. QED
  BY <1>1 DEF ClosedUnderFailure

\* A doomed task has a dependency to blame: nothing is blocked without a cause.
LEMMA DoomedHaveCause ==
  ASSUME NEW p, NEW st, NEW t \in Doomed(p, st)
  PROVE  \E d \in p.deps[t] : st[d] \in FailedDependency \/ d \in Doomed(p, st)
<1>. SUFFICES ASSUME \A d \in p.deps[t] : st[d] \notin FailedDependency /\ d \notin Doomed(p, st)
              PROVE  FALSE
  OBVIOUS
<1> DEFINE D == Doomed(p, st) \ {t}
<1>1. ClosedUnderFailure(p, st, D)
  <2>. SUFFICES ASSUME NEW u \in p.tasks, st[u] \in Waiting,
                       NEW d \in p.deps[u], st[d] \in FailedDependency \/ d \in D
                PROVE  u \in D
    BY DEF ClosedUnderFailure
  <2>1. u \in Doomed(p, st)
    BY DoomedClosed DEF ClosedUnderFailure
  <2>2. u # t
    OBVIOUS
  <2>. QED
    BY <2>1, <2>2
<1>2. D \in SUBSET p.tasks
  BY DEF Doomed
<1>3. t \in D
  BY <1>1, <1>2 DEF Doomed
<1>. QED
  BY <1>3

\* What a refreshed status can be, seen from the status before.
LEMMA RefreshCases ==
  ASSUME NEW p, NEW st, NEW t \in Tasks
  PROVE  \/ t \in Doomed(p, st) /\ st[t] \in Waiting /\ Refresh(p, st)[t] = "blocked"
         \/ /\ t \notin Doomed(p, st) /\ st[t] \in Waiting
            /\ \A d \in p.deps[t] : st[d] = "succeeded"
            /\ Refresh(p, st)[t] = "ready"
         \/ /\ t \notin Doomed(p, st)
            /\ st[t] \in Waiting => \E d \in p.deps[t] : st[d] # "succeeded"
            /\ Refresh(p, st)[t] = st[t]
  BY DoomedWait DEF Refresh

\* The refresh neither makes nor unmakes a success or a failure of its own.
LEMMA RefreshKeepsDecided ==
  ASSUME NEW p, NEW st, NEW t \in Tasks
  PROVE  /\ Refresh(p, st)[t] = "succeeded" <=> st[t] = "succeeded"
         /\ Refresh(p, st)[t] = "failed" <=> st[t] = "failed"
         /\ Refresh(p, st)[t] = "running" <=> st[t] = "running"
         /\ Refresh(p, st)[t] = "cancelled" <=> st[t] = "cancelled"
         /\ st[t] \notin Waiting => Refresh(p, st)[t] = st[t]
  BY RefreshCases DEF Waiting

\* When every task that waits does so for an undecided dependency and none that
\* failed, there is nothing to refresh.
LEMMA RefreshedIf ==
  ASSUME NEW p, NEW st, st = [t \in Tasks |-> st[t]],
         \A t \in Tasks : st[t] \in Waiting =>
           /\ \A d \in p.deps[t] : st[d] \notin FailedDependency
           /\ \E d \in p.deps[t] : st[d] # "succeeded",
         p.tasks \subseteq Tasks
  PROVE  Refresh(p, st) = st
<1>1. ClosedUnderFailure(p, st, {})
  BY DEF ClosedUnderFailure
<1>2. Doomed(p, st) = {}
  BY <1>1 DEF Doomed
<1>3. Refresh(p, st) = [t \in Tasks |-> st[t]]
  BY <1>2 DEF Refresh
<1>. QED
  BY <1>3

\* One refresh is enough: a second one, in this transaction or the next, finds
\* nothing to change.
THEOREM RefreshIdempotent ==
  ASSUME NEW p, p \in PlanType, NEW st
  PROVE  Refresh(p, Refresh(p, st)) = Refresh(p, st)
<1> DEFINE new == Refresh(p, st)
<1>1. \A t \in p.tasks : t \in Tasks
  BY DEF PlanType
<1>2. \A t \in Tasks : p.deps[t] \in SUBSET Tasks
  BY DEF PlanType
<1>3. ClosedUnderFailure(p, new, {})
  <2>. SUFFICES ASSUME NEW t \in p.tasks, new[t] \in Waiting,
                       NEW d \in p.deps[t], new[d] \in FailedDependency
                PROVE  FALSE
    BY DEF ClosedUnderFailure
  <2>1. t \in Tasks /\ d \in Tasks
    BY <1>1, <1>2
  <2>2. st[t] \in Waiting /\ t \notin Doomed(p, st)
    BY <2>1, RefreshCases DEF Waiting
  <2>3. st[d] \in FailedDependency \/ d \in Doomed(p, st)
    BY <2>1, RefreshCases
       DEF Waiting, FailedDependency
  <2>. QED
    BY <2>2, <2>3, DoomedClosed DEF ClosedUnderFailure
<1>4. Doomed(p, new) = {}
  BY <1>3 DEF Doomed
<1>5. ASSUME NEW t \in Tasks, new[t] \in Waiting, \A d \in p.deps[t] : new[d] = "succeeded"
      PROVE  FALSE
  <2>1. st[t] \in Waiting /\ new[t] = st[t] /\ \E d \in p.deps[t] : st[d] # "succeeded"
    BY <1>5, RefreshCases DEF Waiting
  <2>2. \A d \in p.deps[t] : st[d] = "succeeded"
    BY <1>2, <1>5, RefreshKeepsDecided
  <2>. QED
    BY <2>1, <2>2
<1>6. \A t \in Tasks : Refresh(p, new)[t] = new[t]
  BY <1>4, <1>5 DEF Refresh
<1>. HIDE DEF new
<1>7. Refresh(p, new) = [t \in Tasks |-> Refresh(p, new)[t]] /\ new = [t \in Tasks |-> new[t]]
  BY DEF Refresh, new
<1>8. Refresh(p, new) = new
  BY <1>6, <1>7
<1>. QED
  BY <1>8 DEF new

\* In refreshed statuses a waiting task waits for a reason: a dependency that is
\* not decided yet, and none that failed.
LEMMA RefreshedWaiting ==
  ASSUME NEW p, p \in PlanType, NEW st, Refresh(p, st) = st,
         NEW t \in p.tasks, st[t] \in Waiting
  PROVE  /\ \A d \in p.deps[t] : st[d] \notin FailedDependency
         /\ \E d \in p.deps[t] : st[d] # "succeeded"
<1>1. t \in Tasks
  BY DEF PlanType
<1>2. t \notin Doomed(p, st) /\ \E d \in p.deps[t] : st[d] # "succeeded"
  BY <1>1, RefreshCases DEF Waiting
<1>. QED
  BY <1>2, DoomedClosed DEF ClosedUnderFailure

\* Without a cycle there is a first waiting task, and what it waits for is ready
\* or running: refreshed statuses with anything left to do offer or do some of it.
THEOREM NoCircularWait ==
  ASSUME NEW p, p \in PlanType, ValidGraph(p), NEW st, Refresh(p, st) = st,
         \A t \in p.tasks : st[t] \in TaskStatuses \ {"retrying"},
         \E t \in p.tasks : st[t] \in Active
  PROVE  \E t \in p.tasks : st[t] \in {"ready", "running"}
<1>. SUFFICES ASSUME \A t \in p.tasks : st[t] \notin {"ready", "running"}
              PROVE  FALSE
  OBVIOUS
<1> DEFINE W == {t \in p.tasks : st[t] \in Waiting}
<1>1. W # {} /\ W \in SUBSET p.tasks
  BY DEF Active, Waiting
<1>2. PICK t \in W : p.deps[t] \cap W = {}
  BY <1>1 DEF ValidGraph
<1>3. t \in Tasks /\ p.deps[t] \subseteq p.tasks
  BY DEF ValidGraph, PlanType
<1>4. PICK d \in p.deps[t] : st[d] # "succeeded" /\ st[d] \notin FailedDependency
  BY RefreshedWaiting
<1>5. d \in p.tasks /\ st[d] \notin Waiting
  BY <1>2, <1>3
<1>. QED
  BY <1>4, <1>5 DEF TaskStatuses, FailedDependency, Waiting

\* A fresh plan loses nothing to the refresh of save_plan.
LEMMA NothingDoomedAtFirst ==
  ASSUME NEW p, p \in PlanType, ValidGraph(p), NEW st,
         \A t \in p.tasks : st[t] \notin FailedDependency
  PROVE  Doomed(p, st) = {}
<1>. SUFFICES ASSUME Doomed(p, st) # {} PROVE FALSE
  OBVIOUS
<1>1. Doomed(p, st) \in SUBSET p.tasks
  BY DEF Doomed
<1>2. PICK t \in Doomed(p, st) : p.deps[t] \cap Doomed(p, st) = {}
  BY <1>1 DEF ValidGraph
<1>3. t \in Tasks /\ t \in p.tasks
  BY <1>1 DEF PlanType
<1>4. p.deps[t] \subseteq p.tasks
  BY <1>3 DEF ValidGraph
<1>. QED
  BY <1>2, <1>4, DoomedHaveCause

\* The refresh respects the order of the graph: if every task that was offered,
\* run or decided by its own work had its dependencies succeed, so it is after the
\* refresh; it ends every retrying; and it offers again only what was waiting.
LEMMA RefreshKeepsOrder ==
  ASSUME NEW p, p \in PlanType, NEW st,
         \A u \in p.tasks :
           st[u] \in {"ready", "running", "retrying", "succeeded", "failed"}
             => \A d \in p.deps[u] : st[d] = "succeeded",
         NEW t \in p.tasks
  PROVE  /\ Refresh(p, st)[t] # "retrying"
         /\ Refresh(p, st)[t] \in {"ready", "running", "succeeded", "failed"}
              => \A d \in p.deps[t] : Refresh(p, st)[d] = "succeeded"
         /\ Refresh(p, st)[t] \in {"pending", "ready"}
              => st[t] \in {"pending", "ready", "retrying"}
<1>1. t \in Tasks /\ \A d \in p.deps[t] : d \in Tasks
  BY DEF PlanType
<1>2. \A d \in p.deps[t] : st[d] = "succeeded" => Refresh(p, st)[d] = "succeeded"
  BY <1>1, RefreshKeepsDecided
<1>3. CASE Refresh(p, st)[t] = "blocked"
  BY <1>3
<1>4. CASE /\ Refresh(p, st)[t] = "ready" /\ st[t] \in Waiting
           /\ \A d \in p.deps[t] : st[d] = "succeeded"
  BY <1>2, <1>4 DEF Waiting
<1>5. CASE /\ Refresh(p, st)[t] = st[t]
           /\ st[t] \in Waiting => \E d \in p.deps[t] : st[d] # "succeeded"
  <2>1. st[t] # "retrying"
    BY <1>5 DEF Waiting
  <2>2. st[t] \in {"ready", "running", "succeeded", "failed"}
          => \A d \in p.deps[t] : Refresh(p, st)[d] = "succeeded"
    BY <1>2
  <2>. QED
    BY <1>5, <2>1, <2>2
<1>. QED
  BY <1>1, <1>3, <1>4, <1>5, RefreshCases
-----------------------------------------------------------------------------
(* Positions in order *)

\* Each position of a set is the i-th lowest for one i, and there is one for every i.
LEMMA NthIsThere ==
  ASSUME NEW S \in SUBSET Nat, IsFiniteSet(S)
  PROVE  /\ Cardinality(S) \in Nat
         /\ \A i \in 1..Cardinality(S) : Nth(S, i) \in S
         /\ \A t \in S : \E i \in 1..Cardinality(S) : Nth(S, i) = t
         /\ \A i, j \in 1..Cardinality(S) : Nth(S, i) = Nth(S, j) => i = j
         /\ \A t \in S : t <= Nth(S, Cardinality(S))
<1> DEFINE n == Cardinality(S)
<1> DEFINE Upto(t) == {u \in S : u <= t}
<1> DEFINE rank == [t \in S |-> Cardinality(Upto(t))]
<1>1. S \subseteq Nat
  OBVIOUS
<1>2. n \in Nat
  BY FS_CardinalityType
<1>3. \A t \in S : IsFiniteSet(Upto(t)) /\ Cardinality(Upto(t)) \in Nat /\ Cardinality(Upto(t)) <= n
  <2>. SUFFICES ASSUME NEW t \in S
                PROVE  IsFiniteSet(Upto(t)) /\ Cardinality(Upto(t)) \in Nat /\ Cardinality(Upto(t)) <= n
    OBVIOUS
  <2>1. Upto(t) \in SUBSET S
    OBVIOUS
  <2>. QED
    BY <2>1, FS_Subset, FS_CardinalityType
<1>4. \A t \in S : Cardinality(Upto(t)) \in 1..n
  <2>. SUFFICES ASSUME NEW t \in S PROVE Cardinality(Upto(t)) \in 1..n
    OBVIOUS
  <2>1. t \in Upto(t)
    BY <1>1
  <2>2. Cardinality(Upto(t)) # 0
    BY <1>3, <2>1, FS_EmptySet
  <2>. QED
    BY <1>2, <1>3, <2>2
<1>5. \A t, u \in S : t < u => Cardinality(Upto(t)) # Cardinality(Upto(u))
  <2>. SUFFICES ASSUME NEW t \in S, NEW u \in S, t < u,
                       Cardinality(Upto(t)) = Cardinality(Upto(u))
                PROVE  FALSE
    OBVIOUS
  <2>1. t \in Nat /\ u \in Nat /\ \A v \in S : v \in Nat
    BY <1>1
  <2>2. \A v \in S : v <= t => v <= u
    BY <2>1
  <2>3. Upto(t) \in SUBSET Upto(u)
    BY <2>2
  <2>4. u \in Upto(u) /\ u \notin Upto(t)
    BY <2>1
  <2>5. Upto(u) = Upto(t)
    BY <1>3, <2>3, FS_Subset
  <2>. QED
    BY <2>4, <2>5
<1>. HIDE DEF Upto
<1>6. \A t, u \in S : rank[t] = rank[u] => t = u
  BY <1>1, <1>5
<1>7. rank \in Injection(S, 1..n)
  BY <1>4, <1>6 DEF Injection, IsInjective
<1>8. IsFiniteSet(1..n) /\ Cardinality(1..n) = n
  <2>1. IsFiniteSet(1..n) /\ Cardinality(1..n) = IF 1 > n THEN 0 ELSE n - 1 + 1
    BY <1>2, FS_Interval
  <2>. QED
    BY <1>2, <2>1
<1>9. rank \in Surjection(S, 1..n)
  BY <1>7, <1>8, FS_Injection
<1>10. \A i \in 1..n : \E t \in S : Cardinality(Upto(t)) = i
  BY <1>9 DEF Surjection
<1>11. \A i \in 1..n : Nth(S, i) \in S /\ Cardinality(Upto(Nth(S, i))) = i
  BY <1>10 DEF Nth, Upto
<1>12. \A t \in S : Nth(S, Cardinality(Upto(t))) = t
  BY <1>4, <1>6, <1>11
<1>13. \A t \in S : t <= Nth(S, n)
  <2>. SUFFICES ASSUME NEW t \in S PROVE t <= Nth(S, n)
    OBVIOUS
  <2>1. n \in 1..n
    BY <1>2, <1>4
  <2>2. Nth(S, n) \in S /\ Cardinality(Upto(Nth(S, n))) = Cardinality(S)
    BY <1>11, <2>1
  <2>3. Upto(Nth(S, n)) \in SUBSET S
    BY DEF Upto
  <2>4. Upto(Nth(S, n)) = S
    BY <2>2, <2>3, FS_Subset
  <2>. QED
    BY <2>4 DEF Upto
<1>. QED
  BY <1>2, <1>4, <1>11, <1>12, <1>13

-----------------------------------------------------------------------------
(* The inductive invariant.  Beside what is expected of the store it says    *)
(* which runs have a plan, that a task without a row was never claimed, that *)
(* no row says retrying, and that a running run has something left to do;    *)
(* NeverStuck follows from the last by NoCircularWait.                       *)

PlanWhenPlanned ==
  /\ run \in {"none", "created", "planning"} => plan = NoPlan
  /\ run \in {"running", "integrating", "reviewing", "completed"} => plan.tasks # {}

FreshRows == \A t \in Tasks : status[t] = "absent" => attempt[t] = 0

NoneRetrying == \A t \in plan.tasks : status[t] # "retrying"

WorkLeft == run = "running" => \E t \in plan.tasks : status[t] \in Active

Consistent ==
  /\ RowsTyped
  /\ PlanWhenPlanned
  /\ FreshRows
  /\ NoneRetrying
  /\ DependenciesFirst
  /\ Refreshed
  /\ WithinBudget
  /\ Settled
  /\ DeliversWholePlan
  /\ WorkLeft

-----------------------------------------------------------------------------
(* Plans *)

\* No plan is a plan without tasks.
LEMMA NoPlanType == NoPlan \in PlanType
  BY DEF NoPlan, PlanType, Executors

\* The persisted plan is a plan, and one with tasks has a valid graph.
LEMMA PlanFacts ==
  ASSUME plan \in Plans \cup {NoPlan}
  PROVE  /\ plan \in PlanType
         /\ plan.tasks \subseteq Tasks
         /\ \A t \in plan.tasks : plan.deps[t] \subseteq plan.tasks
         /\ \A t \in plan.tasks : plan.budget[t] \in Nat \ {0}
         /\ plan.tasks # {} => ValidGraph(plan)
<1>1. plan \in PlanType
  BY NoPlanType, PlansAssumption
<1>2. NoPlan.tasks = {}
  BY DEF NoPlan
<1>3. plan.tasks # {} => ValidGraph(plan)
  BY <1>2, PlansAssumption
<1>4. /\ plan.tasks \subseteq Tasks
      /\ \A t \in plan.tasks : plan.budget[t] \in Nat \ {0}
  BY <1>1 DEF PlanType
<1>5. \A t \in plan.tasks : plan.deps[t] \subseteq plan.tasks
  BY <1>3, <1>4 DEF ValidGraph
<1>. QED
  BY <1>1, <1>3, <1>4, <1>5

\* A refresh gives every row a status again, and no row more or less.
LEMMA RefreshType ==
  ASSUME NEW p, p \in PlanType, NEW st \in [Tasks -> TaskStatuses \cup {"absent"}]
  PROVE  /\ Refresh(p, st) \in [Tasks -> TaskStatuses \cup {"absent"}]
         /\ \A t \in Tasks : Refresh(p, st)[t] = "absent" <=> st[t] = "absent"
<1>1. \A t \in Tasks : /\ Refresh(p, st)[t] \in TaskStatuses \cup {"absent"}
                       /\ Refresh(p, st)[t] = "absent" <=> st[t] = "absent"
  BY RefreshCases DEF TaskStatuses, Waiting
<1>. QED
  BY <1>1 DEF Refresh

-----------------------------------------------------------------------------
\* Before the run there are no rows.
LEMMA InitConsistent == Init => Consistent
<1>. SUFFICES ASSUME Init PROVE Consistent
  OBVIOUS
<1>. USE DEF Init, Absent
<1>1. plan.tasks = {}
  BY DEF NoPlan
<1>2. RowsTyped
  BY <1>1 DEF RowsTyped
<1>3. Refreshed
  <2>1. /\ status = [t \in Tasks |-> status[t]]
        /\ \A t \in Tasks : status[t] \notin Waiting
        /\ plan.tasks \subseteq Tasks
    BY <1>1 DEF Waiting
  <2>. QED
    BY <2>1, RefreshedIf DEF Refreshed
<1>. QED
  BY <1>1, <1>2, <1>3
     DEF Consistent, PlanWhenPlanned, FreshRows, NoneRetrying, DependenciesFirst, WithinBudget,
         Settled, DeliversWholePlan, WorkLeft

\* A new run has no plan.
LEMMA CreateRunConsistent ==
  ASSUME Consistent, NEW mode \in Deliveries, CreateRun(mode)
  PROVE  Consistent'
<1>. USE DEF Consistent, CreateRun, details
<1>1. RowsTyped'
  BY DEF RowsTyped, RunStatuses
<1>2. plan = NoPlan /\ plan.tasks = {}
  BY DEF PlanWhenPlanned, NoPlan
<1>3. Refreshed'
  BY DEF Refreshed
<1>. QED
  BY <1>1, <1>2, <1>3
     DEF PlanWhenPlanned, FreshRows, NoneRetrying, DependenciesFirst, WithinBudget,
         Settled, DeliversWholePlan, WorkLeft

\* The rows of a plan are fresh, and some of them ready.
LEMMA SavePlanConsistent ==
  ASSUME Consistent, NEW p \in Plans, SavePlan(p)
  PROVE  Consistent'
<1> DEFINE fresh == [t \in Tasks |-> IF t \in p.tasks THEN "pending" ELSE "absent"]
<1>. USE DEF Consistent, SavePlan, details
<1>1. p \in PlanType /\ ValidGraph(p) /\ p.tasks \subseteq Tasks
  BY PlansAssumption DEF PlanType
<1>2. plan' = p /\ run' = "running" /\ status' = Refresh(p, fresh)
  OBVIOUS
<1>3. fresh \in [Tasks -> TaskStatuses \cup {"absent"}]
  BY DEF TaskStatuses
<1>4. Doomed(p, fresh) = {}
  BY <1>1, NothingDoomedAtFirst DEF FailedDependency
<1>5. \A t \in p.tasks :
        \/ /\ status'[t] = "ready"
           /\ \A d \in p.deps[t] : fresh[d] = "succeeded"
        \/ status'[t] = "pending"
  BY <1>1, <1>2, <1>4, RefreshCases
<1>6. RowsTyped'
  <2>1. /\ status' \in [Tasks -> TaskStatuses \cup {"absent"}]
        /\ \A t \in Tasks : status'[t] = "absent" <=> t \notin p.tasks
    BY <1>1, <1>2, <1>3, RefreshType
  <2>. QED
    BY <2>1, <1>2 DEF RowsTyped, RunStatuses
<1>7. PlanWhenPlanned'
  BY <1>1, <1>2 DEF PlanWhenPlanned, ValidGraph
<1>8. DependenciesFirst'
  <2>. SUFFICES ASSUME NEW t \in p.tasks, status'[t] = "ready", NEW d \in p.deps[t]
                PROVE  status'[d] = "succeeded"
    BY <1>2, <1>5 DEF DependenciesFirst
  <2>1. fresh[d] = "succeeded" /\ d \in Tasks
    BY <1>1, <1>5 DEF PlanType
  <2>. QED
    BY <2>1, <1>2, RefreshKeepsDecided
<1>9. Refreshed'
  BY <1>1, <1>2, RefreshIdempotent DEF Refreshed
<1>10. WithinBudget'
  <2>1. \A t \in Tasks : status[t] = "absent"
    BY DEF RowsTyped
  <2>2. \A t \in p.tasks : p.budget[t] \in Nat \ {0}
    BY <1>1 DEF PlanType
  <2>3. \A t \in p.tasks : attempt[t] = 0
    BY <1>1, <2>1 DEF FreshRows
  <2>. QED
    BY <1>2, <2>2, <2>3 DEF WithinBudget
<1>11. FreshRows'
  BY <1>1, <1>2, <1>3, RefreshType DEF FreshRows, RowsTyped
<1>12. WorkLeft'
  BY <1>1, <1>2, <1>5 DEF WorkLeft, Active, ValidGraph
<1>. QED
  BY <1>2, <1>5, <1>6, <1>7, <1>8, <1>9, <1>10, <1>11, <1>12
     DEF NoneRetrying, Settled, DeliversWholePlan

\* No status a caller asks for contradicts the tasks.
LEMMA SetRunStatusConsistent ==
  ASSUME Consistent, NEW s \in RunStatuses, CallersAsk(s), SetRunStatus(s)
  PROVE  Consistent'
<1>. USE DEF Consistent, SetRunStatus, details
<1>1. s \in RunTransitions[run] /\ run' = s /\ CallersAsk(s) /\ run \in RunStatuses
  BY DEF Accepts
<1>2. \/ s = "planning" /\ run = "created"
      \/ s = "failed"
      \/ s = "blocked" /\ run \in {"planning", "integrating", "reviewing"}
      \/ s = "reviewing" /\ run = "integrating"
      \/ s = "completed" /\ run = "reviewing"
  BY <1>1 DEF CallersAsk, RunStatuses, RunTransitions
<1>3. RowsTyped'
  BY DEF RowsTyped
<1>4. Refreshed'
  BY DEF Refreshed
<1>5. PlanWhenPlanned' /\ DeliversWholePlan' /\ WorkLeft'
  BY <1>2 DEF PlanWhenPlanned, DeliversWholePlan, WorkLeft
<1>6. Settled'
  <2>1. run = "planning" => plan.tasks = {}
    BY DEF PlanWhenPlanned, NoPlan
  <2>. QED
    BY <1>2, <2>1 DEF Settled
<1>. QED
  BY <1>3, <1>4, <1>5, <1>6
     DEF FreshRows, NoneRetrying, DependenciesFirst, WithinBudget

\* The statuses after task t's becomes s and the refresh that follows.
After(t, s) == Refresh(plan, [status EXCEPT ![t] = s])

\* What such a change leaves behind in a consistent store.
LEMMA AfterConsistent ==
  ASSUME Consistent, NEW t \in plan.tasks,
         status[t] \in {"ready", "running"},
         NEW s \in TaskStatuses \ {"pending"}
  PROVE  /\ After(t, s) \in [Tasks -> TaskStatuses \cup {"absent"}]
         /\ \A u \in Tasks : After(t, s)[u] = "absent" <=> u \notin plan.tasks
         /\ \A u \in plan.tasks : After(t, s)[u] # "retrying"
         /\ \A u \in plan.tasks :
              After(t, s)[u] \in {"ready", "running", "succeeded", "failed"}
                => \A d \in plan.deps[u] : After(t, s)[d] = "succeeded"
         /\ Refresh(plan, After(t, s)) = After(t, s)
         /\ \A u \in plan.tasks \ {t} : After(t, s)[u] \in {"pending", "ready"}
              => status[u] \in {"pending", "ready"}
         /\ After(t, s)[t] \in {"pending", "ready"} => s \in {"ready", "retrying"}
<1> DEFINE new == After(t, s)
<1> DEFINE mid == [status EXCEPT ![t] = s]
<1>1. RowsTyped /\ NoneRetrying /\ DependenciesFirst
  BY DEF Consistent
<1>2. plan \in PlanType /\ plan.tasks \subseteq Tasks
      /\ \A u \in plan.tasks : plan.deps[u] \subseteq plan.tasks
  BY <1>1, PlanFacts DEF RowsTyped
<1>3. /\ mid \in [Tasks -> TaskStatuses \cup {"absent"}]
      /\ mid[t] = s
      /\ \A u \in Tasks \ {t} : mid[u] = status[u]
      /\ \A u \in Tasks : mid[u] = "absent" <=> u \notin plan.tasks
  BY <1>1, <1>2 DEF RowsTyped, TaskStatuses
<1>4. new = Refresh(plan, mid)
  BY DEF After
<1>. HIDE DEF mid, new
<1>5. ASSUME NEW u \in plan.tasks,
             mid[u] \in {"ready", "running", "retrying", "succeeded", "failed"},
             NEW d \in plan.deps[u]
      PROVE  mid[d] = "succeeded"
  <2>1. status[u] \in {"ready", "running", "succeeded", "failed"}
    BY <1>1, <1>2, <1>3, <1>5 DEF NoneRetrying
  <2>2. status[d] = "succeeded"
    BY <2>1, <1>1 DEF DependenciesFirst
  <2>. QED
    BY <2>2, <1>2, <1>3
<1>6. ASSUME NEW u \in plan.tasks
      PROVE  /\ new[u] # "retrying"
             /\ new[u] \in {"ready", "running", "succeeded", "failed"}
                  => \A d \in plan.deps[u] : new[d] = "succeeded"
             /\ new[u] \in {"pending", "ready"} => mid[u] \in {"pending", "ready", "retrying"}
  <2>1. \A v \in plan.tasks :
           mid[v] \in {"ready", "running", "retrying", "succeeded", "failed"}
             => \A d \in plan.deps[v] : mid[d] = "succeeded"
    BY <1>5
  <2>2. plan \in PlanType
    BY <1>2
  <2>. HIDE DEF mid
  <2>3. /\ Refresh(plan, mid)[u] # "retrying"
        /\ Refresh(plan, mid)[u] \in {"ready", "running", "succeeded", "failed"}
              => \A d \in plan.deps[u] : Refresh(plan, mid)[d] = "succeeded"
        /\ Refresh(plan, mid)[u] \in {"pending", "ready"}
              => mid[u] \in {"pending", "ready", "retrying"}
    BY <2>1, <2>2, RefreshKeepsOrder
  <2>. QED
    BY <1>4, <2>3
<1>7. /\ new \in [Tasks -> TaskStatuses \cup {"absent"}]
      /\ \A u \in Tasks : new[u] = "absent" <=> u \notin plan.tasks
  <2>1. plan \in PlanType /\ mid \in [Tasks -> TaskStatuses \cup {"absent"}]
    BY <1>2, <1>3
  <2>2. /\ Refresh(plan, mid) \in [Tasks -> TaskStatuses \cup {"absent"}]
        /\ \A u \in Tasks : Refresh(plan, mid)[u] = "absent" <=> mid[u] = "absent"
    BY <2>1, RefreshType
  <2>. QED
    BY <1>3, <1>4, <2>2
<1>8. Refresh(plan, new) = new
  BY <1>2, <1>4, RefreshIdempotent
<1>9. ASSUME NEW u \in plan.tasks \ {t}, new[u] \in {"pending", "ready"}
      PROVE  status[u] \in {"pending", "ready"}
  <2>1. mid[u] \in {"pending", "ready", "retrying"}
    BY <1>6, <1>9
  <2>2. mid[u] = status[u]
    BY <1>2, <1>3
  <2>. QED
    BY <1>1, <2>1, <2>2 DEF NoneRetrying
<1>10. new[t] \in {"pending", "ready"} => s \in {"ready", "retrying"}
  BY <1>3, <1>6
<1>. QED
  BY <1>6, <1>7, <1>8, <1>9, <1>10 DEF new

\* A claim spends an attempt of a ready task.
LEMMA ClaimTaskConsistent ==
  ASSUME Consistent, NEW e, NEW w \in Claimants, NEW wanted \in Wishes,
         ClaimTask(e, w, wanted)
  PROVE  Consistent'
<1>1. RowsTyped /\ NoneRetrying /\ DependenciesFirst /\ Refreshed /\ WithinBudget /\ run = "running"
  BY DEF Consistent, ClaimTask
<1>2. PICK t \in Claimable(e, wanted) :
        /\ status' = [Refresh(plan, status) EXCEPT ![t] = "running"]
        /\ attempt' = [attempt EXCEPT ![t] = @ + 1]
        /\ claimant' = [claimant EXCEPT ![t] = w]
        /\ commit' = [commit EXCEPT ![t] = FALSE]
  BY DEF ClaimTask
<1>3. UNCHANGED <<run, delivery, plan, worktree>>
  BY DEF ClaimTask
<1>4. plan \in PlanType /\ plan.tasks \subseteq Tasks
      /\ (\A u \in plan.tasks : plan.deps[u] \subseteq plan.tasks)
      /\ (\A u \in plan.tasks : plan.budget[u] \in Nat \ {0})
  BY <1>1, PlanFacts DEF RowsTyped
<1>5. status[t] = "ready" /\ t \in Tasks /\ t \in plan.tasks
  BY <1>1 DEF Claimable, Refreshed, Wishes, RowsTyped
<1>6. /\ status' = [status EXCEPT ![t] = "running"]
      /\ status'[t] = "running"
      /\ \A u \in Tasks \ {t} : status'[u] = status[u]
  BY <1>1, <1>2, <1>5 DEF Refreshed, RowsTyped
<1>7. RowsTyped'
  <2>1. status' \in [Tasks -> TaskStatuses \cup {"absent"}]
        /\ \A u \in Tasks : status'[u] = "absent" <=> u \notin plan.tasks
    BY <1>1, <1>5, <1>6 DEF RowsTyped, TaskStatuses
  <2>2. attempt' \in [Tasks -> Nat] /\ claimant' \in [Tasks -> Claimants \cup {"nobody"}]
        /\ commit' \in [Tasks -> BOOLEAN]
    BY <1>1, <1>2, <1>5 DEF RowsTyped
  <2>. QED
    BY <1>1, <1>3, <2>1, <2>2 DEF RowsTyped
<1>8. DependenciesFirst'
  <2>. SUFFICES ASSUME NEW u \in plan.tasks,
                       status'[u] \in {"ready", "running", "succeeded", "failed"},
                       NEW d \in plan.deps[u]
                PROVE  status'[d] = "succeeded"
    BY <1>3 DEF DependenciesFirst
  <2>1. status[d] = "succeeded"
    BY <1>1, <1>4, <1>5, <1>6 DEF DependenciesFirst
  <2>. QED
    BY <2>1, <1>4, <1>5, <1>6
<1>9. Refreshed'
  <2>1. status' = [u \in Tasks |-> status'[u]]
    BY <1>7 DEF RowsTyped
  <2>2. ASSUME NEW u \in Tasks, status'[u] \in Waiting
        PROVE  /\ \A d \in plan.deps[u] : status'[d] \notin FailedDependency
               /\ \E d \in plan.deps[u] : status'[d] # "succeeded"
    <3>1. status[u] \in Waiting /\ u \in plan.tasks
      BY <1>1, <1>6, <2>2 DEF Waiting, RowsTyped
    <3>2. /\ \A d \in plan.deps[u] : status[d] \notin FailedDependency
          /\ \E d \in plan.deps[u] : status[d] # "succeeded"
      BY <1>1, <1>4, <3>1, RefreshedWaiting DEF Refreshed
    <3>3. \A d \in plan.deps[u] : d \in Tasks
      BY <1>4, <3>1
    <3>. QED
      BY <1>6, <3>2, <3>3 DEF FailedDependency
  <2>. QED
    BY <1>3, <1>4, <2>1, <2>2, RefreshedIf DEF Refreshed
<1>10. WithinBudget'
  <2>. SUFFICES ASSUME NEW u \in plan.tasks
                PROVE  /\ attempt'[u] <= plan.budget[u]
                       /\ status'[u] \in {"pending", "ready"} => attempt'[u] < plan.budget[u]
    BY <1>3 DEF WithinBudget
  <2>1. CASE u = t
    <3>1. attempt[t] < plan.budget[t] /\ attempt[t] \in Nat /\ plan.budget[t] \in Nat
      BY <1>1, <1>4, <1>5 DEF WithinBudget, RowsTyped
    <3>2. attempt'[t] = attempt[t] + 1
      BY <1>1, <1>2, <1>5 DEF RowsTyped
    <3>. QED
      BY <2>1, <3>1, <3>2, <1>6
  <2>2. CASE u # t
    <3>1. attempt'[u] = attempt[u] /\ status'[u] = status[u]
      BY <1>1, <1>2, <1>4, <1>6, <2>2 DEF RowsTyped
    <3>. QED
      BY <1>1, <3>1 DEF WithinBudget
  <2>. QED
    BY <2>1, <2>2
<1>11. FreshRows' /\ NoneRetrying' /\ WorkLeft'
  <2>1. FreshRows'
    BY <1>1, <1>2, <1>5, <1>6 DEF Consistent, FreshRows, RowsTyped
  <2>2. NoneRetrying'
    BY <1>1, <1>3, <1>4, <1>5, <1>6 DEF NoneRetrying
  <2>3. WorkLeft'
    BY <1>3, <1>5, <1>6 DEF WorkLeft, Active
  <2>. QED
    BY <2>1, <2>2, <2>3
<1>12. PlanWhenPlanned' /\ Settled' /\ DeliversWholePlan'
  BY <1>1, <1>3 DEF Consistent, PlanWhenPlanned, Settled, DeliversWholePlan
<1>. QED
  BY <1>7, <1>8, <1>9, <1>10, <1>11, <1>12 DEF Consistent

\* A step that changes nothing the invariant speaks of but worktree paths and
\* commit flags.
LEMMA DetailsConsistent ==
  ASSUME Consistent, UNCHANGED <<run, delivery, plan, status, attempt, claimant>>,
         worktree' \in [Tasks -> BOOLEAN], commit' \in [Tasks -> BOOLEAN]
  PROVE  Consistent'
<1>1. RowsTyped'
  BY DEF Consistent, RowsTyped
<1>2. Refreshed'
  BY DEF Consistent, Refreshed
<1>. QED
  BY <1>1, <1>2
     DEF Consistent, PlanWhenPlanned, FreshRows, NoneRetrying, DependenciesFirst,
         WithinBudget, Settled, DeliversWholePlan, WorkLeft

\* A claim that finds nothing changes nothing.
LEMMA ClaimNothingConsistent ==
  ASSUME Consistent, NEW e, NEW wanted, ClaimNothing(e, wanted)
  PROVE  Consistent'
<1>1. UNCHANGED vars
  BY DEF ClaimNothing, Consistent, Refreshed, vars, details
<1>2. worktree' \in [Tasks -> BOOLEAN] /\ commit' \in [Tasks -> BOOLEAN]
  BY <1>1 DEF Consistent, RowsTyped, vars
<1>. QED
  BY <1>1, <1>2, DetailsConsistent DEF vars

\* A worktree is no matter of the statuses.
LEMMA SetTaskWorktreeConsistent ==
  ASSUME Consistent, NEW t \in Tasks, SetTaskWorktree(t)
  PROVE  Consistent'
<1>1. worktree' \in [Tasks -> BOOLEAN] /\ commit' \in [Tasks -> BOOLEAN]
  BY DEF Consistent, RowsTyped, SetTaskWorktree
<1>. QED
  BY <1>1, DetailsConsistent DEF SetTaskWorktree

\* A result is followed by the refresh and the sync it calls for.
LEMMA SubmitTaskResultConsistent ==
  ASSUME Consistent, NEW t \in Tasks, NEW w, NEW o \in Outcomes,
         NEW sha \in BOOLEAN, NEW path \in BOOLEAN,
         SubmitTaskResult(t, w, o, sha, path)
  PROVE  Consistent'
<1> DEFINE s == ResultStatus(t, o)
<1>1. RowsTyped /\ WithinBudget /\ Settled
  BY DEF Consistent
<1>2. plan \in PlanType /\ plan.tasks \subseteq Tasks
  BY <1>1, PlanFacts DEF RowsTyped
<1>3. /\ status[t] = "running"
      /\ t \in plan.tasks
      /\ status' = After(t, s)
      /\ run' = SyncRun(status')
      /\ UNCHANGED <<delivery, plan, attempt, claimant>>
  BY <1>1 DEF SubmitTaskResult, CanSubmit, RowsTyped, After
<1>4. /\ s \in {"succeeded", "blocked", "retrying", "failed"}
      /\ s = "retrying" => attempt[t] < plan.budget[t]
  BY DEF ResultStatus, Outcomes
<1>5. s \in TaskStatuses \ {"pending"}
  BY <1>4 DEF TaskStatuses
<1>. HIDE DEF s
<1>6. /\ status' \in [Tasks -> TaskStatuses \cup {"absent"}]
      /\ \A u \in Tasks : status'[u] = "absent" <=> u \notin plan.tasks
      /\ \A u \in plan.tasks : status'[u] # "retrying"
      /\ \A u \in plan.tasks :
           status'[u] \in {"ready", "running", "succeeded", "failed"}
             => \A d \in plan.deps[u] : status'[d] = "succeeded"
      /\ Refresh(plan, status') = status'
      /\ \A u \in plan.tasks \ {t} : status'[u] \in {"pending", "ready"}
           => status[u] \in {"pending", "ready"}
      /\ status'[t] \in {"pending", "ready"} => s \in {"ready", "retrying"}
  BY <1>3, <1>5, AfterConsistent
<1>7. run \in {"running", "failed"}
  <2>1. run \in RunStatuses /\ status[t] \in Active
    BY <1>3 DEF SubmitTaskResult, CanSubmit, Active
  <2>2. run \notin {"created", "planning"}
    BY <1>3 DEF Consistent, PlanWhenPlanned, NoPlan
  <2>. QED
    BY <1>1, <1>3, <2>1, <2>2 DEF Settled, RunStatuses
<1>8. \/ run' = run /\ (run = "running" => \E u \in plan.tasks : status'[u] \in Active)
      \/ /\ run' \in {"integrating", "reviewing", "failed", "blocked"}
         /\ \A u \in plan.tasks : status'[u] \notin Active
         /\ run' \in {"integrating", "reviewing"}
              => \A u \in plan.tasks : status'[u] = "succeeded"
  BY <1>3 DEF SyncRun, Verdict
<1>9. RowsTyped'
  <2>1. worktree' \in [Tasks -> BOOLEAN] /\ commit' \in [Tasks -> BOOLEAN]
    BY <1>1 DEF RowsTyped, SubmitTaskResult
  <2>2. run' \in RunStatuses
    BY <1>7, <1>8 DEF RunStatuses
  <2>. QED
    BY <1>1, <1>3, <1>6, <2>1, <2>2 DEF RowsTyped
<1>10. PlanWhenPlanned' /\ Settled' /\ DeliversWholePlan' /\ WorkLeft'
  BY <1>3, <1>7, <1>8 DEF PlanWhenPlanned, Settled, DeliversWholePlan, WorkLeft
<1>11. NoneRetrying' /\ DependenciesFirst' /\ Refreshed'
  BY <1>3, <1>6 DEF NoneRetrying, DependenciesFirst, Refreshed
<1>12. FreshRows'
  BY <1>1, <1>3, <1>6 DEF Consistent, FreshRows, RowsTyped
<1>13. WithinBudget'
  BY <1>1, <1>3, <1>4, <1>6 DEF WithinBudget
<1>. QED
  BY <1>9, <1>10, <1>11, <1>12, <1>13 DEF Consistent

\* A cancellation leaves nothing to be done.
LEMMA CancelRunConsistent ==
  ASSUME Consistent, CancelRun
  PROVE  Consistent'
<1>1. RowsTyped /\ run' = "cancelled" /\ UNCHANGED <<delivery, plan, details>>
  BY DEF Consistent, CancelRun
<1>2. \A t \in Tasks : status'[t] = IF status[t] \in Active THEN "cancelled" ELSE status[t]
  BY DEF CancelRun
<1>3. plan.tasks \subseteq Tasks /\ \A t \in plan.tasks : plan.deps[t] \subseteq plan.tasks
  BY <1>1, PlanFacts DEF RowsTyped
<1>4. RowsTyped'
  <2>1. status' \in [Tasks -> TaskStatuses \cup {"absent"}]
        /\ \A t \in Tasks : status'[t] = "absent" <=> t \notin plan.tasks
    BY <1>1 DEF CancelRun, RowsTyped, TaskStatuses, Active
  <2>. QED
    BY <1>1, <2>1 DEF RowsTyped, RunStatuses, details
<1>5. Refreshed'
  <2>1. /\ status' = [t \in Tasks |-> status'[t]]
        /\ \A t \in Tasks : status'[t] \notin Waiting
    BY <1>2, <1>4 DEF RowsTyped, Active, Waiting
  <2>. QED
    BY <1>1, <1>3, <2>1, RefreshedIf DEF Refreshed
<1>6. DependenciesFirst'
  <2>. SUFFICES ASSUME NEW t \in plan.tasks, status'[t] \in {"ready", "running", "succeeded", "failed"},
                       NEW d \in plan.deps[t]
                PROVE  status'[d] = "succeeded"
    BY <1>1 DEF DependenciesFirst
  <2>1. status[t] \in {"succeeded", "failed"} /\ d \in Tasks
    BY <1>2, <1>3 DEF Active
  <2>2. status[d] = "succeeded"
    BY <2>1 DEF Consistent, DependenciesFirst
  <2>. QED
    BY <1>2, <2>1, <2>2 DEF Active
<1>7. \A t \in plan.tasks : status'[t] \notin Active
  BY <1>2, <1>3 DEF Active
<1>8. FreshRows' /\ NoneRetrying' /\ WithinBudget'
  BY <1>1, <1>2, <1>7
     DEF Consistent, FreshRows, NoneRetrying, WithinBudget, Active, details
<1>9. PlanWhenPlanned' /\ Settled' /\ DeliversWholePlan' /\ WorkLeft'
  BY <1>1, <1>7 DEF PlanWhenPlanned, Settled, DeliversWholePlan, WorkLeft
<1>. QED
  BY <1>4, <1>5, <1>6, <1>8, <1>9 DEF Consistent

\* A deleted run has no rows.
LEMMA DeleteRunRecordConsistent ==
  ASSUME Consistent, DeleteRunRecord
  PROVE  Consistent'
<1>. USE DEF DeleteRunRecord, Absent
<1>1. run' = "deleted" /\ plan' = NoPlan /\ plan'.tasks = {}
  BY DEF NoPlan
<1>2. RowsTyped'
  BY <1>1 DEF Consistent, RowsTyped
<1>3. Refreshed'
  <2>1. /\ status' = [t \in Tasks |-> status'[t]]
        /\ \A t \in Tasks : status'[t] \notin Waiting
    BY DEF Waiting
  <2>. QED
    BY <1>1, <2>1, RefreshedIf DEF Refreshed
<1>. QED
  BY <1>1, <1>2, <1>3
     DEF Consistent, PlanWhenPlanned, FreshRows, NoneRetrying, DependenciesFirst,
         WithinBudget, Settled, DeliversWholePlan, WorkLeft

-----------------------------------------------------------------------------
\* Each transaction keeps the inductive invariant.
LEMMA StepConsistent == Consistent /\ [Next]_vars => Consistent'
<1>. SUFFICES ASSUME Consistent, [Next]_vars PROVE Consistent'
  OBVIOUS
<1>1. CASE \E mode \in Deliveries : CreateRun(mode)
  BY <1>1, CreateRunConsistent
<1>2. CASE \E p \in Plans : SavePlan(p)
  BY <1>2, SavePlanConsistent
<1>3. CASE \E s \in RunStatuses : CallersAsk(s) /\ SetRunStatus(s)
  BY <1>3, SetRunStatusConsistent
<1>4. CASE \E e \in Executors, w \in Claimants, wanted \in Wishes : ClaimTask(e, w, wanted)
  BY <1>4, ClaimTaskConsistent
<1>5. CASE \E e \in Executors, wanted \in Wishes : ClaimNothing(e, wanted)
  BY <1>5, ClaimNothingConsistent
<1>6. CASE \E t \in Tasks, w \in Claimants, o \in Outcomes, sha, path \in BOOLEAN :
             SubmitTaskResult(t, w, o, sha, path)
  BY <1>6, SubmitTaskResultConsistent
<1>7. CASE \E t \in Tasks : SetTaskWorktree(t)
  BY <1>7, SetTaskWorktreeConsistent
<1>8. CASE CancelRun
  BY <1>8, CancelRunConsistent
<1>9. CASE DeleteRunRecord
  BY <1>9, DeleteRunRecordConsistent
<1>10. CASE UNCHANGED vars
  <2>1. worktree' \in [Tasks -> BOOLEAN] /\ commit' \in [Tasks -> BOOLEAN]
    BY <1>10 DEF Consistent, RowsTyped, vars
  <2>. QED
    BY <1>10, <2>1, DetailsConsistent DEF vars
<1>. QED
  BY <1>1, <1>2, <1>3, <1>4, <1>5, <1>6, <1>7, <1>8, <1>9, <1>10 DEF Next

\* Every reachable state of the store satisfies the inductive invariant.
THEOREM StoreConsistent == Spec => []Consistent
  BY InitConsistent, StepConsistent, PTL DEF Spec

\* TypeOK: rows have the columns the schema gives them and no task is claimed more often
\* than its max_attempts, whatever calls the store serves and however often tasks fail.
THEOREM TypeCorrect == Spec => []TypeOK
<1>1. Consistent => TypeOK
  BY DEF Consistent, TypeOK
<1>. QED
  BY StoreConsistent, <1>1, PTL

\* No task is offered, run, completed or failed before all it depends on succeeded.
THEOREM DependenciesComeFirst == Spec => []DependenciesFirst
<1>1. Consistent => DependenciesFirst
  BY DEF Consistent
<1>. QED
  BY StoreConsistent, <1>1, PTL

\* Every transaction commits a fixpoint of _refresh_ready_tasks.
THEOREM AlwaysRefreshed == Spec => []Refreshed
<1>1. Consistent => Refreshed
  BY DEF Consistent
<1>. QED
  BY StoreConsistent, <1>1, PTL

\* A run that left running for anything but failed has nothing left to do.
THEOREM SettledRuns == Spec => []Settled
<1>1. Consistent => Settled
  BY DEF Consistent
<1>. QED
  BY StoreConsistent, <1>1, PTL

\* Only a run whose whole plan succeeded is integrated, reviewed or completed.
THEOREM WholePlanDelivered == Spec => []DeliversWholePlan
<1>1. Consistent => DeliversWholePlan
  BY DEF Consistent
<1>. QED
  BY StoreConsistent, <1>1, PTL

\* What a run's status says of its tasks and what its tasks say of its status agree
\* after every transaction: _sync_run_from_tasks settles a run neither early nor late.
THEOREM RunAgrees == Spec => []RunAgreesWithTasks
<1>1. Settled /\ DeliversWholePlan => RunAgreesWithTasks
  BY DEF RunAgreesWithTasks
<1>. QED
  BY SettledRuns, WholePlanDelivered, <1>1, PTL

\* A running run has a task to claim or one being worked on, for any plan: what
\* rules a standstill out is the acyclic graph and the refresh of every transaction.
THEOREM NeverAtStandstill == Spec => []NeverStuck
<1>1. Consistent => NeverStuck
  <2>. SUFFICES ASSUME Consistent, run = "running"
                PROVE  \E t \in plan.tasks : status[t] \in {"ready", "running"}
    BY DEF NeverStuck
  <2>1. \E t \in plan.tasks : status[t] \in Active
    BY DEF Consistent, WorkLeft
  <2>2. plan \in PlanType /\ plan.tasks \subseteq Tasks /\ ValidGraph(plan)
    BY <2>1, PlanFacts DEF Consistent, RowsTyped
  <2>3. \A t \in plan.tasks : status[t] \in TaskStatuses \ {"retrying"}
    BY <2>2 DEF Consistent, RowsTyped, NoneRetrying
  <2>4. Refresh(plan, status) = status
    BY DEF Consistent, Refreshed
  <2>. QED
    BY <2>1, <2>2, <2>3, <2>4, NoCircularWait
<1>. QED
  BY StoreConsistent, <1>1, PTL

\* No transaction decides a decided task again, unless it deletes the run.
LEMMA StepKeepsDecisions == Consistent /\ [Next]_vars => KeepsDecisions \/ UNCHANGED vars
<1>. SUFFICES ASSUME Consistent, Next PROVE KeepsDecisions
  OBVIOUS
<1>. USE DEF KeepsDecisions
<1>1. plan.tasks \subseteq Tasks /\ run \in RunStatuses \cup {"none", "deleted"}
  BY PlanFacts DEF Consistent, RowsTyped
<1>2. ASSUME NEW mode \in Deliveries, CreateRun(mode) PROVE KeepsDecisions
  BY <1>2 DEF CreateRun, TerminalRun, details
<1>3. ASSUME NEW p \in Plans, SavePlan(p) PROVE KeepsDecisions
  BY <1>3 DEF SavePlan, TerminalRun
<1>4. ASSUME NEW s \in RunStatuses, SetRunStatus(s) PROVE KeepsDecisions
  BY <1>4 DEF SetRunStatus, Accepts, RunTransitions, TerminalRun, details
<1>5. ASSUME NEW e, NEW w, NEW wanted, ClaimTask(e, w, wanted) PROVE KeepsDecisions
  <2>1. PICK t \in Claimable(e, wanted) : status' = [Refresh(plan, status) EXCEPT ![t] = "running"]
    BY <1>5 DEF ClaimTask
  <2>2. Refresh(plan, status) = status /\ status[t] = "ready"
    BY <2>1 DEF Consistent, Refreshed, Claimable
  <2>3. \A u \in Tasks : status[u] \in Decided => status'[u] = status[u]
    BY <2>1, <2>2 DEF Consistent, RowsTyped, Decided
  <2>4. run' = run
    BY <1>5 DEF ClaimTask
  <2>. QED
    BY <1>1, <2>3, <2>4
<1>6. ASSUME NEW e, NEW wanted, ClaimNothing(e, wanted) PROVE KeepsDecisions
  BY <1>6 DEF ClaimNothing, Consistent, Refreshed
<1>7. ASSUME NEW t \in Tasks, NEW w, NEW o, NEW sha, NEW path,
             SubmitTaskResult(t, w, o, sha, path)
      PROVE  KeepsDecisions
  <2> DEFINE mid == [status EXCEPT ![t] = ResultStatus(t, o)]
  <2>1. status[t] = "running" /\ status' = Refresh(plan, mid) /\ run' = SyncRun(status')
    BY <1>7 DEF SubmitTaskResult, CanSubmit
  <2>2. \A u \in Tasks : status[u] \in Decided => mid[u] = status[u]
    BY <2>1 DEF Consistent, RowsTyped, Decided
  <2>. HIDE DEF mid
  <2>3. \A u \in Tasks : status[u] \in Decided => status'[u] = status[u]
    BY <2>1, <2>2, RefreshKeepsDecided DEF Decided, Waiting
  <2>4. run \in TerminalRun => run' = run
    BY <2>1 DEF SyncRun, TerminalRun
  <2>. QED
    BY <1>1, <2>3, <2>4
<1>8. ASSUME NEW t, SetTaskWorktree(t) PROVE KeepsDecisions
  BY <1>8 DEF SetTaskWorktree
<1>9. CASE CancelRun
  BY <1>1, <1>9 DEF CancelRun, Decided, Active
<1>10. CASE DeleteRunRecord
  BY <1>10 DEF DeleteRunRecord
<1>. QED
  BY <1>2, <1>3, <1>4, <1>5, <1>6, <1>7, <1>8, <1>9, <1>10 DEF Next

\* No late result, retry or cancellation changes a finished run or a decided task.
THEOREM FinalDecisions == Spec => DecisionsAreFinal
<1>1. Consistent /\ [Next]_vars => [KeepsDecisions]_vars
  BY StepKeepsDecisions
<1>. QED
  BY StoreConsistent, <1>1, PTL DEF Spec, DecisionsAreFinal

-----------------------------------------------------------------------------
(* The board as the store's rows show it *)

BoardHeld == {t \in plan.tasks : status[t] = "running"}
BoardWon  == {t \in plan.tasks : status[t] = "succeeded"}
BoardLost == {t \in plan.tasks : status[t] \in FailedDependency}

\* What the phase of the board is for each status of the run, before a step and after.
LEMMA PhaseIs ==
  /\ run \in {"none", "created", "planning"} => Phase = "draft"
  /\ run = "running" => Phase = "open"
  /\ run \in {"integrating", "reviewing"} => Phase = "delivered"
  /\ run = "completed" => Phase = "approved"
  /\ run \in {"blocked", "failed", "cancelled"} => Phase = "closed"
  /\ run = "deleted" => Phase = "gone"
  BY DEF Phase

\* The board's phase after a step, from the run's status.
LEMMA PhaseBecomes ==
  /\ run' \in {"none", "created", "planning"} => Phase' = "draft"
  /\ run' = "running" => Phase' = "open"
  /\ run' \in {"integrating", "reviewing"} => Phase' = "delivered"
  /\ run' = "completed" => Phase' = "approved"
  /\ run' \in {"blocked", "failed", "cancelled"} => Phase' = "closed"
  /\ run' = "deleted" => Phase' = "gone"
  BY DEF Phase

\* A step that leaves the run's status, the plan, the tasks' statuses and attempts as
\* they are, or only begins the planning, is none of the board's.
LEMMA RowsUnchanged ==
  ASSUME UNCHANGED <<plan, status, attempt>>, Phase' = Phase
  PROVE  UNCHANGED Board!vars
  BY DEF Board!vars

\* Where there is no run yet the board is a draft.
LEMMA InitBoard == Init => Board!Init
<1>. SUFFICES ASSUME Init PROVE Board!Init
  OBVIOUS
<1>1. Phase = "draft"
  BY PhaseIs DEF Init
<1>2. plan.tasks = {}
  BY DEF Init, NoPlan
<1>. QED
  BY <1>1, <1>2 DEF Init, Board!Init

\* A new run is a draft still.
LEMMA CreateRunOnBoard ==
  ASSUME NEW mode, CreateRun(mode)
  PROVE  UNCHANGED Board!vars
  BY PhaseIs, PhaseBecomes, RowsUnchanged DEF CreateRun, details

\* Saving a plan publishes it: none of its tasks is held, won or lost.
LEMMA SavePlanOnBoard ==
  ASSUME Consistent, NEW p \in Plans, SavePlan(p)
  PROVE  Board!Publish(p)
<1> DEFINE fresh == [t \in Tasks |-> IF t \in p.tasks THEN "pending" ELSE "absent"]
<1>1. p \in PlanType /\ ValidGraph(p) /\ p.tasks \subseteq Tasks
  BY PlansAssumption DEF PlanType
<1>2. plan.tasks = {} /\ plan' = p /\ attempt' = attempt /\ status' = Refresh(p, fresh)
  BY DEF SavePlan, details
<1>3. Doomed(p, fresh) = {}
  BY <1>1, NothingDoomedAtFirst DEF FailedDependency
<1>4. \A t \in p.tasks : status'[t] \in {"pending", "ready"}
  BY <1>1, <1>2, <1>3, RefreshCases
<1>5. Phase = "draft" /\ Phase' = "open"
  BY PhaseIs, PhaseBecomes DEF SavePlan
<1>6. BoardHeld = {} /\ BoardWon = {} /\ BoardLost = {} /\ BoardHeld' = {} /\ BoardWon' = {} /\ BoardLost' = {}
  BY <1>2, <1>4 DEF BoardHeld, BoardWon, BoardLost, FailedDependency
<1>. QED
  BY <1>2, <1>5, <1>6 DEF Board!Publish, BoardHeld, BoardWon, BoardLost

\* What the service asks of set_run_status fails the board, approves it, or is none of it.
LEMMA SetRunStatusOnBoard ==
  ASSUME NEW s \in RunStatuses, CallersAsk(s), SetRunStatus(s)
  PROVE  Board!Fail \/ Board!Approve \/ UNCHANGED Board!vars
<1>1. run \in RunStatuses /\ s \in RunTransitions[run] /\ run' = s
      /\ UNCHANGED <<plan, status, attempt>>
  BY DEF SetRunStatus, Accepts, details
<1>2. \/ run = "created" /\ s = "planning"
      \/ run \in {"created", "planning", "running", "integrating", "reviewing"} /\ s = "failed"
      \/ run = "blocked" /\ s = "failed"
      \/ run \in {"planning", "integrating", "reviewing"} /\ s = "blocked"
      \/ run = "integrating" /\ s = "reviewing"
      \/ run = "reviewing" /\ s = "completed"
  BY <1>1 DEF CallersAsk, RunStatuses, RunTransitions
<1>3. \/ Phase' = Phase
      \/ Phase \in {"draft", "open", "delivered"} /\ Phase' = "closed"
      \/ Phase = "delivered" /\ Phase' = "approved"
  BY <1>1, <1>2, PhaseIs, PhaseBecomes
<1>. QED
  BY <1>1, <1>3, RowsUnchanged DEF Board!Fail, Board!Approve

\* A claim takes a task that nobody holds, whose dependencies are won.
LEMMA ClaimTaskOnBoard ==
  ASSUME Consistent, NEW e, NEW w, NEW wanted \in Wishes, ClaimTask(e, w, wanted)
  PROVE  \E t \in Tasks : Board!Take(t)
<1>1. RowsTyped /\ DependenciesFirst /\ Refreshed /\ WithinBudget /\ run = "running"
  BY DEF Consistent, ClaimTask
<1>2. PICK t \in Claimable(e, wanted) :
        /\ status' = [Refresh(plan, status) EXCEPT ![t] = "running"]
        /\ attempt' = [attempt EXCEPT ![t] = @ + 1]
  BY DEF ClaimTask
<1>3. /\ t \in Tasks /\ t \in plan.tasks /\ status[t] = "ready"
      /\ status' = [status EXCEPT ![t] = "running"]
  BY <1>1, <1>2 DEF Claimable, Refreshed, Wishes, RowsTyped
<1>4. plan' = plan /\ plan.tasks \subseteq Tasks /\ plan.deps[t] \subseteq plan.tasks
  BY <1>1, <1>3, PlanFacts DEF RowsTyped, ClaimTask
<1>5. Phase = "open" /\ Phase' = "open"
  BY <1>1, PhaseIs, PhaseBecomes DEF ClaimTask
<1>6. BoardHeld' = BoardHeld \cup {t} /\ BoardWon' = BoardWon /\ BoardLost' = BoardLost
  BY <1>1, <1>3, <1>4 DEF RowsTyped, BoardHeld, BoardWon, BoardLost, FailedDependency
<1>7. t \notin BoardHeld \cup BoardWon \cup BoardLost
  BY <1>3 DEF BoardHeld, BoardWon, BoardLost, FailedDependency
<1>8. plan.deps[t] \subseteq BoardWon
  BY <1>1, <1>3, <1>4 DEF DependenciesFirst, BoardWon
<1>9. attempt[t] < plan.budget[t]
  BY <1>1, <1>3 DEF WithinBudget
<1>. QED
  BY <1>2, <1>3, <1>4, <1>5, <1>6, <1>7, <1>8, <1>9
     DEF Board!Take, Board!Undecided, BoardHeld, BoardWon, BoardLost

\* A claim that finds nothing shows nothing: the rows were refreshed before.
LEMMA ClaimNothingOnBoard ==
  ASSUME Consistent, NEW e, NEW wanted, ClaimNothing(e, wanted)
  PROVE  UNCHANGED Board!vars
<1>1. UNCHANGED <<run, plan, status, attempt>>
  BY DEF ClaimNothing, Consistent, Refreshed, details
<1>. QED
  BY <1>1, RowsUnchanged DEF Phase

\* The board knows of no worktrees.
LEMMA SetTaskWorktreeOnBoard ==
  ASSUME NEW t, SetTaskWorktree(t)
  PROVE  UNCHANGED Board!vars
<1>1. UNCHANGED <<run, plan, status, attempt>>
  BY DEF SetTaskWorktree
<1>. QED
  BY <1>1, RowsUnchanged DEF Phase

\* A cancellation closes the board, with every task that was not decided.
LEMMA CancelRunOnBoard ==
  ASSUME Consistent, CancelRun
  PROVE  Board!Cancel
<1>1. /\ run \in RunStatuses \ TerminalRun /\ run' = "cancelled"
      /\ UNCHANGED <<plan, attempt>> /\ RowsTyped /\ plan.tasks \subseteq Tasks
  BY PlanFacts DEF CancelRun, details, Consistent, RowsTyped
<1>2. \A t \in plan.tasks :
        /\ status'[t] = IF status[t] \in Active THEN "cancelled" ELSE status[t]
        /\ status[t] \in Active \cup FailedDependency \cup {"succeeded"}
  BY <1>1 DEF CancelRun, RowsTyped, TaskStatuses, Active, FailedDependency
<1>3. BoardHeld' = {} /\ BoardWon' = BoardWon /\ BoardLost' = plan.tasks \ BoardWon
  BY <1>1, <1>2 DEF BoardHeld, BoardWon, BoardLost, Active, FailedDependency
<1>4. Phase \in {"draft", "open", "delivered", "closed"} /\ Phase' = "closed"
  BY <1>1, PhaseIs, PhaseBecomes DEF RunStatuses, TerminalRun
<1>. QED
  BY <1>1, <1>3, <1>4 DEF Board!Cancel, BoardHeld, BoardWon, BoardLost

\* A deleted run is a board that is gone.
LEMMA DeleteRunRecordOnBoard ==
  ASSUME DeleteRunRecord
  PROVE  Board!Remove
<1>1. plan' = NoPlan /\ plan'.tasks = {} /\ attempt' = [t \in Tasks |-> 0]
  BY DEF DeleteRunRecord, NoPlan
<1>2. Phase \in {"approved", "closed"} /\ Phase' = "gone"
  BY PhaseIs, PhaseBecomes DEF DeleteRunRecord, TerminalRun
<1>. QED
  BY <1>1, <1>2 DEF Board!Remove

-----------------------------------------------------------------------------
(* A submission, which wins, loses or returns the task. *)

\* A result that is no failure dooms nobody.
LEMMA NobodyDoomed ==
  ASSUME Consistent, NEW t \in plan.tasks, status[t] = "running",
         NEW s \in {"succeeded", "retrying"}
  PROVE  Doomed(plan, [status EXCEPT ![t] = s]) = {}
<1> DEFINE mid == [status EXCEPT ![t] = s]
<1>1. RowsTyped /\ Refreshed /\ DependenciesFirst
  BY DEF Consistent
<1>2. plan \in PlanType /\ plan.tasks \subseteq Tasks
      /\ \A u \in plan.tasks : plan.deps[u] \subseteq plan.tasks
  BY <1>1, PlanFacts DEF RowsTyped
<1>3. mid[t] = s /\ \A u \in Tasks \ {t} : mid[u] = status[u]
  BY <1>1, <1>2 DEF RowsTyped
<1>4. ASSUME NEW u \in plan.tasks, mid[u] \in Waiting, NEW d \in plan.deps[u]
      PROVE  mid[d] \notin FailedDependency
  <2>1. status[d] \notin FailedDependency
    <3>1. CASE u = t
      BY <1>1, <3>1 DEF DependenciesFirst, FailedDependency
    <3>2. CASE u # t
      <4>1. status[u] \in Waiting
        BY <1>2, <1>3, <1>4, <3>2
      <4>. QED
        BY <1>1, <1>2, <4>1, RefreshedWaiting DEF Refreshed
    <3>. QED
      BY <3>1, <3>2
  <2>. QED
    BY <1>2, <1>3, <2>1 DEF FailedDependency
<1>5. ClosedUnderFailure(plan, mid, {})
  BY <1>4 DEF ClosedUnderFailure
<1>. QED
  BY <1>5 DEF Doomed

\* A failure dooms no task but those downstream of the one that failed.
LEMMA DoomedIsDownstream ==
  ASSUME Consistent, NEW t \in plan.tasks, status[t] = "running", NEW s \in FailedDependency
  PROVE  Doomed(plan, [status EXCEPT ![t] = s]) \subseteq Board!Downstream(t)
<1> DEFINE mid == [status EXCEPT ![t] = s]
<1>1. RowsTyped /\ Refreshed
  BY DEF Consistent
<1>2. plan \in PlanType /\ plan.tasks \subseteq Tasks
      /\ \A u \in plan.tasks : plan.deps[u] \subseteq plan.tasks
  BY <1>1, PlanFacts DEF RowsTyped
<1>3. mid[t] = s /\ \A u \in Tasks \ {t} : mid[u] = status[u]
  BY <1>1, <1>2 DEF RowsTyped
<1>. SUFFICES ASSUME NEW u \in Doomed(plan, mid), NEW D \in SUBSET plan.tasks, t \in D,
                     \A v \in plan.tasks : plan.deps[v] \cap D # {} => v \in D
              PROVE  u \in D
  BY DEF Board!Downstream, Doomed
<1>4. ClosedUnderFailure(plan, mid, D)
  <2>. SUFFICES ASSUME NEW v \in plan.tasks, mid[v] \in Waiting,
                       NEW d \in plan.deps[v], mid[d] \in FailedDependency \/ d \in D
                PROVE  v \in D
    BY DEF ClosedUnderFailure
  <2>1. v # t
    BY <1>3 DEF Waiting, FailedDependency
  <2>2. status[v] \in Waiting
    BY <1>2, <1>3, <2>1
  <2>3. status[d] \notin FailedDependency
    BY <1>1, <1>2, <2>2, RefreshedWaiting DEF Refreshed
  <2>4. d = t \/ d \in D
    BY <1>2, <1>3, <2>3
  <2>. QED
    BY <2>4
<1>. QED
  BY <1>4 DEF Doomed

\* With refreshed statuses all that is downstream of a failed task has failed too.
LEMMA DownstreamIsLost ==
  ASSUME plan \in PlanType, NEW st, Refresh(plan, st) = st,
         \A v \in plan.tasks : st[v] \in TaskStatuses \ {"retrying"},
         \A v \in plan.tasks : st[v] \in {"ready", "running", "succeeded", "failed"}
           => \A d \in plan.deps[v] : st[d] = "succeeded",
         NEW t \in plan.tasks, st[t] \in FailedDependency
  PROVE  Board!Downstream(t) \subseteq {v \in plan.tasks : st[v] \in FailedDependency}
<1> DEFINE D == {v \in plan.tasks : st[v] \in FailedDependency}
<1>1. ASSUME NEW v \in plan.tasks, plan.deps[v] \cap D # {}
      PROVE  v \in D
  <2>1. PICK d \in plan.deps[v] : st[d] \in FailedDependency
    BY <1>1
  <2>2. st[v] \notin {"ready", "running", "succeeded", "failed"}
    BY <2>1 DEF FailedDependency
  <2>3. st[v] \notin Waiting
    BY <2>1, RefreshedWaiting
  <2>. QED
    BY <2>2, <2>3 DEF TaskStatuses, Waiting, FailedDependency
<1>2. t \in D /\ D \in SUBSET plan.tasks
  OBVIOUS
<1>. QED
  BY <1>1, <1>2 DEF Board!Downstream

\* The last decision delivers the board or closes it, as _sync_run_from_tasks does.
LEMMA SyncCloses ==
  ASSUME Consistent, run \in {"running", "failed"}, run' = SyncRun(status'), plan' = plan,
         \A u \in plan.tasks : status'[u] \in TaskStatuses \ {"retrying"}
  PROVE  Phase' = IF Phase # "open" \/ plan.tasks \ (BoardWon' \cup BoardLost') # {} THEN Phase
                  ELSE IF BoardLost' = {} THEN "delivered" ELSE "closed"
<1>1. \A u \in plan.tasks : u \in BoardWon' \cup BoardLost' <=> status'[u] \notin Active
  BY DEF BoardWon, BoardLost, Active, TaskStatuses, FailedDependency
<1>2. CASE run = "failed"
  <2>1. run' = "failed"
    BY <1>2 DEF SyncRun
  <2>. QED
    BY <1>2, <2>1, PhaseIs, PhaseBecomes
<1>3. CASE run = "running" /\ \E u \in plan.tasks : status'[u] \in Active
  <2>1. run' = "running"
    BY <1>3 DEF SyncRun
  <2>. QED
    BY <1>1, <1>3, <2>1, PhaseIs, PhaseBecomes
<1>4. CASE run = "running" /\ \A u \in plan.tasks : status'[u] \notin Active
  <2>1. run' = Verdict(plan, status')
    BY <1>4 DEF SyncRun
  <2>2. IF \A u \in plan.tasks : status'[u] = "succeeded"
        THEN run' \in {"integrating", "reviewing"} ELSE run' \in {"failed", "blocked"}
    BY <2>1 DEF Verdict
  <2>3. BoardLost' = {} <=> \A u \in plan.tasks : status'[u] = "succeeded"
    BY <1>4 DEF BoardLost, Active, TaskStatuses, FailedDependency
  <2>. QED
    BY <1>1, <1>4, <2>2, <2>3, PhaseIs, PhaseBecomes
<1>. QED
  BY <1>2, <1>3, <1>4

\* A result wins the task, takes it back, or loses it with all downstream of it.
LEMMA SubmitTaskResultOnBoard ==
  ASSUME Consistent, Consistent', NEW t \in Tasks, NEW w, NEW o \in Outcomes,
         NEW sha, NEW path, SubmitTaskResult(t, w, o, sha, path)
  PROVE  Board!Win(t) \/ Board!Lose(t) \/ Board!Return(t)
<1> DEFINE s == ResultStatus(t, o)
<1> DEFINE mid == [status EXCEPT ![t] = s]
<1>1. RowsTyped /\ RowsTyped' /\ DependenciesFirst /\ DependenciesFirst' /\ Refreshed'
      /\ NoneRetrying' /\ Settled
  BY DEF Consistent
<1>2. /\ status[t] = "running" /\ t \in plan.tasks
      /\ status' = Refresh(plan, mid)
      /\ run' = SyncRun(status')
      /\ plan' = plan /\ attempt' = attempt
  BY <1>1 DEF SubmitTaskResult, CanSubmit, RowsTyped
<1>3. /\ s \in {"succeeded", "blocked", "retrying", "failed"}
      /\ s = "retrying" => attempt[t] < plan.budget[t]
  BY DEF ResultStatus, Outcomes
<1>4. plan \in PlanType /\ plan.tasks \subseteq Tasks
      /\ \A u \in plan.tasks : plan.deps[u] \subseteq plan.tasks
  BY <1>1, PlanFacts DEF RowsTyped
<1>. HIDE DEF s
<1>5. mid[t] = s /\ \A u \in Tasks \ {t} : mid[u] = status[u]
  BY <1>1 DEF RowsTyped
<1>6. run \in {"running", "failed"}
  <2>1. run \in RunStatuses /\ status[t] \in Active
    BY <1>2 DEF SubmitTaskResult, CanSubmit, Active
  <2>2. run \notin {"created", "planning"}
    BY <1>2 DEF Consistent, PlanWhenPlanned, NoPlan
  <2>. QED
    BY <1>1, <1>2, <2>1, <2>2 DEF Settled, RunStatuses
<1>7. \A u \in plan.tasks : status'[u] \in TaskStatuses \ {"retrying"}
  BY <1>1, <1>2, <1>4 DEF RowsTyped, NoneRetrying
<1>8. Phase' = IF Phase # "open" \/ plan.tasks \ (BoardWon' \cup BoardLost') # {} THEN Phase
               ELSE IF BoardLost' = {} THEN "delivered" ELSE "closed"
  BY <1>2, <1>6, <1>7, SyncCloses
<1>. HIDE DEF mid
<1>9. \A u \in plan.tasks :
        \/ u \in Doomed(plan, mid) /\ mid[u] \in Waiting /\ status'[u] = "blocked"
        \/ u \notin Doomed(plan, mid) /\ mid[u] \in Waiting /\ status'[u] = "ready"
        \/ u \notin Doomed(plan, mid) /\ status'[u] = mid[u]
  BY <1>2, <1>4, RefreshCases
<1>10. BoardHeld' = BoardHeld \ {t} /\ t \in BoardHeld
  BY <1>2, <1>3, <1>4, <1>5, <1>9 DEF BoardHeld, Waiting
<1>11. CASE s = "succeeded"
  <2>1. Doomed(plan, mid) = {}
    BY <1>2, <1>11, NobodyDoomed DEF mid
  <2>2. BoardWon' = BoardWon \cup {t} /\ BoardLost' = BoardLost
    BY <1>2, <1>4, <1>5, <1>9, <1>11, <2>1 DEF BoardWon, BoardLost, Waiting, FailedDependency
  <2>. QED
    BY <1>2, <1>8, <1>10, <2>2 DEF Board!Win, Board!Close, BoardHeld, BoardWon, BoardLost
<1>12. CASE s = "retrying"
  <2>1. Doomed(plan, mid) = {}
    BY <1>2, <1>12, NobodyDoomed DEF mid
  <2>2. BoardWon' = BoardWon /\ BoardLost' = BoardLost /\ status'[t] \in {"ready", "retrying"}
    BY <1>2, <1>4, <1>5, <1>9, <1>12, <2>1 DEF BoardWon, BoardLost, Waiting, FailedDependency
  <2>3. Phase' = Phase
    BY <1>2, <1>8, <2>2 DEF BoardWon, BoardLost, FailedDependency
  <2>. QED
    BY <1>2, <1>3, <1>10, <1>12, <2>2, <2>3 DEF Board!Return, BoardHeld, BoardWon, BoardLost
<1>13. CASE s \in {"failed", "blocked"}
  <2>1. Doomed(plan, mid) \subseteq Board!Downstream(t)
    BY <1>2, <1>13, DoomedIsDownstream DEF mid, FailedDependency
  <2>2. BoardWon' = BoardWon
    BY <1>2, <1>4, <1>5, <1>9, <1>13 DEF BoardWon, Waiting
  <2>3. BoardLost' \subseteq BoardLost \cup Board!Downstream(t)
    <3>1. t \in Board!Downstream(t)
      BY <1>2 DEF Board!Downstream
    <3>. QED
      BY <1>2, <1>4, <1>5, <1>9, <2>1, <3>1 DEF BoardLost, Waiting, FailedDependency
  <2>4. BoardLost \subseteq BoardLost'
    BY <1>2, <1>4, <1>5, <1>9 DEF BoardLost, Waiting, FailedDependency
  <2>5. Board!Downstream(t) \subseteq BoardLost'
    <3>1. status'[t] \in FailedDependency
      BY <1>2, <1>5, <1>9, <1>13 DEF FailedDependency, Waiting
    <3>2. \A v \in plan.tasks : status'[v] \in {"ready", "running", "succeeded", "failed"}
            => \A d \in plan.deps[v] : status'[d] = "succeeded"
      BY <1>1, <1>2 DEF DependenciesFirst
    <3>3. Refresh(plan, status') = status'
      BY <1>1, <1>2 DEF Refreshed
    <3>. QED
      BY <1>2, <1>4, <1>7, <3>1, <3>2, <3>3, DownstreamIsLost DEF BoardLost
  <2>6. BoardLost' = BoardLost \cup Board!Downstream(t)
    BY <2>3, <2>4, <2>5
  <2>. QED
    BY <1>2, <1>8, <1>10, <2>2, <2>6 DEF Board!Lose, Board!Close, BoardHeld, BoardWon, BoardLost
<1>. QED
  BY <1>3, <1>11, <1>12, <1>13

-----------------------------------------------------------------------------
\* Every transaction of a consistent store is one step of the board or leaves it.
LEMMA StepOnBoard == Consistent /\ Consistent' /\ [Next]_vars => [Board!Next]_(Board!vars)
<1>. SUFFICES ASSUME Consistent, Consistent', [Next]_vars
              PROVE  Board!Next \/ UNCHANGED Board!vars
  OBVIOUS
<1>1. CASE \E mode \in Deliveries : CreateRun(mode)
  BY <1>1, CreateRunOnBoard
<1>2. CASE \E p \in Plans : SavePlan(p)
  BY <1>2, SavePlanOnBoard DEF Board!Next
<1>3. CASE \E s \in RunStatuses : CallersAsk(s) /\ SetRunStatus(s)
  BY <1>3, SetRunStatusOnBoard DEF Board!Next
<1>4. CASE \E e \in Executors, w \in Claimants, wanted \in Wishes : ClaimTask(e, w, wanted)
  BY <1>4, ClaimTaskOnBoard DEF Board!Next
<1>5. CASE \E e \in Executors, wanted \in Wishes : ClaimNothing(e, wanted)
  BY <1>5, ClaimNothingOnBoard
<1>6. CASE \E t \in Tasks, w \in Claimants, o \in Outcomes, sha, path \in BOOLEAN :
             SubmitTaskResult(t, w, o, sha, path)
  BY <1>6, SubmitTaskResultOnBoard DEF Board!Next
<1>7. CASE \E t \in Tasks : SetTaskWorktree(t)
  BY <1>7, SetTaskWorktreeOnBoard
<1>8. CASE CancelRun
  BY <1>8, CancelRunOnBoard DEF Board!Next
<1>9. CASE DeleteRunRecord
  BY <1>9, DeleteRunRecordOnBoard DEF Board!Next
<1>10. CASE UNCHANGED vars
  <2>1. UNCHANGED <<run, plan, status, attempt>>
    BY <1>10 DEF vars
  <2>. QED
    BY <2>1, RowsUnchanged DEF Phase
<1>. QED
  BY <1>1, <1>2, <1>3, <1>4, <1>5, <1>6, <1>7, <1>8, <1>9, <1>10 DEF Next

\* For any plan, workers and order of calls the store is a board: it hands tasks out in
\* dependency order, a failure takes exactly its dependents with it, and the last
\* decision delivers or closes the run.
THEOREM StoreImplementsBoard == Spec => ImplementsBoard
<1>1. Init => Board!Init
  BY InitBoard
<1>2. Consistent /\ Consistent' /\ [Next]_vars => [Board!Next]_(Board!vars)
  BY StepOnBoard
<1>. QED
  BY <1>1, <1>2, StoreConsistent, PTL DEF Spec, Board!Spec, ImplementsBoard
=============================================================================
