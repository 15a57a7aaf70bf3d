---------------------------- MODULE PlanningProofs ----------------------------
(***************************************************************************)
(* The validators of a plan accept exactly the valid graphs, in an order   *)
(* that respects them, and the sweeps of _refresh_ready_tasks end in the   *)
(* least fixpoint that module TaskGraph states: for answers of any length  *)
(* and any statuses.                                                       *)
(***************************************************************************)
EXTENDS RefreshLoop, FiniteSetTheorems, TLAPS

-----------------------------------------------------------------------------
(* The inductive invariant of the sort *)

Taken == {ordered[i] : i \in DOMAIN ordered}

ValidationTypeOK ==
  /\ ids \subseteq Tasks /\ IsFiniteSet(ids)
  /\ deps \in [ids -> SUBSET (ids \cup {Unknown})]
  /\ left \in [ids -> SUBSET (ids \cup {Unknown})]
  /\ ordered \in Seq(ids)
  /\ verdict \in {"checking", "sorting", "accepted", "rejected"}

\* Each task is taken once, and what was not taken yet is what is left of the
\* dependencies of the others.
Removed ==
  /\ Len(ordered) = Cardinality(Taken)
  /\ \A t \in ids : left[t] = deps[t] \ Taken
  /\ verdict = "sorting" => ready = {t \in ids \ Taken : deps[t] \subseteq Taken}

\* A task was taken after all it depends on, so whatever set of tasks it is in, one of
\* them, the first that was taken, depends on none of the others.
Sorted ==
  /\ \A i, j \in DOMAIN ordered : ordered[i] \in deps[ordered[j]] => i < j
  /\ \A t \in Taken : deps[t] \subseteq Taken
  /\ \A S \in SUBSET ids : S \cap Taken # {} => \E t \in S : deps[t] \cap S = {}

\* What became of an answer; one that was sorted had nothing to refuse.
Judged ==
  /\ verdict = "checking" => ordered = <<>>
  /\ verdict \in {"sorting", "accepted"} => ~Refused
  /\ verdict = "accepted" => Taken = ids
  /\ verdict = "rejected" => Refused \/ (Taken # ids /\ \A t \in ids \ Taken : ~ deps[t] \subseteq Taken)

SortConsistent == ValidationTypeOK /\ Removed /\ Sorted /\ Judged

-----------------------------------------------------------------------------
(* The sort, step by step *)

\* Before the sort nothing was taken.
LEMMA SortBegins == Init => SortConsistent
<1>. SUFFICES ASSUME Init PROVE SortConsistent
  OBVIOUS
<1>1. /\ deps \in Answers /\ ids = DOMAIN deps /\ left = deps
      /\ ready = {} /\ ordered = <<>> /\ verdict = "checking"
  BY DEF Init, InitValidation
<1>2. /\ ids \subseteq Tasks /\ IsFiniteSet(ids)
      /\ deps \in [ids -> SUBSET (ids \cup {Unknown})]
  BY <1>1, AnswersAssumption
<1>3. Taken = {} /\ Len(ordered) = 0
  BY <1>1 DEF Taken
<1>4. ValidationTypeOK
  BY <1>1, <1>2 DEF ValidationTypeOK
<1>5. Removed
  BY <1>1, <1>2, <1>3, FS_EmptySet DEF Removed
<1>6. Sorted /\ Judged
  BY <1>1, <1>3 DEF Sorted, Judged
<1>. QED
  BY <1>4, <1>5, <1>6 DEF SortConsistent

\* One more task at the end of the order.
LEMMA TakenGrows ==
  ASSUME ValidationTypeOK, NEW t \in ids, ordered' = Append(ordered, t)
  PROVE  /\ Len(ordered) \in Nat /\ DOMAIN ordered = 1..Len(ordered)
         /\ \A i \in DOMAIN ordered : ordered[i] \in ids
         /\ ordered' \in Seq(ids)
         /\ Len(ordered') = Len(ordered) + 1 /\ DOMAIN ordered' = 1..(Len(ordered) + 1)
         /\ \A i \in 1..Len(ordered) : ordered'[i] = ordered[i]
         /\ ordered'[Len(ordered) + 1] = t
         /\ Taken \subseteq ids /\ Taken' = Taken \cup {t}
<1>1. ordered \in Seq(ids)
  BY DEF ValidationTypeOK
<1>2. /\ Len(ordered) \in Nat /\ DOMAIN ordered = 1..Len(ordered)
      /\ \A i \in DOMAIN ordered : ordered[i] \in ids
      /\ ordered' \in Seq(ids)
      /\ Len(ordered') = Len(ordered) + 1 /\ DOMAIN ordered' = 1..(Len(ordered) + 1)
      /\ \A i \in 1..Len(ordered) : ordered'[i] = ordered[i]
      /\ ordered'[Len(ordered) + 1] = t
  BY <1>1
<1>3. Taken' = {ordered'[i] : i \in 1..(Len(ordered) + 1)}
  BY <1>2 DEF Taken
<1>4. 1..(Len(ordered) + 1) = 1..Len(ordered) \cup {Len(ordered) + 1}
  BY <1>2
<1>. QED
  BY <1>2, <1>3, <1>4 DEF Taken

\* Taking the first task that waits for nothing keeps the order.
LEMMA TakeConsistent ==
  ASSUME SortConsistent, TakeFirst
  PROVE  SortConsistent'
<1>1. /\ verdict = "sorting" /\ UNCHANGED <<ids, deps, verdict>>
      /\ ValidationTypeOK /\ Removed /\ Sorted /\ Judged
  BY DEF TakeFirst, SortConsistent
<1>2. PICK t \in ready :
        /\ left' = [u \in ids |-> left[u] \ {t}]
        /\ ready' = (ready \ {t}) \cup NewlyReady(t)
        /\ ordered' = Append(ordered, t)
  BY DEF TakeFirst
<1>3. /\ ready = {u \in ids \ Taken : deps[u] \subseteq Taken}
      /\ t \in ids /\ t \notin Taken /\ deps[t] \subseteq Taken
  BY <1>1, <1>2 DEF Removed
<1>4. /\ Len(ordered) \in Nat /\ DOMAIN ordered = 1..Len(ordered)
      /\ \A i \in DOMAIN ordered : ordered[i] \in ids
      /\ ordered' \in Seq(ids)
      /\ Len(ordered') = Len(ordered) + 1 /\ DOMAIN ordered' = 1..(Len(ordered) + 1)
      /\ \A i \in 1..Len(ordered) : ordered'[i] = ordered[i]
      /\ ordered'[Len(ordered) + 1] = t
      /\ Taken \subseteq ids /\ Taken' = Taken \cup {t}
  BY <1>1, <1>2, <1>3, TakenGrows
<1>5. ValidationTypeOK'
  BY <1>1, <1>2, <1>4 DEF ValidationTypeOK
<1>6. Removed'
  <2>1. IsFiniteSet(Taken)
    BY <1>1, <1>4, FS_Subset DEF ValidationTypeOK
  <2>2. Cardinality(Taken') = Cardinality(Taken) + 1
    BY <1>3, <1>4, <2>1, FS_AddElement
  <2>3. \A u \in ids : left'[u] = deps[u] \ Taken'
    BY <1>1, <1>2, <1>4 DEF Removed
  <2>4. NewlyReady(t) = {u \in ids : t \in deps[u] /\ deps[u] \subseteq Taken \cup {t}}
    BY <1>1, <1>3 DEF NewlyReady, Removed
  <2>5. \A u \in Taken : t \notin deps[u]
    BY <1>1, <1>3 DEF Sorted
  <2>6. t \notin deps[t]
    BY <1>3
  <2>7. ready' = {u \in ids \ Taken' : deps[u] \subseteq Taken'}
    BY <1>2, <1>3, <1>4, <2>4, <2>5, <2>6
  <2>. QED
    BY <1>1, <1>4, <2>2, <2>3, <2>7 DEF Removed
<1>7. Sorted'
  <2>1. \A i, j \in DOMAIN ordered' : ordered'[i] \in deps[ordered'[j]] => i < j
    <3>. SUFFICES ASSUME NEW i \in 1..(Len(ordered) + 1), NEW j \in 1..(Len(ordered) + 1),
                         ordered'[i] \in deps[ordered'[j]]
                  PROVE  i < j
      BY <1>4
    <3>1. CASE i \in 1..Len(ordered) /\ j \in 1..Len(ordered)
      BY <1>1, <1>4, <3>1 DEF Sorted
    <3>2. CASE i \in 1..Len(ordered) /\ j = Len(ordered) + 1
      BY <1>4, <3>2
    <3>3. CASE i = Len(ordered) + 1 /\ j \in 1..Len(ordered)
      <4>1. ordered[j] \in Taken /\ t \in deps[ordered[j]]
        BY <1>4, <3>3 DEF Taken
      <4>. QED
        BY <1>1, <1>3, <4>1 DEF Sorted
    <3>4. CASE i = Len(ordered) + 1 /\ j = Len(ordered) + 1
      BY <1>3, <1>4, <3>4
    <3>. QED
      BY <1>4, <3>1, <3>2, <3>3, <3>4
  <2>2. \A u \in Taken' : deps[u] \subseteq Taken'
    BY <1>1, <1>3, <1>4 DEF Sorted
  <2>3. ASSUME NEW S \in SUBSET ids, S \cap Taken' # {}
        PROVE  \E u \in S : deps[u] \cap S = {}
    <3>1. CASE S \cap Taken # {}
      BY <1>1, <3>1 DEF Sorted
    <3>2. CASE S \cap Taken = {}
      BY <1>3, <1>4, <2>3, <3>2
    <3>. QED
      BY <3>1, <3>2
  <2>. QED
    BY <1>1, <2>1, <2>2, <2>3 DEF Sorted
<1>8. Judged'
  BY <1>1 DEF Judged, Refused
<1>. QED
  BY <1>5, <1>6, <1>7, <1>8 DEF SortConsistent

\* As many tasks were taken as there are exactly when all were.
LEMMA AllTaken ==
  ASSUME SortConsistent
  PROVE  Len(ordered) = Cardinality(ids) <=> Taken = ids
<1>1. /\ IsFiniteSet(ids) /\ Len(ordered) = Cardinality(Taken)
      /\ ordered \in Seq(ids)
  BY DEF SortConsistent, ValidationTypeOK, Removed
<1>2. Taken \in SUBSET ids
  BY <1>1 DEF Taken
<1>. QED
  BY <1>1, <1>2, FS_Subset

\* Each step of the validation keeps the invariant.
LEMMA SortStep == SortConsistent /\ [Next]_vars => SortConsistent'
<1>. SUFFICES ASSUME SortConsistent, [Next]_vars PROVE SortConsistent'
  OBVIOUS
<1>1. CASE Refuse
  BY <1>1 DEF Refuse, SortConsistent, ValidationTypeOK, Removed, Sorted, Judged, Taken, Refused
<1>2. CASE StartSort
  <2>1. /\ verdict = "checking" /\ verdict' = "sorting" /\ ~Refused
        /\ ready' = {t \in ids : deps[t] = {}}
        /\ UNCHANGED <<ids, deps, left, ordered>> /\ ordered = <<>>
    BY <1>2 DEF StartSort, SortConsistent, Judged
  <2>2. Taken = {} /\ Taken' = {}
    BY <2>1 DEF Taken
  <2>3. ready' = {t \in ids \ Taken : deps[t] \subseteq Taken}
    BY <2>1, <2>2
  <2>4. ValidationTypeOK' /\ Removed'
    BY <2>1, <2>2, <2>3 DEF SortConsistent, ValidationTypeOK, Removed
  <2>5. Sorted' /\ Judged'
    BY <2>1, <2>2 DEF SortConsistent, Sorted, Judged, Refused
  <2>. QED
    BY <2>4, <2>5 DEF SortConsistent
<1>3. CASE TakeFirst
  BY <1>3, TakeConsistent
<1>4. CASE EndSort
  <2>1. /\ verdict = "sorting" /\ ready = {}
        /\ verdict' = IF Taken = ids THEN "accepted" ELSE "rejected"
        /\ UNCHANGED <<ids, deps, left, ready, ordered>> /\ UNCHANGED <<Taken, Refused>>
    BY <1>4, AllTaken DEF EndSort, Taken, Refused
  <2>2. \A t \in ids \ Taken : ~ deps[t] \subseteq Taken
    BY <2>1 DEF SortConsistent, Removed
  <2>3. ValidationTypeOK' /\ Removed' /\ Sorted'
    BY <2>1 DEF SortConsistent, ValidationTypeOK, Removed, Sorted
  <2>4. Judged'
    BY <2>1, <2>2 DEF SortConsistent, Judged
  <2>. QED
    BY <2>3, <2>4 DEF SortConsistent
<1>5. CASE UNCHANGED validationVars
  BY <1>5 DEF validationVars, SortConsistent, ValidationTypeOK, Removed, Sorted, Judged, Taken, Refused
<1>. QED
  BY <1>1, <1>2, <1>3, <1>4, <1>5 DEF Next, Validate, vars

\* The order that was found shows that there is no cycle; where the sort stopped, the
\* tasks that remain are one.
LEMMA SortDecides == SortConsistent => AcceptsExactlyValidGraphs
<1>. SUFFICES ASSUME SortConsistent PROVE AcceptsExactlyValidGraphs
  OBVIOUS
<1>1. /\ ids \subseteq Tasks /\ deps \in [ids -> SUBSET (ids \cup {Unknown})] /\ Unknown \notin ids
      /\ Sorted /\ Judged
  BY UnknownAssumption DEF SortConsistent, ValidationTypeOK
<1>2. /\ Answer.tasks = ids
      /\ \A t \in Tasks : Answer.deps[t] = IF t \in ids THEN deps[t] ELSE {}
  BY DEF Answer
<1>3. ASSUME verdict = "accepted"
      PROVE  ValidGraph(Answer) /\ OrderRespectsDependencies
  <2>1. ~Refused /\ Taken = ids
    BY <1>1, <1>3 DEF Judged
  <2>2. ids # {} /\ \A t \in ids : deps[t] \subseteq ids
    BY <2>1 DEF Refused
  <2>3. \A S \in SUBSET ids : S # {} => \E t \in S : deps[t] \cap S = {}
    BY <1>1, <2>1 DEF Sorted
  <2>4. ValidGraph(Answer)
    <3>1. \A t \in Tasks : Answer.deps[t] \subseteq IF t \in Answer.tasks THEN Answer.tasks ELSE {}
      BY <1>2, <2>2
    <3>2. \A S \in SUBSET Answer.tasks : S # {} => \E t \in S : Answer.deps[t] \cap S = {}
      BY <1>1, <1>2, <2>3
    <3>. QED
      BY <1>2, <2>2, <3>1, <3>2 DEF ValidGraph
  <2>5. OrderRespectsDependencies
    BY <1>1, <2>1 DEF OrderRespectsDependencies, Sorted, Taken
  <2>. QED
    BY <2>4, <2>5
<1>4. ASSUME verdict = "rejected"
      PROVE  ~ValidGraph(Answer)
  <2>1. CASE ids = {}
    BY <1>2, <2>1 DEF ValidGraph
  <2>2. ASSUME NEW t \in ids, ~ deps[t] \subseteq ids
        PROVE  ~ValidGraph(Answer)
    BY <1>1, <1>2, <2>2 DEF ValidGraph
  <2>3. ASSUME NEW t \in ids, t \in deps[t]
        PROVE  ~ValidGraph(Answer)
    <3>1. {t} \in SUBSET Answer.tasks /\ {t} # {} /\ \A u \in {t} : Answer.deps[u] \cap {t} # {}
      BY <1>1, <1>2, <2>3
    <3>. QED
      BY <3>1 DEF ValidGraph
  <2>4. ASSUME Taken # ids, \A t \in ids \ Taken : ~ deps[t] \subseteq Taken,
               \A t \in ids : deps[t] \subseteq ids
        PROVE  ~ValidGraph(Answer)
    <3>1. PICK S : S = ids \ Taken
      OBVIOUS
    <3>2. Taken \subseteq ids
      BY DEF SortConsistent, ValidationTypeOK, Taken
    <3>3. S # {} /\ S \in SUBSET Answer.tasks
      BY <1>2, <2>4, <3>1, <3>2
    <3>4. \A t \in S : Answer.deps[t] \cap S # {}
      BY <1>1, <1>2, <2>4, <3>1
    <3>. QED
      BY <3>3, <3>4 DEF ValidGraph
  <2>. QED
    BY <1>1, <1>4, <2>1, <2>2, <2>3, <2>4 DEF Judged, Refused
<1>. QED
  BY <1>3, <1>4 DEF AcceptsExactlyValidGraphs

\* AcceptsExactlyValidGraphs: whatever the planner answers, RunPlan's validators accept
\* it exactly when its graph is nonempty, closed and without a cycle, and the order they
\* find lists every task after what it depends on.
THEOREM ValidationIsExact == Spec => []AcceptsExactlyValidGraphs
<1>1. Spec => []SortConsistent
  BY SortBegins, SortStep, PTL DEF Spec
<1>. QED
  BY <1>1, SortDecides, PTL

-----------------------------------------------------------------------------
(* The inductive invariant of the sweeps *)

\* A status that a transaction enters the loop with.
RowStatuses == TaskStatuses \cup {"absent"}
Offered(t) == start[t] \in Waiting /\ statuses[t] = "ready"
Given(t) == start[t] \in Waiting /\ statuses[t] = "blocked"

LoopTypeOK ==
  /\ plan.tasks \subseteq Tasks
  /\ \A t \in Tasks : plan.deps[t] \subseteq Tasks
  /\ start \in [Tasks -> RowStatuses] /\ statuses \in [Tasks -> RowStatuses]
  /\ \A t \in Tasks : start[t] \in Waiting => t \in plan.tasks
  /\ visit \subseteq plan.tasks /\ (loop # "sweeping" => visit = {})
  /\ changed \in BOOLEAN
  /\ loop \in {"before", "sweeping", "left"}

\* What the sweeps have changed so far: a waiting task is blocked only where every set
\* closed under failure has it, and is ready only when all it depends on succeeded at
\* the start, since a success is nothing the loop makes.
Progress ==
  /\ \A t \in Tasks : statuses[t] = start[t] \/ Offered(t) \/ Given(t)
  /\ \A t \in Tasks : Given(t) => t \in Doomed(plan, start)
  /\ \A t \in Tasks : Offered(t) => \A d \in plan.deps[t] : start[d] = "succeeded"

\* A sweep that has changed nothing found nothing to change where it has been.
Stable(t) == Moved(t) = statuses[t]
NothingMissed ==
  /\ loop = "sweeping" /\ ~changed => \A t \in plan.tasks \ visit : Stable(t)
  /\ loop = "left" => \A t \in plan.tasks : Stable(t)

SweepConsistent == LoopTypeOK /\ (loop # "before" => Progress /\ NothingMissed)

-----------------------------------------------------------------------------
(* The sweeps, step by step *)

\* Every plan of the loop has statuses for its tasks, and waiting ones for no others.
LEMMA InputsAre ==
  ASSUME NEW p, p.tasks \subseteq Tasks, NEW st \in Inputs(p)
  PROVE  /\ st \in [Tasks -> RowStatuses]
         /\ \A t \in Tasks : st[t] \in Waiting => t \in p.tasks
<1>1. CASE st = [t \in Tasks |-> IF t \in p.tasks THEN "pending" ELSE "absent"]
  BY <1>1 DEF RowStatuses, TaskStatuses, Waiting
<1>2. \A c \in Committed(p) :
        /\ c \in [Tasks -> RowStatuses]
        /\ \A t \in Tasks : t \notin p.tasks => c[t] = "absent"
  BY DEF Committed, RowStatuses, TaskStatuses
<1>3. CASE st \in Committed(p)
  BY <1>2, <1>3 DEF Waiting
<1>4. ASSUME NEW c \in Committed(p), st \in Results(p, c)
      PROVE  /\ st \in [Tasks -> RowStatuses]
             /\ \A t \in Tasks : st[t] \in Waiting => t \in p.tasks
  <2>1. PICK t \in p.tasks, result \in {"succeeded", "failed", "blocked", "retrying"} :
          st = [c EXCEPT ![t] = result]
    BY <1>4 DEF Results
  <2>. QED
    BY <1>2, <2>1 DEF RowStatuses, TaskStatuses, Waiting
<1>. QED
  BY <1>1, <1>3, <1>4 DEF Inputs

\* A transaction enters the loop with nothing changed.
LEMMA EnterConsistent ==
  ASSUME SortConsistent, SweepConsistent, Enter, UNCHANGED validationVars
  PROVE  SweepConsistent'
<1>1. /\ loop = "before" /\ loop' = "sweeping" /\ UNCHANGED changed
      /\ plan' = [NoPlan EXCEPT !.tasks = ids, !.deps = Answer.deps]
      /\ start' \in Inputs(plan') /\ statuses' = start' /\ visit' = ids
      /\ verdict = "accepted"
  BY DEF Enter
<1>2. /\ ids \subseteq Tasks /\ deps \in [ids -> SUBSET (ids \cup {Unknown})]
      /\ \A t \in ids : deps[t] \subseteq ids
  BY <1>1 DEF SortConsistent, ValidationTypeOK, Judged, Refused
<1>3. plan'.tasks = ids /\ plan'.deps = [t \in Tasks |-> IF t \in ids THEN deps[t] ELSE {}]
  BY <1>1 DEF NoPlan, Answer
<1>4. /\ plan'.tasks \subseteq Tasks /\ \A t \in Tasks : plan'.deps[t] \subseteq Tasks
  BY <1>2, <1>3
<1>5. /\ start' \in [Tasks -> RowStatuses]
      /\ \A t \in Tasks : start'[t] \in Waiting => t \in plan'.tasks
  BY <1>1, <1>4, InputsAre
<1>6. LoopTypeOK'
  BY <1>1, <1>3, <1>4, <1>5 DEF SweepConsistent, LoopTypeOK
<1>7. Progress'
  BY <1>1 DEF Progress, Offered, Given, Waiting
<1>8. NothingMissed'
  BY <1>1, <1>3 DEF NothingMissed
<1>. QED
  BY <1>6, <1>7, <1>8 DEF SweepConsistent

\* What a task moves to follows from the start: its dependencies that failed did so at
\* the start or were doomed, and those that succeeded had before.
LEMMA MovedIs ==
  ASSUME LoopTypeOK, Progress, NEW t \in Tasks
  PROVE  /\ Moved(t) \in RowStatuses
         /\ Moved(t) # statuses[t] =>
              /\ statuses[t] = start[t] /\ start[t] \in Waiting /\ t \in plan.tasks
              /\ \/ Moved(t) = "blocked" /\ t \in Doomed(plan, start)
                 \/ Moved(t) = "ready" /\ \A d \in plan.deps[t] : start[d] = "succeeded"
<1>1. /\ statuses[t] \in RowStatuses /\ start[t] \in RowStatuses
      /\ start[t] \in Waiting => t \in plan.tasks
      /\ plan.deps[t] \subseteq Tasks
  BY DEF LoopTypeOK
<1>2. "ready" \notin Waiting /\ "blocked" \notin Waiting /\ "succeeded" \notin Waiting
      /\ "ready" \notin FailedDependency /\ "blocked" \in FailedDependency
      /\ {"ready", "blocked"} \subseteq RowStatuses
  BY DEF Waiting, FailedDependency, RowStatuses, TaskStatuses
<1>3. statuses[t] \in Waiting => statuses[t] = start[t]
  BY <1>2 DEF Progress, Offered, Given
<1>4. CASE statuses[t] \notin Waiting
  BY <1>1, <1>4 DEF Moved
<1>5. CASE statuses[t] \in Waiting /\ \E d \in plan.deps[t] : statuses[d] \in FailedDependency
  <2>1. Moved(t) = "blocked"
    BY <1>5 DEF Moved
  <2>2. PICK d \in plan.deps[t] : statuses[d] \in FailedDependency
    BY <1>5
  <2>3. start[d] \in FailedDependency \/ d \in Doomed(plan, start)
    BY <1>1, <1>2, <2>2 DEF Progress, Offered, Given
  <2>4. t \in Doomed(plan, start)
    BY <1>1, <1>3, <1>5, <2>2, <2>3 DEF Doomed, ClosedUnderFailure
  <2>. QED
    BY <1>1, <1>2, <1>3, <1>5, <2>1, <2>4
<1>6. CASE /\ statuses[t] \in Waiting
           /\ \A d \in plan.deps[t] : statuses[d] \notin FailedDependency
  <2>1. Moved(t) = IF \A d \in plan.deps[t] : statuses[d] = "succeeded" THEN "ready" ELSE statuses[t]
    <3>1. {statuses[d] : d \in plan.deps[t]} \cap FailedDependency = {}
      BY <1>6
    <3>2. {statuses[d] : d \in plan.deps[t]} \subseteq {"succeeded"}
            <=> \A d \in plan.deps[t] : statuses[d] = "succeeded"
      OBVIOUS
    <3>. QED
      BY <1>6, <3>1, <3>2 DEF Moved
  <2>2. \A d \in plan.deps[t] : statuses[d] = "succeeded" => start[d] = "succeeded"
    BY <1>1 DEF Progress, Offered, Given
  <2>. QED
    BY <1>1, <1>2, <1>3, <1>6, <2>1, <2>2
<1>. QED
  BY <1>4, <1>5, <1>6

\* A visit that changes a status shows that the sweep was not the last one.
LEMMA VisitConsistent ==
  ASSUME SweepConsistent, NEW t \in Tasks, Visit(t), loop # "before"
  PROVE  SweepConsistent'
<1>1. /\ t \in visit /\ visit' = visit \ {t}
      /\ statuses' = [statuses EXCEPT ![t] = Moved(t)]
      /\ changed' = (changed \/ Moved(t) # statuses[t])
      /\ UNCHANGED <<plan, start, loop>>
      /\ LoopTypeOK /\ Progress /\ NothingMissed
  BY DEF Visit, SweepConsistent
<1>2. /\ Moved(t) \in RowStatuses
      /\ Moved(t) # statuses[t] =>
           /\ statuses[t] = start[t] /\ start[t] \in Waiting /\ t \in plan.tasks
           /\ \/ Moved(t) = "blocked" /\ t \in Doomed(plan, start)
              \/ Moved(t) = "ready" /\ \A d \in plan.deps[t] : start[d] = "succeeded"
  BY <1>1, MovedIs
<1>3. statuses \in [Tasks -> RowStatuses] /\ changed \in BOOLEAN
  BY <1>1 DEF LoopTypeOK
<1>4. LoopTypeOK'
  BY <1>1, <1>2 DEF LoopTypeOK
<1>5. Progress'
  <2>1. PICK to : to = Moved(t)
    OBVIOUS
  <2>2. \A u \in Tasks : statuses'[u] = IF u = t THEN to ELSE statuses[u]
    BY <1>1, <1>3, <2>1
  <2>. QED
    BY <1>1, <1>2, <2>1, <2>2 DEF Progress, Offered, Given
<1>6. NothingMissed'
  <2>1. CASE Moved(t) # statuses[t]
    <3>1. changed' /\ loop # "left"
      BY <1>1, <1>2, <2>1 DEF NothingMissed, Stable
    <3>. QED
      BY <1>1, <3>1 DEF NothingMissed
  <2>2. CASE Moved(t) = statuses[t]
    <3>1. statuses' = statuses /\ changed' = changed
      BY <1>1, <1>3, <2>2
    <3>2. \A u : Stable(u)' <=> Stable(u)
      BY <1>1, <3>1 DEF Stable, Moved
    <3>3. Stable(t)
      BY <2>2 DEF Stable
    <3>. QED
      BY <1>1, <3>1, <3>2, <3>3 DEF NothingMissed
  <2>. QED
    BY <2>1, <2>2
<1>. QED
  BY <1>4, <1>5, <1>6 DEF SweepConsistent

\* Each step of the loop keeps the invariant.
LEMMA SweepStep == SortConsistent /\ SweepConsistent /\ [Next]_vars => SweepConsistent'
<1>. SUFFICES ASSUME SortConsistent, SweepConsistent, [Next]_vars PROVE SweepConsistent'
  OBVIOUS
<1>1. CASE UNCHANGED loopVars
  BY <1>1 DEF loopVars, SweepConsistent, LoopTypeOK, Progress, NothingMissed, Stable, Moved,
              Offered, Given
<1>2. CASE Enter /\ UNCHANGED validationVars
  BY <1>2, EnterConsistent
<1>3. ASSUME NEW t \in Tasks, Visit(t)
      PROVE  SweepConsistent'
  <2>1. loop # "before"
    BY <1>3 DEF Visit, SweepConsistent, LoopTypeOK
  <2>. QED
    BY <1>3, <2>1, VisitConsistent
<1>4. CASE SweepAgain
  BY <1>4 DEF SweepAgain, SweepConsistent, LoopTypeOK, Progress, NothingMissed, Stable, Moved,
              Offered, Given
<1>5. CASE Leave
  BY <1>5 DEF Leave, SweepConsistent, LoopTypeOK, Progress, NothingMissed, Stable, Moved,
              Offered, Given
<1>. QED
  BY <1>1, <1>2, <1>3, <1>4, <1>5 DEF Next, Sweep, vars

\* Where every task is stable, those that were blocked are closed under failure, so they
\* are the doomed ones, and whatever could be offered was.
LEMMA StableIsFixpoint ==
  ASSUME LoopTypeOK, Progress, \A t \in plan.tasks : Stable(t)
  PROVE  statuses = Refresh(plan, start)
<1>. DEFINE Blocked == {t \in plan.tasks : Given(t)}
<1>1. /\ plan.tasks \subseteq Tasks /\ \A t \in Tasks : plan.deps[t] \subseteq Tasks
      /\ statuses \in [Tasks -> RowStatuses]
      /\ \A t \in Tasks : start[t] \in Waiting => t \in plan.tasks
  BY DEF LoopTypeOK
<1>2. ASSUME NEW t \in plan.tasks, statuses[t] \in Waiting
      PROVE  /\ \A d \in plan.deps[t] : statuses[d] \notin FailedDependency
             /\ \E d \in plan.deps[t] : statuses[d] # "succeeded"
  <2>1. Moved(t) = statuses[t]
    BY DEF Stable
  <2>2. statuses[t] # "blocked" /\ statuses[t] # "ready"
    BY <1>2 DEF Waiting
  <2>3. \A d \in plan.deps[t] : statuses[d] \notin FailedDependency
    BY <1>2, <2>1, <2>2 DEF Moved
  <2>4. ~ {statuses[d] : d \in plan.deps[t]} \subseteq {"succeeded"}
    BY <1>2, <2>1, <2>2, <2>3 DEF Moved
  <2>. QED
    BY <2>3, <2>4
<1>3. ClosedUnderFailure(plan, start, Blocked)
  <2>. SUFFICES ASSUME NEW t \in plan.tasks, start[t] \in Waiting, NEW d \in plan.deps[t],
                       start[d] \in FailedDependency \/ d \in Blocked
                PROVE  t \in Blocked
    BY DEF ClosedUnderFailure
  <2>1. t \in Tasks /\ d \in Tasks
    BY <1>1
  <2>2. statuses[d] \in FailedDependency
    BY <2>1 DEF Progress, Given, Offered, FailedDependency, Waiting
  <2>3. statuses[t] \notin Waiting
    BY <1>2, <2>2
  <2>4. start[d] # "succeeded"
    BY DEF Given, FailedDependency, Waiting
  <2>. QED
    BY <2>1, <2>3, <2>4 DEF Progress
<1>4. Doomed(plan, start) = Blocked
  BY <1>1, <1>3 DEF Progress, Doomed
<1>5. ASSUME NEW t \in Tasks
      PROVE  statuses[t] = IF t \in Doomed(plan, start) THEN "blocked"
                           ELSE IF start[t] \in Waiting /\ \A d \in plan.deps[t] : start[d] = "succeeded"
                                THEN "ready" ELSE start[t]
  <2>1. CASE t \in Blocked
    BY <1>4, <2>1 DEF Given
  <2>2. CASE Offered(t)
    BY <1>4, <2>2 DEF Progress, Given, Offered
  <2>3. CASE statuses[t] = start[t] /\ t \notin Blocked
    <3>1. ASSUME start[t] \in Waiting, \A d \in plan.deps[t] : start[d] = "succeeded"
          PROVE  FALSE
      <4>1. PICK d \in plan.deps[t] : statuses[d] # "succeeded"
        BY <1>1, <1>2, <2>3, <3>1
      <4>2. d \in Tasks /\ start[d] = "succeeded"
        BY <1>1, <3>1
      <4>. QED
        BY <4>1, <4>2 DEF Progress, Given, Offered, Waiting
    <3>. QED
      BY <1>4, <2>3, <3>1
  <2>. QED
    BY <1>1, <2>1, <2>2, <2>3 DEF Progress, Given
<1>. QED
  BY <1>1, <1>5 DEF Refresh

\* EndsAtFixpoint: for every valid plan and all statuses a transaction may hand over, the
\* loop of _refresh_ready_tasks computes what module TaskGraph calls Refresh, on which all
\* the other modules rest.
THEOREM LoopIsRefresh == Spec => []EndsAtFixpoint
<1>1. Init => SweepConsistent
  <2>. SUFFICES ASSUME Init PROVE SweepConsistent
    OBVIOUS
  <2>1. /\ plan = NoPlan /\ start = [t \in Tasks |-> "absent"] /\ statuses = start
        /\ visit = {} /\ changed = FALSE /\ loop = "before"
    BY DEF Init
  <2>. QED
    BY <2>1 DEF SweepConsistent, LoopTypeOK, NoPlan, RowStatuses, Waiting
<1>2. SweepConsistent => EndsAtFixpoint
  BY StableIsFixpoint DEF SweepConsistent, EndsAtFixpoint, NothingMissed
<1>. QED
  BY <1>1, <1>2, SortBegins, SortStep, SweepStep, PTL DEF Spec
===============================================================================
