----------------------------- MODULE CleanupProofs -----------------------------
(***************************************************************************)
(* What a run's branches and worktrees hold survives its end, what is      *)
(* applied is what was reviewed, and what is deleted is deleted whole: for *)
(* any tasks, plans and commits, wherever a process ends.                  *)
(***************************************************************************)
EXTENDS Cleanup, RunStoreProofs, FiniteSetTheorems, SequenceTheorems

-----------------------------------------------------------------------------
(* The inductive invariant *)

\* The commits there may be; a branch that is there never has that of NoBranch.
Commits == Tasks \X (Nat \ {0})
Branches == {NoBranch} \cup SUBSET Commits
Stages == {"none", "claimed", "working", "commit", "integrate"} \cup Outcomes
Commands ==
  [ do   : {"worktree", "merged", "cherry", "remove", "removeRun", "branch", "runBranch", "row"},
    task : Tasks \cup {0} ]

CleanupTypeOK ==
  /\ head \in SUBSET Commits
  /\ moved \in BOOLEAN
  /\ branch \in Branches
  /\ folder \in BOOLEAN
  /\ own \in [Tasks -> Branches]
  /\ place \in [Tasks -> {"absent", "clean", "dirty"}]
  /\ planner \in {"none", "asking", "preparing", "saving"}
  /\ stage \in [Tasks -> Stages]
  /\ review \in {"none", "open"}
  /\ applying \in BOOLEAN
  /\ deletion \in Seq(Commands)
  /\ history \in [ made : SUBSET Commits, unseen : SUBSET Commits, reviewed : Branches,
                   applied : Branches, remade : SUBSET Commands ]

\* The commits of a task are numbered, and what is not committed yet is one more.
Numbered ==
  \A t \in Tasks :
    /\ \E n \in 0..MaxCommits : CommitsOf(t) = {<<t, m>> : m \in 1..n}
    /\ place[t] = "dirty" => t \notin HostTasks /\ MayCommit(t)

\* A task is worked at as long as it runs, or by somebody who was not told that the
\* run is over; a host that has submitted only sits in its worktree.
Stopped == run \in {"cancelled", "deleted"}
Busy(t) == stage[t] # "none" /\ ~(t \in HostTasks /\ stage[t] = "working")

TasksAgree ==
  \A t \in Tasks :
    /\ Busy(t) => Stopped \/ status[t] = "running"
    /\ t \in HostTasks => stage[t] # "commit"
    /\ place[t] # "absent" => own[t] # NoBranch
    /\ run # "deleted" /\ t \notin plan.tasks
         => own[t] = NoBranch /\ place[t] = "absent" /\ stage[t] = "none"

\* The execution plans a run without a plan, and the finalizer reviews one nobody
\* else decides.
ActorsAgree ==
  /\ run = "deleted" => plan = NoPlan
  /\ planner # "none" => plan = NoPlan /\ run \in {"planning", "cancelled", "deleted"}
  /\ review = "open" => run \in {"reviewing", "cancelled", "deleted"}
  /\ run = "failed" => \A t \in plan.tasks : status[t] \notin Active

\* Once a run is completed, nobody changes its branch any more.
Over ==
  /\ run \in {"completed", "deleted"} /\ planner = "none" /\ review = "none"
  /\ \A t \in Tasks : ~Busy(t)
  /\ branch \in {NoBranch, history.reviewed}

BranchReviewed ==
  /\ run = "reviewing" /\ review = "open" => branch = history.reviewed
  /\ run = "completed" \/ applying \/ history.applied # NoBranch => Over
  /\ AppliedIsReviewed

\* What is on a task's branch is elsewhere too, but for what its host added later;
\* nobody is about to add to it.
Kept(t) == (own[t] \ history.unseen) \ NoBranch \subseteq head \cup branch
Committing(t) == stage[t] = "commit" /\ place[t] = "dirty"

\* A task's branch goes only after it was compared, and its worktree before that.
Guarded(t, i) ==
  \/ \E j, k \in 1..(i - 1) : /\ j < k
                              /\ deletion[j] = Command("worktree", t)
                              /\ deletion[k] = Command("cherry", t)
  \/ /\ ~Committing(t)
     /\ Kept(t) \/ \E k \in 1..(i - 1) : deletion[k] = Command("cherry", t)

\* What is still there is still to go, or was made again.
Going ==
  /\ branch = NoBranch \/ Pending(Command("runBranch", 0)) \/ Command("runBranch", 0) \in history.remade
  /\ \A t \in plan.tasks :
       own[t] = NoBranch \/ Pending(Command("branch", t)) \/ Command("branch", t) \in history.remade

DeletionAgrees ==
  Deleting =>
    /\ run \in TerminalRun
    /\ \A i \in DOMAIN deletion : deletion[i].do = "row" <=> i = Len(deletion)
    /\ \A i, k \in DOMAIN deletion : deletion[i].do = "branch" /\ deletion[k].do = "cherry" => k < i
    /\ \A i \in DOMAIN deletion, t \in Tasks :
         deletion[i] = Command("branch", t) => Guarded(t, i)
    /\ plan # NoPlan => Going

\* The worktree of the run is on a branch that is there.
FolderAgrees == folder => branch # NoBranch

CleanupConsistent ==
  /\ Consistent /\ CleanupTypeOK /\ Numbered /\ TasksAgree /\ ActorsAgree
  /\ BranchReviewed /\ FolderAgrees /\ DeletionAgrees /\ WorkSurvives

-----------------------------------------------------------------------------
(* The commands of a deletion *)

\* A deletion checks and takes away one thing for each task of the plan.
LEMMA CommandForEach ==
  ASSUME NEW S \in SUBSET Tasks, IsFiniteSet(S),
         NEW do \in {"worktree", "cherry", "remove", "branch"}
  PROVE  /\ EachTask(do, S) \in Seq(Commands)
         /\ Range(EachTask(do, S)) = {Command(do, t) : t \in S}
<1>1. /\ Cardinality(S) \in Nat
      /\ \A i \in 1..Cardinality(S) : Nth(S, i) \in S
      /\ \A t \in S : \E i \in 1..Cardinality(S) : Nth(S, i) = t
  BY TasksAssumption, NthIsThere
<1>2. DOMAIN EachTask(do, S) = 1..Cardinality(S)
  BY DEF EachTask
<1>3. \A i \in 1..Cardinality(S) : EachTask(do, S)[i] = Command(do, Nth(S, i))
  BY DEF EachTask
<1>4. \A t \in S : Command(do, t) \in Commands
  BY DEF Command, Commands
<1>5. EachTask(do, S) \in Seq(Commands)
  BY <1>1, <1>4 DEF EachTask
<1>6. Range(EachTask(do, S)) = {EachTask(do, S)[i] : i \in 1..Cardinality(S)}
  BY <1>2 DEF Range
<1>7. Range(EachTask(do, S)) = {Command(do, Nth(S, i)) : i \in 1..Cardinality(S)}
  BY <1>3, <1>6
<1>. QED
  BY <1>1, <1>5, <1>7

\* Where the commands of two lists are when the second follows the first.
LEMMA Concatenated ==
  ASSUME NEW s \in Seq(Commands), NEW q \in Seq(Commands), NEW both, both = s \o q
  PROVE  /\ both \in Seq(Commands)
         /\ DOMAIN both = 1..(Len(s) + Len(q))
         /\ \A i \in DOMAIN s : i \in DOMAIN both /\ both[i] = s[i]
         /\ \A i \in DOMAIN q : Len(s) + i \in DOMAIN both /\ both[Len(s) + i] = q[i]
         /\ \A i \in DOMAIN both :
              \/ i \in DOMAIN s /\ both[i] = s[i]
              \/ i > Len(s) /\ i - Len(s) \in DOMAIN q /\ both[i] = q[i - Len(s)]
<1>1. /\ both \in Seq(Commands) /\ Len(both) = Len(s) + Len(q)
      /\ \A i \in 1..(Len(s) + Len(q)) :
           both[i] = IF i <= Len(s) THEN s[i] ELSE q[i - Len(s)]
  BY ConcatProperties
<1>2. /\ Len(s) \in Nat /\ Len(q) \in Nat
      /\ DOMAIN s = 1..Len(s) /\ DOMAIN q = 1..Len(q)
      /\ DOMAIN both = 1..Len(both)
  BY <1>1, LenProperties
<1>3. DOMAIN both = 1..(Len(s) + Len(q))
  BY <1>1, <1>2
<1>4. \A i \in 1..(Len(s) + Len(q)) : both[i] = IF i <= Len(s) THEN s[i] ELSE q[i - Len(s)]
  BY <1>1
<1>5. \A i \in DOMAIN s : i \in 1..(Len(s) + Len(q)) /\ both[i] = s[i]
  BY <1>2, <1>4
<1>6. \A i \in DOMAIN q : Len(s) + i \in 1..(Len(s) + Len(q)) /\ both[Len(s) + i] = q[i]
  <2>. SUFFICES ASSUME NEW i \in DOMAIN q
                PROVE  Len(s) + i \in 1..(Len(s) + Len(q)) /\ both[Len(s) + i] = q[i]
    OBVIOUS
  <2>1. i \in 1..Len(q) /\ i \in Nat /\ ~(Len(s) + i <= Len(s)) /\ (Len(s) + i) - Len(s) = i
    BY <1>2
  <2>2. Len(s) + i \in 1..(Len(s) + Len(q))
    BY <1>2, <2>1
  <2>. QED
    BY <1>4, <2>1, <2>2
<1>7. \A i \in 1..(Len(s) + Len(q)) :
        \/ i \in DOMAIN s /\ both[i] = s[i]
        \/ i > Len(s) /\ i - Len(s) \in DOMAIN q /\ both[i] = q[i - Len(s)]
  <2>. SUFFICES ASSUME NEW i \in 1..(Len(s) + Len(q))
                PROVE  \/ i \in DOMAIN s /\ both[i] = s[i]
                       \/ i > Len(s) /\ i - Len(s) \in DOMAIN q /\ both[i] = q[i - Len(s)]
    OBVIOUS
  <2>1. CASE i <= Len(s)
    BY <1>2, <1>4, <2>1
  <2>2. CASE ~(i <= Len(s))
    <3>1. i > Len(s) /\ i - Len(s) \in 1..Len(q)
      BY <1>2, <2>2
    <3>. QED
      BY <1>2, <1>4, <2>2, <3>1
  <2>. QED
    BY <2>1, <2>2
<1>. QED
  BY <1>1, <1>3, <1>5, <1>6, <1>7

\* Two lists have the commands of both.
LEMMA Joined ==
  ASSUME NEW s \in Seq(Commands), NEW q \in Seq(Commands)
  PROVE  /\ s \o q \in Seq(Commands)
         /\ Range(s \o q) = Range(s) \cup Range(q)
<1>1. PICK both : both = s \o q
  OBVIOUS
<1>2. /\ both \in Seq(Commands)
      /\ \A i \in DOMAIN s : i \in DOMAIN both /\ both[i] = s[i]
      /\ \A i \in DOMAIN q : Len(s) + i \in DOMAIN both /\ both[Len(s) + i] = q[i]
      /\ \A i \in DOMAIN both :
           \/ i \in DOMAIN s /\ both[i] = s[i]
           \/ i > Len(s) /\ i - Len(s) \in DOMAIN q /\ both[i] = q[i - Len(s)]
  BY <1>1, Concatenated
<1>3. \A c \in Range(both) : c \in Range(s) \cup Range(q)
  BY <1>2 DEF Range
<1>4. \A c \in Range(s) \cup Range(q) : c \in Range(both)
  BY <1>2 DEF Range
<1>. QED
  BY <1>1, <1>2, <1>3, <1>4

\* A command that is there once, whatever the tasks.
LEMMA OneCommand ==
  ASSUME NEW do \in {"merged", "removeRun", "runBranch", "row"}
  PROVE  /\ Run(do) \in Seq(Commands) /\ <<>> \in Seq(Commands)
         /\ Len(Run(do)) = 1 /\ Run(do)[1] = Command(do, 0)
         /\ Range(Run(do)) = {Command(do, 0)} /\ Range(<<>>) = {}
<1>1. Command(do, 0) \in Commands
  BY DEF Command, Commands
<1>2. Len(Run(do)) = 1 /\ DOMAIN Run(do) = {1} /\ Run(do)[1] = Command(do, 0) /\ DOMAIN <<>> = {}
  BY DEF Run
<1>. QED
  BY <1>1, <1>2 DEF Run, Range

\* The persisted plan has finitely many tasks.
LEMMA PlanTasks ==
  ASSUME Consistent
  PROVE  plan.tasks \in SUBSET Tasks /\ IsFiniteSet(plan.tasks)
<1>1. plan \in Plans \cup {NoPlan}
  BY DEF Consistent, RowsTyped
<1>2. plan.tasks \in SUBSET Tasks
  BY <1>1, PlanFacts
<1>3. CASE plan \in Plans
  BY <1>2, <1>3, CleanupAssumption
<1>4. CASE plan = NoPlan
  BY <1>2, <1>4, FS_EmptySet DEF NoPlan
<1>. QED
  BY <1>1, <1>3, <1>4

\* A deletion looks at every worktree before it looks for the commits of any branch.
LEMMA ChecksMade ==
  ASSUME Consistent
  PROVE  \E first, second \in Seq(Commands) :
           /\ Checks = first \o second
           /\ Checks \in Seq(Commands)
           /\ \A c \in Range(Checks) : c.do \in {"worktree", "merged", "cherry"}
           /\ \A t \in plan.tasks :
                /\ Command("worktree", t) \in Range(first)
                /\ own[t] # NoBranch => Command("cherry", t) \in Range(second)
<1>1. PICK there : there = {t \in plan.tasks : own[t] # NoBranch}
  OBVIOUS
<1>2. plan.tasks \in SUBSET Tasks /\ IsFiniteSet(plan.tasks)
  BY PlanTasks
<1>3. there \in SUBSET Tasks /\ IsFiniteSet(there)
  BY <1>1, <1>2, FS_Subset
<1>4. PICK w : /\ w = EachTask("worktree", plan.tasks)
               /\ w \in Seq(Commands)
               /\ Range(w) = {Command("worktree", t) : t \in plan.tasks}
  BY <1>2, CommandForEach
<1>5. PICK m : /\ m = IF plan # NoPlan THEN Run("merged") ELSE <<>>
               /\ m \in Seq(Commands)
               /\ Range(m) \subseteq {Command("merged", 0)}
  BY OneCommand
<1>6. PICK c : /\ c = EachTask("cherry", there)
               /\ c \in Seq(Commands)
               /\ Range(c) = {Command("cherry", t) : t \in there}
  BY <1>3, CommandForEach
<1>7. PICK wm : /\ wm = w \o m
                /\ wm \in Seq(Commands)
                /\ Range(wm) = Range(w) \cup Range(m)
  BY <1>4, <1>5, Joined
<1>8. Checks = wm \o c
  BY <1>1, <1>4, <1>5, <1>6, <1>7 DEF Checks
<1>9. Checks \in Seq(Commands) /\ Range(Checks) = Range(wm) \cup Range(c)
  BY <1>6, <1>7, <1>8, Joined
<1>10. \A x \in Range(Checks) : x.do \in {"worktree", "merged", "cherry"}
  BY <1>4, <1>5, <1>6, <1>7, <1>9 DEF Command
<1>11. \A t \in plan.tasks :
         /\ Command("worktree", t) \in Range(wm)
         /\ own[t] # NoBranch => Command("cherry", t) \in Range(c)
  BY <1>1, <1>4, <1>6, <1>7
<1>. QED
  BY <1>6, <1>7, <1>8, <1>9, <1>10, <1>11

\* A deletion takes away everything the row of the run names, and the row last.
LEMMA RemovalsMade ==
  ASSUME Consistent
  PROVE  \E rest \in Seq(Commands) :
           /\ Removals = rest \o Run("row")
           /\ Removals \in Seq(Commands)
           /\ \A c \in Range(rest) :
                /\ c.do \in {"remove", "removeRun", "branch", "runBranch"}
                /\ c.do = "branch" => c.task \in plan.tasks
           /\ plan # NoPlan => Command("runBranch", 0) \in Range(rest)
           /\ \A t \in plan.tasks : Command("branch", t) \in Range(rest)
<1>1. plan.tasks \in SUBSET Tasks /\ IsFiniteSet(plan.tasks)
  BY PlanTasks
<1>2. PICK w : /\ w = EachTask("remove", plan.tasks)
               /\ w \in Seq(Commands)
               /\ Range(w) = {Command("remove", t) : t \in plan.tasks}
  BY <1>1, CommandForEach
<1>3. PICK f : /\ f = Run("removeRun")
               /\ f \in Seq(Commands)
               /\ Range(f) = {Command("removeRun", 0)}
  BY OneCommand
<1>4. PICK b : /\ b = EachTask("branch", plan.tasks)
               /\ b \in Seq(Commands)
               /\ Range(b) = {Command("branch", t) : t \in plan.tasks}
  BY <1>1, CommandForEach
<1>5. PICK r : /\ r = IF plan # NoPlan THEN Run("runBranch") ELSE <<>>
               /\ r \in Seq(Commands)
               /\ Range(r) = IF plan # NoPlan THEN {Command("runBranch", 0)} ELSE {}
  BY OneCommand
<1>6. PICK wf : wf = w \o f /\ wf \in Seq(Commands) /\ Range(wf) = Range(w) \cup Range(f)
  BY <1>2, <1>3, Joined
<1>7. PICK wfb : wfb = wf \o b /\ wfb \in Seq(Commands) /\ Range(wfb) = Range(wf) \cup Range(b)
  BY <1>4, <1>6, Joined
<1>8. PICK rest : rest = wfb \o r /\ rest \in Seq(Commands) /\ Range(rest) = Range(wfb) \cup Range(r)
  BY <1>5, <1>7, Joined
<1>9. Removals = rest \o Run("row")
  BY <1>2, <1>3, <1>4, <1>5, <1>6, <1>7, <1>8 DEF Removals
<1>10. Removals \in Seq(Commands)
  BY <1>8, <1>9, OneCommand, Joined
<1>11. Range(rest) = Range(w) \cup Range(f) \cup Range(b) \cup Range(r)
  BY <1>6, <1>7, <1>8
<1>12. \A c \in Range(rest) :
         /\ c.do \in {"remove", "removeRun", "branch", "runBranch"}
         /\ c.do = "branch" => c.task \in plan.tasks
  BY <1>2, <1>3, <1>4, <1>5, <1>11 DEF Command
<1>13. /\ plan # NoPlan => Command("runBranch", 0) \in Range(rest)
       /\ \A t \in plan.tasks : Command("branch", t) \in Range(rest)
  BY <1>4, <1>5, <1>11
<1>. QED
  BY <1>8, <1>9, <1>10, <1>12, <1>13

\* The commands before the i-th one, in the order of a list's two parts.
LEMMA InOrder ==
  ASSUME NEW first \in Seq(Commands), NEW second \in Seq(Commands),
         NEW x \in Range(first), NEW y \in Range(second)
  PROVE  \E j, k \in DOMAIN (first \o second) :
           j < k /\ (first \o second)[j] = x /\ (first \o second)[k] = y
<1>1. PICK both : both = first \o second
  OBVIOUS
<1>2. PICK j \in DOMAIN first : first[j] = x
  BY DEF Range
<1>3. PICK k \in DOMAIN second : second[k] = y
  BY DEF Range
<1>4. /\ Len(first) \in Nat /\ DOMAIN first = 1..Len(first)
      /\ Len(second) \in Nat /\ DOMAIN second = 1..Len(second)
  BY LenProperties
<1>5. j < Len(first) + k
  BY <1>2, <1>3, <1>4
<1>6. /\ j \in DOMAIN both /\ both[j] = first[j]
      /\ Len(first) + k \in DOMAIN both /\ both[Len(first) + k] = second[k]
  BY <1>1, <1>2, <1>3, Concatenated
<1>. QED
  BY <1>1, <1>2, <1>3, <1>5, <1>6

\* What delete_run has to do when it begins: look at a task's worktree and then for
\* its commits before the branch goes, before any branch goes, and the row at the end.
LEMMA DeletionMade ==
  ASSUME Consistent, NEW q, q = Checks \o Removals
  PROVE  /\ q \in Seq(Commands) /\ Len(q) > 0
         /\ \A i \in DOMAIN q : q[i].do = "row" <=> i = Len(q)
         /\ \A i \in DOMAIN q, t \in Tasks : q[i] = Command("branch", t) =>
              /\ t \in plan.tasks
              /\ own[t] # NoBranch =>
                   \E j, k \in 1..(i - 1) :
                     j < k /\ q[j] = Command("worktree", t) /\ q[k] = Command("cherry", t)
         /\ \A i, k \in DOMAIN q : q[i].do = "branch" /\ q[k].do = "cherry" => k < i
         /\ plan # NoPlan => Command("runBranch", 0) \in Range(q)
         /\ \A t \in plan.tasks : Command("branch", t) \in Range(q)
<1>1. PICK first \in Seq(Commands), second \in Seq(Commands) :
        /\ Checks = first \o second
        /\ Checks \in Seq(Commands)
        /\ \A c \in Range(Checks) : c.do \in {"worktree", "merged", "cherry"}
        /\ \A t \in plan.tasks :
             /\ Command("worktree", t) \in Range(first)
             /\ own[t] # NoBranch => Command("cherry", t) \in Range(second)
  BY ChecksMade
<1>2. PICK rest \in Seq(Commands) :
        /\ Removals = rest \o Run("row")
        /\ Removals \in Seq(Commands)
        /\ \A c \in Range(rest) :
             /\ c.do \in {"remove", "removeRun", "branch", "runBranch"}
             /\ c.do = "branch" => c.task \in plan.tasks
        /\ plan # NoPlan => Command("runBranch", 0) \in Range(rest)
        /\ \A t \in plan.tasks : Command("branch", t) \in Range(rest)
  BY RemovalsMade
<1>3. PICK c, r, last : c = Checks /\ r = Removals /\ last = Run("row")
  OBVIOUS
<1>4. last \in Seq(Commands) /\ Len(last) = 1 /\ Range(last) = {Command("row", 0)}
  BY <1>3, OneCommand
<1>5. PICK before : before = c \o rest
  OBVIOUS
<1>6. /\ c \in Seq(Commands) /\ r \in Seq(Commands) /\ r = rest \o last /\ q = c \o r
  BY <1>1, <1>2, <1>3
<1>7. before \in Seq(Commands) /\ Range(before) = Range(c) \cup Range(rest)
  BY <1>5, <1>6, Joined
<1>8. q = before \o last
  <2>1. \A x, y, z \in Seq(Commands) : (x \o y) \o z = x \o (y \o z)
    BY ConcatAssociative
  <2>2. c \in Seq(Commands) /\ rest \in Seq(Commands) /\ last \in Seq(Commands)
    BY <1>2, <1>4, <1>6
  <2>3. (c \o rest) \o last = c \o (rest \o last)
    BY <2>1, <2>2, Zenon
  <2>. QED
    BY <1>5, <1>6, <2>3
<1>9. q \in Seq(Commands) /\ Range(q) = Range(before) \cup Range(last)
  BY <1>4, <1>7, <1>8, Joined
<1>10. Len(before) \in Nat /\ Len(q) = Len(before) + 1 /\ DOMAIN before = 1..Len(before)
  <2>1. Len(before) \in Nat /\ DOMAIN before = 1..Len(before)
    BY <1>7, LenProperties
  <2>2. Len(q) = Len(before) + Len(last)
    BY <1>4, <1>7, <1>8, ConcatProperties
  <2>. QED
    BY <1>4, <2>1, <2>2
<1>11. \A x \in Range(before) : x.do # "row"
  BY <1>1, <1>2, <1>3, <1>7
<1>12. /\ DOMAIN q = 1..(Len(before) + Len(last))
       /\ \A i \in DOMAIN q :
            \/ i \in DOMAIN before /\ q[i] = before[i]
            \/ i > Len(before) /\ i - Len(before) \in DOMAIN last /\ q[i] = last[i - Len(before)]
  <2>1. before \in Seq(Commands) /\ last \in Seq(Commands)
    BY <1>4, <1>7
  <2>. QED
    BY <1>8, <2>1, Concatenated
<1>13. ASSUME NEW i \in DOMAIN q
       PROVE  q[i].do = "row" <=> i = Len(q)
  <2>1. \/ i \in DOMAIN before /\ q[i] = before[i]
        \/ i > Len(before) /\ i - Len(before) \in DOMAIN last /\ q[i] = last[i - Len(before)]
    BY <1>13, <1>12
  <2>2. DOMAIN last = 1..Len(last)
    BY <1>4, LenProperties
  <2>3. CASE i \in DOMAIN before /\ q[i] = before[i]
    <3>1. q[i].do # "row"
      BY <1>11, <2>3 DEF Range
    <3>2. i # Len(q)
      BY <1>10, <2>3
    <3>. QED
      BY <3>1, <3>2
  <2>4. CASE i > Len(before) /\ i - Len(before) \in DOMAIN last /\ q[i] = last[i - Len(before)]
    <3>1. q[i].do = "row"
      <4>1. last[i - Len(before)] \in Range(last)
        BY <2>4 DEF Range
      <4>. QED
        BY <1>4, <2>4, <4>1 DEF Command
    <3>2. i = Len(q)
      BY <1>4, <1>10, <1>13, <1>12, <2>4, <2>2
    <3>. QED
      BY <3>1, <3>2
  <2>. QED
    BY <2>1, <2>3, <2>4
<1>14. ASSUME NEW i \in DOMAIN q, NEW t \in Tasks, q[i] = Command("branch", t)
       PROVE  /\ t \in plan.tasks
              /\ own[t] # NoBranch =>
                   \E j, k \in 1..(i - 1) :
                     j < k /\ q[j] = Command("worktree", t) /\ q[k] = Command("cherry", t)
  <2>1. /\ \A k \in DOMAIN c : k \in DOMAIN q /\ q[k] = c[k]
        /\ DOMAIN q = 1..(Len(c) + Len(r))
        /\ \/ i \in DOMAIN c /\ q[i] = c[i]
           \/ i > Len(c) /\ i - Len(c) \in DOMAIN r /\ q[i] = r[i - Len(c)]
    BY <1>6, <1>14, Concatenated
  <2>2. q[i].do = "branch" /\ q[i].task = t
    BY <1>14 DEF Command
  <2>3. q[i] \notin Range(c)
    BY <1>1, <1>3, <2>2
  <2>4. i > Len(c) /\ i - Len(c) \in DOMAIN r /\ q[i] = r[i - Len(c)]
    BY <2>1, <2>3 DEF Range
  <2>5. t \in plan.tasks
    <3>1. Range(r) = Range(rest) \cup Range(last)
      BY <1>4, <1>6, Joined
    <3>2. q[i] \in Range(r)
      BY <2>4 DEF Range
    <3>3. Command("row", 0).do = "row"
      BY DEF Command
    <3>. QED
      BY <1>2, <1>4, <2>2, <3>1, <3>2, <3>3
  <2>6. ASSUME own[t] # NoBranch
        PROVE  \E j, k \in 1..(i - 1) :
                 j < k /\ q[j] = Command("worktree", t) /\ q[k] = Command("cherry", t)
    <3>1. Command("worktree", t) \in Range(first) /\ Command("cherry", t) \in Range(second)
      BY <1>1, <2>5, <2>6
    <3>2. PICK j \in DOMAIN c, k \in DOMAIN c :
            j < k /\ c[j] = Command("worktree", t) /\ c[k] = Command("cherry", t)
      BY <1>1, <1>3, <3>1, InOrder
    <3>3. /\ Len(c) \in Nat /\ DOMAIN c = 1..Len(c)
          /\ Len(r) \in Nat
      BY <1>6, LenProperties
    <3>4. j \in 1..(i - 1) /\ k \in 1..(i - 1)
      BY <2>1, <2>4, <3>2, <3>3
    <3>. QED
      BY <2>1, <3>2, <3>4
  <2>. QED
    BY <2>5, <2>6
<1>15. Range(rest) \subseteq Range(q) /\ Len(q) > 0
  BY <1>7, <1>9, <1>10
<1>16. /\ plan # NoPlan => Command("runBranch", 0) \in Range(q)
       /\ \A t \in plan.tasks : Command("branch", t) \in Range(q)
  BY <1>2, <1>15
<1>17. ASSUME NEW i \in DOMAIN q, NEW k \in DOMAIN q, q[i].do = "branch", q[k].do = "cherry"
       PROVE  k < i
  <2>1. /\ DOMAIN q = 1..(Len(c) + Len(r)) /\ DOMAIN c = 1..Len(c) /\ Len(c) \in Nat /\ Len(r) \in Nat
        /\ \A x \in DOMAIN q : \/ x \in DOMAIN c /\ q[x] = c[x]
                               \/ x > Len(c) /\ x - Len(c) \in DOMAIN r /\ q[x] = r[x - Len(c)]
    BY <1>6, Concatenated, LenProperties
  <2>2. Range(r) = Range(rest) \cup Range(last)
    BY <1>4, <1>6, Joined
  <2>3. Command("row", 0).do = "row"
    BY DEF Command
  <2>4. \A x \in Range(r) : x.do # "cherry"
    BY <1>2, <1>4, <2>2, <2>3
  <2>5. k \in DOMAIN c
    BY <1>17, <2>1, <2>4 DEF Range
  <2>6. i > Len(c)
    BY <1>1, <1>3, <1>17, <2>1 DEF Range
  <2>. QED
    BY <2>1, <2>5, <2>6
<1>. QED
  BY <1>9, <1>13, <1>14, <1>15, <1>16, <1>17

-----------------------------------------------------------------------------
(* What a step does to the rows of the run *)

\* A claim starts the work at one ready task of the plan.
LEMMA ClaimSeen ==
  ASSUME CleanupConsistent, NEW e \in Executors, Claim(e)
  PROVE  /\ Consistent' /\ run = "running" /\ UNCHANGED <<run, plan>>
         /\ \E t \in Tasks :
              /\ t \in plan.tasks /\ status[t] = "ready"
              /\ status' = [status EXCEPT ![t] = "running"]
              /\ stage' = [stage EXCEPT ![t] = "claimed"]
<1>1. PICK w \in Claimants : ClaimTask(e, w, Tasks)
  BY DEF Claim
<1>2. Consistent /\ Consistent'
  BY <1>1, ClaimTaskConsistent DEF CleanupConsistent, Wishes
<1>3. PICK t \in Claimable(e, Tasks) :
        /\ status' = [Refresh(plan, status) EXCEPT ![t] = "running"]
        /\ attempt' = [attempt EXCEPT ![t] = @ + 1]
  BY <1>1 DEF ClaimTask
<1>4. Refresh(plan, status) = status
  BY <1>2 DEF Consistent, Refreshed
<1>5. t \in Tasks /\ status[t] = "ready"
  BY <1>3, <1>4 DEF Claimable
<1>6. t \in plan.tasks
  BY <1>2, <1>5 DEF Consistent, RowsTyped
<1>7. \A u \in Tasks : attempt'[u] # attempt[u] <=> u = t
  BY <1>2, <1>3, <1>5 DEF Consistent, RowsTyped
<1>8. stage' = [u \in Tasks |-> IF u = t THEN "claimed" ELSE stage[u]]
  BY <1>7 DEF Claim
<1>9. stage \in [Tasks -> Stages]
  BY DEF CleanupConsistent, CleanupTypeOK
<1>10. stage' = [stage EXCEPT ![t] = "claimed"]
  BY <1>8, <1>9
<1>11. run = "running" /\ UNCHANGED <<run, plan>>
  BY <1>1 DEF ClaimTask
<1>. QED
  BY <1>2, <1>3, <1>4, <1>5, <1>6, <1>10, <1>11

\* Only a running run has running tasks: nobody marks a run failed over them here.
LEMMA RunningRun ==
  ASSUME CleanupConsistent, NEW t \in Tasks, status[t] = "running"
  PROVE  run = "running" /\ t \in plan.tasks
<1>1. t \in plan.tasks /\ run \in RunStatuses \cup {"none", "deleted"}
  BY DEF CleanupConsistent, Consistent, RowsTyped
<1>2. plan # NoPlan
  BY <1>1 DEF NoPlan
<1>3. run \notin {"none", "created", "planning", "deleted"}
  BY <1>2 DEF CleanupConsistent, Consistent, PlanWhenPlanned, ActorsAgree
<1>4. run \notin {"integrating", "reviewing", "blocked", "completed", "cancelled", "failed"}
  BY <1>1 DEF CleanupConsistent, Consistent, Settled, ActorsAgree, Active
<1>. QED
  BY <1>1, <1>3, <1>4 DEF RunStatuses

\* A result decides one task, and perhaps with it the run.
LEMMA SubmitSeen ==
  ASSUME CleanupConsistent, NEW t \in Tasks, stage[t] \in Outcomes,
         SubmitTaskResult(t, claimant[t], stage[t], TRUE, TRUE)
  PROVE  /\ Consistent' /\ run = "running" /\ UNCHANGED plan
         /\ run' \in {"running", "integrating", "reviewing", "failed", "blocked"}
         /\ run' = "failed" => \A u \in plan.tasks : status'[u] \notin Active
         /\ \A u \in Tasks : status'[u] = "running" <=> u # t /\ status[u] = "running"
<1> DEFINE o == stage[t]
<1> DEFINE s == ResultStatus(t, o)
<1> DEFINE mid == [status EXCEPT ![t] = s]
<1>1. Consistent /\ TRUE \in BOOLEAN /\ o \in Outcomes
  BY DEF CleanupConsistent
<1>2. Consistent'
  BY <1>1, SubmitTaskResultConsistent
<1>3. /\ status[t] = "running" /\ UNCHANGED plan
      /\ status' = Refresh(plan, mid) /\ run' = SyncRun(status')
  BY DEF SubmitTaskResult, CanSubmit
<1>4. run = "running"
  BY <1>3, RunningRun
<1>5. s # "running"
  BY <1>1 DEF ResultStatus, Outcomes
<1>6. status \in [Tasks -> TaskStatuses \cup {"absent"}] /\ delivery \in Deliveries
  BY <1>1 DEF Consistent, RowsTyped
<1>. HIDE DEF s
<1>7. \A u \in Tasks : mid[u] = "running" <=> u # t /\ status[u] = "running"
  BY <1>5, <1>6
<1>. HIDE DEF mid
<1>8. \A u \in Tasks : status'[u] = "running" <=> mid[u] = "running"
  BY <1>3, RefreshKeepsDecided
<1>9. /\ run' \in {"running", "integrating", "reviewing", "failed", "blocked"}
      /\ run' = "failed" => \A u \in plan.tasks : status'[u] \notin Active
  BY <1>3, <1>4 DEF SyncRun, Verdict
<1>. QED
  BY <1>2, <1>3, <1>4, <1>7, <1>8, <1>9

\* What set_run_status does to a run that is not running.
LEMMA SetStatusSeen ==
  ASSUME Consistent, NEW s \in {"planning", "failed", "blocked", "reviewing", "completed"},
         run # "running", SetRunStatus(s)
  PROVE  /\ Consistent' /\ run' = s /\ UNCHANGED <<plan, status>>
         /\ s = "planning" => run = "created"
         /\ s = "reviewing" => run = "integrating"
         /\ s = "completed" => run = "reviewing"
         /\ run \notin TerminalRun
<1>1. s \in RunStatuses /\ CallersAsk(s)
  BY DEF RunStatuses, CallersAsk
<1>2. Consistent'
  BY <1>1, SetRunStatusConsistent
<1>. QED
  BY <1>2 DEF SetRunStatus, Accepts, RunStatuses, RunTransitions, TerminalRun, details

\* The rows keep the invariant of the store, whoever changes them.
LEMMA StepRows ==
  ASSUME CleanupConsistent, [CleanupNext]_allVars
  PROVE  Consistent'
<1>1. Consistent /\ ActorsAgree
  BY DEF CleanupConsistent
<1>2. ASSUME UNCHANGED vars PROVE Consistent'
  BY <1>1, <1>2, StepConsistent
<1>3. CASE \E mode \in Deliveries : Open(mode)
  BY <1>1, <1>3, CreateRunConsistent DEF Open
<1>4. CASE BeginPlanning \/ MakeBranch \/ StartReview \/ EndReview
  <2>1. CASE UNCHANGED vars
    BY <1>2, <2>1
  <2>2. ASSUME NEW s \in {"planning", "failed", "blocked", "reviewing", "completed"},
               run # "running", SetRunStatus(s)
        PROVE  Consistent'
    BY <1>1, <2>2, SetStatusSeen
  <2>3. CASE BeginPlanning
    BY <2>2, <2>3 DEF BeginPlanning
  <2>4. CASE MakeBranch
    <3>1. run # "running"
      BY <1>1, <2>4 DEF MakeBranch, ActorsAgree
    <3>. QED
      BY <2>1, <2>2, <2>4, <3>1 DEF MakeBranch
  <2>5. CASE StartReview
    BY <2>1, <2>2, <2>5 DEF StartReview
  <2>6. CASE EndReview
    <3>1. run # "running"
      BY <1>1, <2>6 DEF EndReview, ActorsAgree
    <3>. QED
      BY <2>1, <2>2, <2>6, <3>1 DEF EndReview
  <2>. QED
    BY <1>4, <2>3, <2>4, <2>5, <2>6
<1>5. CASE \E p \in Plans : Publish(p)
  BY <1>1, <1>2, <1>5, SavePlanConsistent DEF Publish
<1>6. CASE \E e \in Executors : Claim(e)
  BY <1>6, ClaimSeen
<1>7. ASSUME NEW t \in Tasks, PrepareTask(t)
      PROVE  Consistent'
  BY <1>1, <1>2, <1>7, SetTaskWorktreeConsistent DEF PrepareTask
<1>8. ASSUME NEW t \in Tasks, Submit(t)
      PROVE  Consistent'
  BY <1>2, <1>8, SubmitSeen DEF Submit
<1>9. CASE Cancel
  BY <1>1, <1>9, CancelRunConsistent DEF Cancel
<1>10. CASE DeletionStep
  BY <1>1, <1>2, <1>10, DeleteRunRecordConsistent DEF DeletionStep
<1>11. ASSUME NEW t \in Tasks,
              Edit(t) \/ HostCommits(t) \/ WorkerAnswers(t) \/ CommitTask(t) \/ HostSubmits(t) \/ Integrate(t)
       PROVE  UNCHANGED vars
  BY <1>11 DEF Edit, HostCommits, WorkerAnswers, CommitTask, HostSubmits, Integrate
<1>12. ASSUME \/ PlanArrives \/ Apply \/ FastForward \/ UserCommits \/ UserMerges
              \/ StartDeletion \/ CrashOfExecution \/ CrashOfDeletion
       PROVE  UNCHANGED vars
  BY <1>12 DEF PlanArrives, Apply, FastForward, UserCommits, UserMerges, StartDeletion,
               CrashOfExecution, CrashOfDeletion
<1>13. CASE UNCHANGED allVars
  BY <1>2, <1>13 DEF allVars
<1>. QED
  BY <1>2, <1>3, <1>4, <1>5, <1>6, <1>7, <1>8, <1>9, <1>10, <1>11, <1>12, <1>13 DEF CleanupNext

-----------------------------------------------------------------------------
(* Commits *)

\* The commits of a task say how many they are.
LEMMA CommitNumber ==
  ASSUME NEW t, NEW n \in Nat, NEW m \in Nat,
         {<<t, i>> : i \in 1..n} = {<<t, i>> : i \in 1..m}
  PROVE  n = m
<1>1. ASSUME NEW x \in Nat, NEW y \in Nat, x < y,
             {<<t, i>> : i \in 1..x} = {<<t, i>> : i \in 1..y}
      PROVE  FALSE
  <2>1. y \in 1..y /\ y \notin 1..x
    BY <1>1
  <2>2. <<t, y>> \in {<<t, i>> : i \in 1..y}
    BY <2>1
  <2>3. <<t, y>> \in {<<t, i>> : i \in 1..x}
    BY <1>1, <2>2
  <2>. QED
    BY <2>1, <2>3
<1>2. ~(n < m) /\ ~(m < n)
  BY <1>1
<1>. QED
  BY <1>2

\* A new commit of a task comes after all it has.
LEMMA NewCommitIsNew ==
  ASSUME CleanupConsistent, NEW t \in Tasks, MayCommit(t)
  PROVE  /\ NewCommit(t) \in Commits /\ NewCommit(t)[1] = t
         /\ \E n \in 0..MaxCommits : CommitsOf(t) \cup {NewCommit(t)} = {<<t, m>> : m \in 1..n}
<1>1. MaxCommits \in Nat
  BY CleanupAssumption
<1>2. PICK n \in 0..MaxCommits : CommitsOf(t) = {<<t, m>> : m \in 1..n}
  BY DEF CleanupConsistent, Numbered
<1>3. \A k \in 0..MaxCommits : CommitsOf(t) = {<<t, m>> : m \in 1..k} => k = n
  <2>. SUFFICES ASSUME NEW k \in 0..MaxCommits, CommitsOf(t) = {<<t, m>> : m \in 1..k}
                PROVE  k = n
    OBVIOUS
  <2>1. k \in Nat /\ n \in Nat
    BY <1>1
  <2>2. {<<t, i>> : i \in 1..k} = {<<t, i>> : i \in 1..n}
    BY <1>2
  <2>. QED
    BY <2>1, <2>2, CommitNumber
<1>4. (CHOOSE k \in 0..MaxCommits : CommitsOf(t) = {<<t, m>> : m \in 1..k}) = n
  BY <1>2, <1>3
<1>5. NewCommit(t) = <<t, 1 + n>>
  BY <1>4 DEF NewCommit
<1>6. n # MaxCommits
  BY <1>2 DEF MayCommit
<1>7. n + 1 \in 0..MaxCommits /\ 1 + n = n + 1 /\ n + 1 \in Nat \ {0} /\ 1..(n + 1) = (1..n) \cup {n + 1}
  BY <1>1, <1>6
<1>8. {<<t, m>> : m \in 1..(n + 1)} = {<<t, m>> : m \in 1..n} \cup {<<t, n + 1>>}
  BY <1>7
<1>9. CommitsOf(t) \cup {NewCommit(t)} = {<<t, m>> : m \in 1..(n + 1)}
  BY <1>2, <1>5, <1>7, <1>8
<1>. QED
  BY <1>5, <1>7, <1>9 DEF Commits

\* No branch of commits is taken for a missing one.
LEMMA SomeBranch ==
  ASSUME NEW S \in SUBSET Commits, NEW b \in Branches
  PROVE  /\ S # NoBranch
         /\ b # NoBranch => b \in SUBSET Commits
         /\ b # NoBranch => b \cup S # NoBranch /\ b \cup S \in SUBSET Commits
<1>1. <<0, 0>> \notin Commits
  BY DEF Commits
<1>. QED
  BY <1>1 DEF NoBranch, Branches

-----------------------------------------------------------------------------
(* Every step keeps the types of the variables. *)

HistoryType ==
  [ made : SUBSET Commits, unseen : SUBSET Commits, reviewed : Branches,
    applied : Branches, remade : SUBSET Commands ]

\* Commits that are recorded leave the history one.
LEMMA RecordedHistory ==
  ASSUME NEW h \in HistoryType, NEW m \in SUBSET Commits, NEW u \in SUBSET Commits
  PROVE  [h EXCEPT !.made = m, !.unseen = u] \in HistoryType
BY DEF HistoryType

\* A command that passes is carried out, and the next one is at the head of the list.
LEMMA DeletionSeen ==
  ASSUME deletion \in Seq(Commands), DeletionStep
  PROVE  /\ Len(deletion) > 0 /\ deletion \in Seq(Commands) /\ deletion' \in Seq(Commands)
         /\ UNCHANGED <<head, moved, planner, stage, review, applying>>
         /\ \/ GiveUpDeletion /\ UNCHANGED <<vars, place, own, folder, branch>>
            \/ \E c \in Commands :
                 /\ UNCHANGED history
                 /\ c = deletion[1] /\ Passes(c)
                 /\ Len(deletion') = Len(deletion) - 1
                 /\ \A i \in 1..Len(deletion') : deletion'[i] = deletion[i + 1]
                 /\ place' = [t \in Tasks |-> IF c = Command("remove", t) THEN "absent" ELSE place[t]]
                 /\ own' = [t \in Tasks |-> IF c = Command("branch", t) THEN NoBranch ELSE own[t]]
                 /\ folder' = (folder /\ c.do # "removeRun")
                 /\ branch' = IF c.do = "runBranch" THEN NoBranch ELSE branch
                 /\ IF c.do = "row" THEN DeleteRunRecord ELSE UNCHANGED vars
<1>1. PICK d : d = deletion
  OBVIOUS
<1>2. d \in Seq(Commands) /\ d # <<>>
  BY <1>1 DEF DeletionStep, Deleting
<1>3. Len(d) \in Nat /\ Len(d) > 0 /\ Head(d) = d[1]
  BY <1>2
<1>4. /\ Head(d) \in Commands /\ Tail(d) \in Seq(Commands) /\ Len(Tail(d)) = Len(d) - 1
      /\ \A i \in 1..Len(Tail(d)) : Tail(d)[i] = d[i + 1]
  BY <1>2, HeadTailProperties
<1>5. <<>> \in Seq(Commands)
  BY OneCommand
<1>6. PICK c : c = Head(d)
  OBVIOUS
<1>7. PICK r : r = Tail(d)
  OBVIOUS
<1>8. \/ GiveUpDeletion /\ UNCHANGED <<vars, place, own, folder, branch>>
      \/ /\ Passes(c) /\ UNCHANGED history
         /\ deletion' = r
         /\ place' = [t \in Tasks |-> IF c = Command("remove", t) THEN "absent" ELSE place[t]]
         /\ own' = [t \in Tasks |-> IF c = Command("branch", t) THEN NoBranch ELSE own[t]]
         /\ folder' = (folder /\ c.do # "removeRun")
         /\ branch' = IF c.do = "runBranch" THEN NoBranch ELSE branch
         /\ IF c.do = "row" THEN DeleteRunRecord ELSE UNCHANGED vars
  BY <1>1, <1>6, <1>7 DEF DeletionStep
<1>9. UNCHANGED <<head, moved, planner, stage, review, applying>>
  BY DEF DeletionStep
<1>10. /\ c \in Commands /\ c = d[1] /\ r \in Seq(Commands) /\ Len(r) = Len(d) - 1
       /\ \A i \in 1..Len(r) : r[i] = d[i + 1]
  BY <1>3, <1>4, <1>6, <1>7
<1>11. GiveUpDeletion => deletion' = <<>>
  BY DEF GiveUpDeletion
<1>. HIDE DEF Passes, DeleteRunRecord, GiveUpDeletion
<1>. QED
  BY <1>1, <1>2, <1>3, <1>5, <1>8, <1>9, <1>10, <1>11

\* The task branches together have what each has.
LEMMA TaskBranches ==
  ASSUME NEW f, f \in [Tasks -> Branches]
  PROVE  \A c : c \in UNION Range(f) <=> \E t \in Tasks : c \in f[t]
  BY DEF Range

\* Whoever begins or ends a deletion remembers what it made again and what it did not
\* see, and nothing else; what is seen again is on a task's branch.
LEMMA HistorySeen ==
  ASSUME CleanupConsistent, StartDeletion \/ DeletionStep \/ CrashOfDeletion
  PROVE  /\ history' \in HistoryType
         /\ history'.made = history.made
         /\ history'.reviewed = history.reviewed /\ history'.applied = history.applied
         /\ \A c \in history.unseen \ history'.unseen : \E t \in Tasks : c \in own[t]
         /\ StartDeletion => history'.unseen = history.unseen
<1>1. /\ history \in HistoryType /\ own \in [Tasks -> Branches]
      /\ deletion \in Seq(Commands)
  BY DEF CleanupConsistent, CleanupTypeOK, HistoryType
<1>2. CASE StartDeletion
  BY <1>1, <1>2 DEF StartDeletion, HistoryType
<1>3. CASE UNCHANGED history /\ ~StartDeletion
  BY <1>1, <1>3
<1>4. CASE GiveUpDeletion /\ ~StartDeletion
  <2>1. PICK u : u = history.unseen \ UNION Range(own)
    OBVIOUS
  <2>2. history' = [history EXCEPT !.unseen = u]
    BY <1>4, <2>1 DEF GiveUpDeletion
  <2>3. \A c \in history.unseen \ u : \E t \in Tasks : c \in own[t]
    BY <1>1, <2>1, TaskBranches
  <2>4. u \in SUBSET Commits
    BY <1>1, <2>1 DEF HistoryType
  <2>. QED
    BY <1>1, <1>4, <2>2, <2>3, <2>4 DEF HistoryType
<1>5. CASE CrashOfDeletion
  BY <1>2, <1>4, <1>5 DEF CrashOfDeletion
<1>6. CASE DeletionStep
  BY <1>1, <1>2, <1>3, <1>4, <1>6, DeletionSeen
<1>. QED
  BY <1>2, <1>5, <1>6

\* What is made again is what a command of a deletion takes away.
LEMMA MadeAgain ==
  ASSUME history \in HistoryType, NEW t \in Tasks
  PROVE  /\ Remade(MakingBranch) \in SUBSET Commands
         /\ Remade(MakingBranch \cup MakingOwn(t)) \in SUBSET Commands
         /\ history.remade \subseteq Remade(MakingBranch)
         /\ history.remade \subseteq Remade(MakingBranch \cup MakingOwn(t))
<1>1. Command("runBranch", 0) \in Commands /\ Command("branch", t) \in Commands
  BY DEF Command, Commands
<1>2. MakingBranch \in SUBSET Commands /\ MakingOwn(t) \in SUBSET Commands
  BY <1>1 DEF MakingBranch, MakingOwn
<1>3. history.remade \in SUBSET Commands
  BY DEF HistoryType
<1>. QED
  BY <1>2, <1>3 DEF Remade

\* Every variable of the components keeps its type.
LEMMA StepTypes ==
  ASSUME CleanupConsistent, [CleanupNext]_allVars
  PROVE  CleanupTypeOK'
<1>1. CleanupTypeOK /\ Consistent
  BY DEF CleanupConsistent
<1>2. history \in HistoryType
  BY <1>1 DEF CleanupTypeOK, HistoryType
<1>3. branch \in Branches /\ head \in SUBSET Commits /\ head \in Branches /\ {} \in Branches
  BY <1>1 DEF CleanupTypeOK, Branches
<1>4. \A b \in {{}, head} : PrepareRun(b) => branch' \in Branches /\ folder' \in BOOLEAN
  BY <1>3 DEF PrepareRun
<1>5. ASSUME history' \in HistoryType, UNCHANGED <<head, moved, applying, deletion>>,
             branch' \in Branches, folder' \in BOOLEAN, own' \in [Tasks -> Branches],
             place' \in [Tasks -> {"absent", "clean", "dirty"}],
             planner' \in {"none", "asking", "preparing", "saving"},
             stage' \in [Tasks -> Stages], review' \in {"none", "open"}
      PROVE  CleanupTypeOK'
  BY <1>1, <1>5 DEF CleanupTypeOK, HistoryType
<1>6. CASE (\E mode \in Deliveries : Open(mode)) \/ BeginPlanning \/ PlanArrives \/ Cancel
           \/ (\E p \in Plans : Publish(p)) \/ EndReview
  BY <1>1, <1>6 DEF CleanupTypeOK, Open, BeginPlanning, PlanArrives, Cancel, Publish, EndReview, gitVars
<1>7. CASE MakeBranch
  BY <1>1, <1>4, <1>7 DEF CleanupTypeOK, MakeBranch
<1>8. CASE StartReview
  <2>1. /\ PrepareRun(head) /\ review' = "open"
        /\ history' = [history EXCEPT !.reviewed = branch']
        /\ UNCHANGED <<head, moved, own, place, planner, stage, applying, deletion>>
    BY <1>8 DEF StartReview
  <2>2. branch' \in Branches /\ folder' \in BOOLEAN
    BY <1>3, <1>4, <2>1
  <2>3. history' \in HistoryType
    BY <1>2, <2>1, <2>2 DEF HistoryType
  <2>. QED
    BY <1>1, <1>5, <2>1, <2>2, <2>3 DEF CleanupTypeOK
<1>9. CASE \E e \in Executors : Claim(e)
  <2>1. \E t \in Tasks : stage' = [stage EXCEPT ![t] = "claimed"]
    BY <1>9, ClaimSeen
  <2>2. stage' \in [Tasks -> Stages]
    BY <1>1, <2>1 DEF CleanupTypeOK, Stages
  <2>. QED
    BY <1>1, <1>9, <2>2 DEF CleanupTypeOK, Claim, gitVars
<1>10. ASSUME NEW t \in Tasks, PrepareTask(t)
       PROVE  CleanupTypeOK'
  <2>1. /\ PrepareRun(head)
        /\ own' = [own EXCEPT ![t] = IF own[t] = NoBranch THEN branch' ELSE own[t]]
        /\ place' = [place EXCEPT ![t] = IF place[t] = "absent" THEN "clean" ELSE place[t]]
        /\ stage' = [stage EXCEPT ![t] = "working"] \/ stage' = [stage EXCEPT ![t] = "none"]
        /\ UNCHANGED <<head, moved, planner, review, applying, deletion>>
    BY <1>10 DEF PrepareTask
  <2>2. PICK r : r = Remade(MakingBranch \cup MakingOwn(t))
    OBVIOUS
  <2>3. r \in SUBSET Commands /\ history' = [history EXCEPT !.remade = r]
    BY <1>2, <1>10, <2>2, MadeAgain DEF PrepareTask
  <2>4. history' \in HistoryType
    BY <1>2, <2>3 DEF HistoryType
  <2>5. branch' \in Branches /\ folder' \in BOOLEAN
    BY <1>3, <1>4, <2>1
  <2>6. own' \in [Tasks -> Branches] /\ place' \in [Tasks -> {"absent", "clean", "dirty"}]
    BY <1>1, <2>1, <2>5 DEF CleanupTypeOK
  <2>7. stage' \in [Tasks -> Stages]
    BY <1>1, <2>1 DEF CleanupTypeOK, Stages
  <2>. QED
    BY <1>1, <1>5, <2>1, <2>4, <2>5, <2>6, <2>7 DEF CleanupTypeOK
<1>11. ASSUME NEW t \in Tasks, Edit(t) \/ WorkerAnswers(t) \/ HostSubmits(t) \/ Submit(t)
       PROVE  CleanupTypeOK'
  BY <1>1, <1>11 DEF CleanupTypeOK, Edit, WorkerAnswers, HostSubmits, Submit, gitVars, Stages, Outcomes
<1>12. ASSUME NEW t \in Tasks, HostCommits(t) \/ CommitTask(t)
       PROVE  CleanupTypeOK'
  <2>1. ASSUME MayCommit(t), place[t] # "absent", NEW H, history' = H,
               NEW u \in SUBSET Commits,
               H = [history EXCEPT !.made = @ \cup {NewCommit(t)}, !.unseen = u],
               own' = [own EXCEPT ![t] = @ \cup {NewCommit(t)}]
        PROVE  history' \in HistoryType /\ own' \in [Tasks -> Branches]
    <3>1. NewCommit(t) \in Commits
      BY <2>1, NewCommitIsNew
    <3>2. PICK c \in Commits : c = NewCommit(t)
      BY <3>1
    <3>3. own[t] \in Branches /\ own[t] # NoBranch /\ {c} \in SUBSET Commits
      BY <1>1, <2>1, <3>2 DEF CleanupConsistent, TasksAgree, CleanupTypeOK
    <3>4. own[t] \cup {c} \in SUBSET Commits
      BY <3>3, SomeBranch
    <3>5. own' = [own EXCEPT ![t] = own[t] \cup {c}]
      BY <2>1, <3>2
    <3>6. own' \in [Tasks -> Branches]
      BY <1>1, <3>4, <3>5 DEF CleanupTypeOK, Branches
    <3>7. H = [history EXCEPT !.made = history.made \cup {c}, !.unseen = u]
      BY <2>1, <3>2
    <3>8. H \in HistoryType
      <4>1. history \in HistoryType /\ history.made \cup {c} \in SUBSET Commits
        BY <1>2, <3>3 DEF HistoryType
      <4>2. PICK m \in SUBSET Commits : m = history.made \cup {c}
        BY <4>1
      <4>3. [history EXCEPT !.made = m, !.unseen = u] \in HistoryType
        BY <4>1, RecordedHistory
      <4>. QED
        BY <3>7, <4>2, <4>3
    <3>. QED
      BY <2>1, <3>6, <3>8
  <2>2. CASE HostCommits(t)
    <3>1. PICK u : u = IF Deleting /\ ~Pending(Command("cherry", t))
                       THEN history.unseen \cup {NewCommit(t)} ELSE history.unseen
      OBVIOUS
    <3>2. /\ MayCommit(t) /\ place[t] = "clean"
          /\ own' = [own EXCEPT ![t] = @ \cup {NewCommit(t)}]
          /\ history' = [history EXCEPT !.made = @ \cup {NewCommit(t)}, !.unseen = u]
          /\ UNCHANGED <<vars, head, moved, branch, folder, place, planner, stage, review, applying, deletion>>
      BY <2>2, <3>1 DEF HostCommits
    <3>3. u \in SUBSET Commits
      BY <1>2, <3>1, <3>2, NewCommitIsNew DEF HistoryType
    <3>4. history' \in HistoryType /\ own' \in [Tasks -> Branches]
      BY <2>1, <3>2, <3>3
    <3>. QED
      BY <1>1, <1>5, <3>2, <3>4 DEF CleanupTypeOK
  <2>3. CASE CommitTask(t) /\ place[t] = "dirty"
    <3>1. MayCommit(t)
      BY <2>3 DEF CleanupConsistent, Numbered
    <3>2. /\ own' = [own EXCEPT ![t] = @ \cup {NewCommit(t)}]
          /\ place' = [place EXCEPT ![t] = "clean"]
          /\ history' = [history EXCEPT !.made = @ \cup {NewCommit(t)}]
          /\ stage' = [stage EXCEPT ![t] = "integrate"]
          /\ UNCHANGED <<vars, head, moved, branch, folder, planner, review, applying, deletion>>
      BY <2>3 DEF CommitTask
    <3>3. history' = [history EXCEPT !.made = @ \cup {NewCommit(t)}, !.unseen = history.unseen]
      BY <1>2, <3>2 DEF HistoryType
    <3>4. history.unseen \in SUBSET Commits
      BY <1>2 DEF HistoryType
    <3>5. history' \in HistoryType /\ own' \in [Tasks -> Branches]
      BY <2>1, <2>3, <3>1, <3>2, <3>3, <3>4
    <3>6. place' \in [Tasks -> {"absent", "clean", "dirty"}] /\ stage' \in [Tasks -> Stages]
      BY <1>1, <3>2 DEF CleanupTypeOK, Stages
    <3>. QED
      BY <1>1, <1>5, <3>2, <3>5, <3>6 DEF CleanupTypeOK
  <2>4. CASE CommitTask(t) /\ place[t] # "dirty"
    BY <1>1, <2>4 DEF CleanupTypeOK, CommitTask, Stages, Outcomes
  <2>. QED
    BY <1>12, <2>2, <2>3, <2>4
<1>13. ASSUME NEW t \in Tasks, Integrate(t)
       PROVE  CleanupTypeOK'
  <2>1. PICK before : before = IF branch = NoBranch THEN head ELSE branch
    OBVIOUS
  <2>2. /\ folder' = TRUE
        /\ \/ /\ place[t] # "absent" /\ branch' = before \cup own[t]
              /\ stage' = [stage EXCEPT ![t] = "succeeded"]
           \/ branch' = before /\ stage' = [stage EXCEPT ![t] = "blocked"]
           \/ branch' = before /\ stage' = [stage EXCEPT ![t] = "failed"]
        /\ UNCHANGED <<vars, head, moved, own, place, planner, review, applying, deletion>>
    BY <1>13, <2>1 DEF Integrate
  <2>3. before \in SUBSET Commits
    BY <1>3, <2>1, SomeBranch
  <2>4. place[t] # "absent" => own[t] \in Branches /\ own[t] # NoBranch
    BY <1>1 DEF CleanupConsistent, TasksAgree, CleanupTypeOK
  <2>5. branch' \in Branches
    BY <2>2, <2>3, <2>4 DEF Branches
  <2>6. stage' \in [Tasks -> Stages]
    BY <1>1, <2>2 DEF CleanupTypeOK, Stages, Outcomes
  <2>7. PICK r : r = Remade(MakingBranch)
    OBVIOUS
  <2>8. r \in SUBSET Commands /\ history' = [history EXCEPT !.remade = r]
    BY <1>2, <1>13, <2>7, MadeAgain DEF Integrate
  <2>9. history' \in HistoryType
    BY <1>2, <2>8 DEF HistoryType
  <2>. QED
    BY <1>1, <1>5, <2>2, <2>5, <2>6, <2>9 DEF CleanupTypeOK
<1>14. CASE Apply \/ UserCommits
  BY <1>1, <1>14 DEF CleanupTypeOK, Apply, UserCommits, gitVars
<1>15. CASE FastForward
  <2>1. CASE branch # NoBranch /\ head' = branch /\ history' = [history EXCEPT !.applied = branch]
    <3>1. history' \in HistoryType
      BY <1>2, <1>3, <2>1 DEF HistoryType
    <3>2. head' \in SUBSET Commits
      BY <1>3, <2>1, SomeBranch
    <3>. QED
      BY <1>1, <1>15, <3>1, <3>2 DEF CleanupTypeOK, FastForward, HistoryType
  <2>2. CASE UNCHANGED <<head, history>>
    BY <1>1, <1>15, <2>2 DEF CleanupTypeOK, FastForward
  <2>. QED
    BY <1>15, <2>1, <2>2 DEF FastForward
<1>16. CASE UserMerges
  <2>1. head' \in SUBSET Commits
    BY <1>3, <1>16, SomeBranch DEF UserMerges
  <2>. QED
    BY <1>1, <1>16, <2>1 DEF CleanupTypeOK, UserMerges
<1>17. CASE StartDeletion
  <2>1. deletion' \in Seq(Commands)
    BY <1>1, <1>17, DeletionMade DEF StartDeletion
  <2>2. history' \in HistoryType
    BY <1>17, HistorySeen
  <2>. QED
    BY <1>1, <1>17, <2>1, <2>2 DEF CleanupTypeOK, StartDeletion, gitVars, HistoryType
<1>18. CASE DeletionStep
  <2>1. deletion \in Seq(Commands)
    BY <1>1 DEF CleanupTypeOK
  <2>2. /\ deletion' \in Seq(Commands) /\ history' \in HistoryType
        /\ UNCHANGED <<head, moved, planner, stage, review, applying>>
    BY <1>18, <2>1, DeletionSeen, HistorySeen
  <2>3. \/ UNCHANGED <<place, own, folder, branch>>
        \/ \E c \in Commands :
             /\ place' = [t \in Tasks |-> IF c = Command("remove", t) THEN "absent" ELSE place[t]]
             /\ own' = [t \in Tasks |-> IF c = Command("branch", t) THEN NoBranch ELSE own[t]]
             /\ folder' = (folder /\ c.do # "removeRun")
             /\ branch' = IF c.do = "runBranch" THEN NoBranch ELSE branch
    BY <1>18, <2>1, DeletionSeen
  <2>4. NoBranch \in Branches
    BY DEF Branches
  <2>5. /\ place' \in [Tasks -> {"absent", "clean", "dirty"}] /\ own' \in [Tasks -> Branches]
        /\ folder' \in BOOLEAN /\ branch' \in Branches
    <3>1. CASE UNCHANGED <<place, own, folder, branch>>
      BY <1>1, <3>1 DEF CleanupTypeOK
    <3>2. ASSUME NEW c \in Commands,
                 place' = [t \in Tasks |-> IF c = Command("remove", t) THEN "absent" ELSE place[t]],
                 own' = [t \in Tasks |-> IF c = Command("branch", t) THEN NoBranch ELSE own[t]],
                 folder' = (folder /\ c.do # "removeRun"),
                 branch' = IF c.do = "runBranch" THEN NoBranch ELSE branch
          PROVE  /\ place' \in [Tasks -> {"absent", "clean", "dirty"}] /\ own' \in [Tasks -> Branches]
                 /\ folder' \in BOOLEAN /\ branch' \in Branches
      <4>1. \A t \in Tasks : (IF c = Command("remove", t) THEN "absent" ELSE place[t])
                               \in {"absent", "clean", "dirty"}
        BY <1>1 DEF CleanupTypeOK
      <4>2. \A t \in Tasks : (IF c = Command("branch", t) THEN NoBranch ELSE own[t]) \in Branches
        BY <1>1, <2>4 DEF CleanupTypeOK
      <4>3. folder' \in BOOLEAN
        BY <1>1, <3>2 DEF CleanupTypeOK
      <4>4. branch' \in Branches
        BY <1>1, <2>4, <3>2 DEF CleanupTypeOK
      <4>. QED
        BY <3>2, <4>1, <4>2, <4>3, <4>4
    <3>. QED
      BY <2>3, <3>1, <3>2
  <2>. QED
    BY <1>1, <2>2, <2>5 DEF CleanupTypeOK, HistoryType
<1>19. CASE CrashOfExecution
  BY <1>1, <1>19 DEF CleanupTypeOK, CrashOfExecution, gitVars, Stages
<1>20. CASE CrashOfDeletion
  <2>1. deletion' \in Seq(Commands)
    BY <1>20, OneCommand DEF CrashOfDeletion, GiveUpDeletion
  <2>2. history' \in HistoryType
    BY <1>20, HistorySeen
  <2>. QED
    BY <1>1, <1>20, <2>1, <2>2 DEF CleanupTypeOK, CrashOfDeletion, gitVars, HistoryType
<1>21. CASE UNCHANGED allVars
  BY <1>1, <1>21 DEF CleanupTypeOK, allVars, gitVars
<1>. QED
  BY <1>6, <1>7, <1>8, <1>9, <1>10, <1>11, <1>12, <1>13, <1>14, <1>15, <1>16, <1>17, <1>18, <1>19,
     <1>20, <1>21 DEF CleanupNext

-----------------------------------------------------------------------------
(* Every step keeps the numbers of the commits. *)

\* Either nothing is committed, or the next commit of one task.
LEMMA MadeSeen ==
  ASSUME CleanupConsistent, [CleanupNext]_allVars
  PROVE  \/ history'.made = history.made
         \/ \E t \in Tasks :
              /\ MayCommit(t) /\ place[t] # "absent" /\ place'[t] # "dirty"
              /\ HostCommits(t) \/ (CommitTask(t) /\ place[t] = "dirty")
              /\ \A u \in Tasks \ {t} : place'[u] = place[u]
              /\ history'.made = history.made \cup {NewCommit(t)}
<1>1. history \in HistoryType /\ place \in [Tasks -> {"absent", "clean", "dirty"}]
  BY DEF CleanupConsistent, CleanupTypeOK, HistoryType
<1>2. \A x : [history EXCEPT !.remade = x].made = history.made
  BY <1>1 DEF HistoryType
<1>3. \A x : [history EXCEPT !.reviewed = x].made = history.made
  BY <1>1 DEF HistoryType
<1>4. \A x : [history EXCEPT !.applied = x].made = history.made
  BY <1>1 DEF HistoryType
<1>5. ASSUME UNCHANGED history PROVE history'.made = history.made
  BY <1>5
<1>6. CASE (\E mode \in Deliveries : Open(mode)) \/ BeginPlanning \/ PlanArrives \/ MakeBranch
           \/ EndReview \/ (\E p \in Plans : Publish(p)) \/ (\E e \in Executors : Claim(e))
  BY <1>5, <1>6 DEF Open, BeginPlanning, PlanArrives, MakeBranch, EndReview, Publish, Claim
<1>7. CASE StartReview
  BY <1>3, <1>7 DEF StartReview
<1>8. CASE \E t \in Tasks : PrepareTask(t) \/ Integrate(t)
  BY <1>2, <1>8 DEF PrepareTask, Integrate
<1>9. CASE \E t \in Tasks : Edit(t) \/ WorkerAnswers(t) \/ HostSubmits(t) \/ Submit(t)
  BY <1>5, <1>9 DEF Edit, WorkerAnswers, HostSubmits, Submit
<1>10. ASSUME NEW t \in Tasks, HostCommits(t)
       PROVE  /\ MayCommit(t) /\ place[t] # "absent" /\ place'[t] # "dirty"
              /\ \A u \in Tasks \ {t} : place'[u] = place[u]
              /\ history'.made = history.made \cup {NewCommit(t)}
  BY <1>1, <1>10 DEF HostCommits, HistoryType
<1>11. ASSUME NEW t \in Tasks, CommitTask(t), place[t] = "dirty"
       PROVE  /\ MayCommit(t) /\ place[t] # "absent" /\ place'[t] # "dirty"
              /\ \A u \in Tasks \ {t} : place'[u] = place[u]
              /\ history'.made = history.made \cup {NewCommit(t)}
  <2>1. MayCommit(t)
    BY <1>11 DEF CleanupConsistent, Numbered
  <2>. QED
    BY <1>1, <1>11, <2>1 DEF CommitTask, HistoryType
<1>12. CASE \E t \in Tasks : CommitTask(t) /\ place[t] # "dirty"
  BY <1>5, <1>12 DEF CommitTask
<1>13. CASE FastForward
  BY <1>4, <1>5, <1>13 DEF FastForward
<1>14. CASE Cancel \/ Apply \/ UserCommits \/ UserMerges \/ CrashOfExecution \/ UNCHANGED allVars
  BY <1>5, <1>14 DEF Cancel, Apply, UserCommits, UserMerges, CrashOfExecution, allVars
<1>15. CASE StartDeletion \/ DeletionStep \/ CrashOfDeletion
  BY <1>15, HistorySeen
<1>. QED
  BY <1>6, <1>7, <1>8, <1>9, <1>10, <1>11, <1>12, <1>13, <1>14, <1>15 DEF CleanupNext

\* A worktree gets dirty only by a worker that may commit.
LEMMA DirtySeen ==
  ASSUME CleanupConsistent, [CleanupNext]_allVars, NEW t \in Tasks,
         place'[t] = "dirty", place[t] # "dirty"
  PROVE  Edit(t) /\ history'.made = history.made
<1>1. place \in [Tasks -> {"absent", "clean", "dirty"}]
  BY DEF CleanupConsistent, CleanupTypeOK
<1>2. ASSUME UNCHANGED place PROVE FALSE
  BY <1>2
<1>3. CASE (\E mode \in Deliveries : Open(mode)) \/ BeginPlanning \/ PlanArrives \/ MakeBranch
           \/ EndReview \/ (\E p \in Plans : Publish(p)) \/ (\E e \in Executors : Claim(e))
           \/ StartReview
  BY <1>2, <1>3 DEF Open, BeginPlanning, PlanArrives, MakeBranch, EndReview, Publish, Claim,
                    StartReview, gitVars
<1>4. ASSUME NEW u \in Tasks, PrepareTask(u) \/ CommitTask(u) PROVE FALSE
  BY <1>1, <1>4 DEF PrepareTask, CommitTask
<1>5. ASSUME NEW u \in Tasks, HostCommits(u) \/ WorkerAnswers(u) \/ HostSubmits(u) \/ Submit(u) \/ Integrate(u)
      PROVE  FALSE
  BY <1>2, <1>5 DEF HostCommits, WorkerAnswers, HostSubmits, Submit, Integrate, gitVars
<1>6. ASSUME NEW u \in Tasks, Edit(u)
      PROVE  u = t /\ history'.made = history.made
  BY <1>1, <1>6 DEF Edit
<1>7. CASE DeletionStep
  BY <1>2, <1>7 DEF DeletionStep
<1>8. CASE Cancel \/ Apply \/ FastForward \/ UserCommits \/ UserMerges \/ StartDeletion
           \/ CrashOfExecution \/ CrashOfDeletion \/ UNCHANGED allVars
  BY <1>2, <1>8 DEF Cancel, Apply, FastForward, UserCommits, UserMerges, StartDeletion,
                    CrashOfExecution, CrashOfDeletion, allVars, gitVars
<1>. QED
  BY <1>3, <1>4, <1>5, <1>6, <1>7, <1>8 DEF CleanupNext

\* A commit is the next of its task.
LEMMA StepNumbered ==
  ASSUME CleanupConsistent, [CleanupNext]_allVars
  PROVE  Numbered'
<1>1. \A t \in Tasks :
        /\ \E n \in 0..MaxCommits : CommitsOf(t) = {<<t, m>> : m \in 1..n}
        /\ place[t] = "dirty" => t \notin HostTasks /\ MayCommit(t)
  BY DEF CleanupConsistent, Numbered
<1>2. \A t \in Tasks : CommitsOf(t)' = {c \in history'.made : c[1] = t}
  BY DEF CommitsOf
<1>3. CASE history'.made = history.made
  <2>1. \A t \in Tasks : CommitsOf(t)' = CommitsOf(t) /\ MayCommit(t)' = MayCommit(t)
    BY <1>3 DEF CommitsOf, MayCommit
  <2>2. \A t \in Tasks : place'[t] = "dirty" => t \notin HostTasks /\ MayCommit(t)
    BY <1>1, DirtySeen DEF Edit
  <2>. QED
    BY <1>1, <2>1, <2>2 DEF Numbered
<1>4. ASSUME NEW t \in Tasks, MayCommit(t), place'[t] # "dirty",
             \A u \in Tasks \ {t} : place'[u] = place[u],
             history'.made = history.made \cup {NewCommit(t)}
      PROVE  Numbered'
  <2>1. /\ NewCommit(t)[1] = t
        /\ \E n \in 0..MaxCommits : CommitsOf(t) \cup {NewCommit(t)} = {<<t, m>> : m \in 1..n}
    BY <1>4, NewCommitIsNew
  <2>2. CommitsOf(t)' = CommitsOf(t) \cup {NewCommit(t)}
    BY <1>4, <2>1 DEF CommitsOf
  <2>3. \A u \in Tasks \ {t} : CommitsOf(u)' = CommitsOf(u)
    BY <1>4, <2>1 DEF CommitsOf
  <2>4. \A u \in Tasks \ {t} : MayCommit(u)' = MayCommit(u)
    BY <2>3 DEF MayCommit
  <2>5. \A u \in Tasks : \E n \in 0..MaxCommits : CommitsOf(u)' = {<<u, m>> : m \in 1..n}
    BY <1>1, <2>1, <2>2, <2>3
  <2>6. \A u \in Tasks : place'[u] = "dirty" => u \notin HostTasks /\ MayCommit(u)'
    BY <1>1, <1>4, <2>4
  <2>. QED
    BY <2>5, <2>6 DEF Numbered
<1>. QED
  BY <1>3, <1>4, MadeSeen

-----------------------------------------------------------------------------
(* Every step keeps what is said of each task. *)

\* No step but a claim, a result, the plan, the end of the row and a cancellation
\* changes more of the rows than the status of the run.
LEMMA RowsSeen ==
  ASSUME CleanupConsistent,
         \/ \E mode \in Deliveries : Open(mode)
         \/ BeginPlanning \/ MakeBranch \/ StartReview \/ EndReview
  PROVE  /\ UNCHANGED <<plan, status>>
         /\ run' = run \/ run' \in RunStatuses \ {"running", "cancelled"}
         /\ run \in TerminalRun \cup {"deleted"} => run' = run
         /\ run' = "planning" => run' = run \/ (BeginPlanning /\ run = "created" /\ planner' = "asking")
         /\ run' = "completed" => run' = run \/ (EndReview /\ run = "reviewing")
         /\ run' = "reviewing" => run' = run \/ (StartReview /\ run = "integrating")
         /\ run' = "failed" => run' = run \/ (BeginPlanning /\ run = "created") \/ (MakeBranch /\ run = "planning")
<1>1. Consistent /\ ActorsAgree
  BY DEF CleanupConsistent
<1>2. CASE \E mode \in Deliveries : Open(mode)
  BY <1>2 DEF Open, CreateRun, details, RunStatuses, TerminalRun
<1>3. CASE UNCHANGED vars
  BY <1>3 DEF vars
<1>4. CASE BeginPlanning
  <2>1. /\ run = "created"
        /\ (SetRunStatus("planning") /\ planner' = "asking") \/ SetRunStatus("failed")
    BY <1>4 DEF BeginPlanning
  <2>2. UNCHANGED <<plan, status>> /\ run' \in {"planning", "failed"}
    BY <2>1 DEF SetRunStatus, details
  <2>. QED
    BY <1>4, <2>1, <2>2 DEF SetRunStatus, RunStatuses, TerminalRun
<1>5. CASE MakeBranch
  <2>1. run # "running" /\ run \in {"planning", "cancelled", "deleted"}
    BY <1>1, <1>5 DEF MakeBranch, ActorsAgree
  <2>2. CASE SetRunStatus("failed")
    <3>1. run' = "failed" /\ UNCHANGED <<plan, status>> /\ run \notin TerminalRun
      BY <1>1, <2>1, <2>2, SetStatusSeen
    <3>2. run # "deleted" /\ run # "cancelled"
      BY <2>2, <3>1 DEF SetRunStatus, Accepts, RunStatuses, TerminalRun
    <3>. QED
      BY <1>5, <2>1, <3>1, <3>2 DEF RunStatuses, TerminalRun
  <2>. QED
    BY <1>3, <1>5, <2>2 DEF MakeBranch
<1>6. CASE StartReview
  <2>1. CASE run = "integrating" /\ SetRunStatus("reviewing")
    BY <1>6, <2>1 DEF SetRunStatus, details, RunStatuses, TerminalRun
  <2>. QED
    BY <1>3, <1>6, <2>1 DEF StartReview
<1>7. CASE EndReview
  <2>1. run # "running"
    BY <1>1, <1>7 DEF EndReview, ActorsAgree
  <2>2. ASSUME NEW s \in {"completed", "blocked"}, SetRunStatus(s)
        PROVE  /\ run' = s /\ UNCHANGED <<plan, status>> /\ run \notin TerminalRun /\ run \in RunStatuses
               /\ s = "completed" => run = "reviewing"
    BY <1>1, <2>1, <2>2, SetStatusSeen DEF SetRunStatus, Accepts
  <2>3. CASE \E s \in {"completed", "blocked"} : SetRunStatus(s)
    BY <1>7, <2>2, <2>3 DEF RunStatuses, TerminalRun
  <2>. QED
    BY <1>3, <1>7, <2>3 DEF EndReview
<1>. QED
  BY <1>2, <1>4, <1>5, <1>6, <1>7

\* Nobody comes to work at a task that is not running, but who was not told.
LEMMA StepTasks ==
  ASSUME CleanupConsistent, [CleanupNext]_allVars
  PROVE  TasksAgree'
<1>1. /\ \A t \in Tasks :
           /\ Busy(t) => Stopped \/ status[t] = "running"
           /\ t \in HostTasks => stage[t] # "commit"
           /\ place[t] # "absent" => own[t] # NoBranch
           /\ run # "deleted" /\ t \notin plan.tasks
                => own[t] = NoBranch /\ place[t] = "absent" /\ stage[t] = "none"
      /\ ActorsAgree /\ Consistent /\ Consistent'
  BY StepRows DEF CleanupConsistent, TasksAgree
<1>2. /\ own \in [Tasks -> Branches] /\ place \in [Tasks -> {"absent", "clean", "dirty"}]
      /\ stage \in [Tasks -> Stages] /\ branch \in Branches /\ head \in SUBSET Commits
  BY DEF CleanupConsistent, CleanupTypeOK
<1>3. /\ \A t \in Tasks : Busy(t) <=> stage[t] # "none" /\ ~(t \in HostTasks /\ stage[t] = "working")
      /\ \A t \in Tasks : Busy(t)' <=> stage'[t] # "none" /\ ~(t \in HostTasks /\ stage'[t] = "working")
      /\ Stopped <=> run \in {"cancelled", "deleted"}
      /\ Stopped' <=> run' \in {"cancelled", "deleted"}
      /\ TasksAgree' <=>
           \A t \in Tasks :
             /\ Busy(t)' => Stopped' \/ status'[t] = "running"
             /\ t \in HostTasks => stage'[t] # "commit"
             /\ place'[t] # "absent" => own'[t] # NoBranch
             /\ run' # "deleted" /\ t \notin plan'.tasks
                  => own'[t] = NoBranch /\ place'[t] = "absent" /\ stage'[t] = "none"
  BY DEF Busy, Stopped, TasksAgree
<1>4. ASSUME UNCHANGED <<stage, own, place, plan, status>>, Stopped => Stopped',
             run = "deleted" => run' = "deleted"
      PROVE  TasksAgree'
  BY <1>1, <1>3, <1>4
<1>. HIDE DEF Stages
<1>5. CASE \/ \E mode \in Deliveries : Open(mode)
           \/ BeginPlanning \/ MakeBranch \/ StartReview \/ EndReview
  <2>1. UNCHANGED <<stage, own, place>>
    BY <1>5 DEF Open, BeginPlanning, MakeBranch, StartReview, EndReview, gitVars
  <2>2. UNCHANGED <<plan, status>> /\ (run \in {"cancelled", "deleted"} => run' = run)
    BY <1>5, RowsSeen DEF TerminalRun
  <2>. QED
    BY <1>3, <1>4, <2>1, <2>2
<1>6. CASE PlanArrives \/ Apply \/ FastForward \/ UserCommits \/ UserMerges
           \/ StartDeletion \/ CrashOfDeletion \/ UNCHANGED allVars
  BY <1>3, <1>4, <1>6 DEF PlanArrives, Apply, FastForward, UserCommits, UserMerges,
                          StartDeletion, CrashOfDeletion, allVars, gitVars, vars
<1>7. CASE \E p \in Plans : Publish(p)
  <2>1. UNCHANGED <<stage, own, place>>
    BY <1>7 DEF Publish, gitVars
  <2>2. CASE UNCHANGED vars
    BY <1>3, <1>4, <2>1, <2>2 DEF vars
  <2>3. CASE run = "planning"
    <3>1. \A t \in Tasks : own[t] = NoBranch /\ place[t] = "absent" /\ stage[t] = "none"
      BY <1>1, <2>3 DEF Consistent, PlanWhenPlanned, NoPlan
    <3>. QED
      BY <1>3, <2>1, <3>1
  <2>. QED
    BY <1>1, <1>7, <2>2, <2>3 DEF Publish, SavePlan, ActorsAgree
<1>8. CASE \E e \in Executors : Claim(e)
  <2>1. PICK t \in Tasks :
          /\ t \in plan.tasks /\ UNCHANGED <<run, plan, own, place>>
          /\ status' = [status EXCEPT ![t] = "running"]
          /\ stage' = [stage EXCEPT ![t] = "claimed"]
    BY <1>8, ClaimSeen DEF Claim, gitVars
  <2>2. status'[t] = "running" /\ stage'[t] = "claimed"
    BY <1>1, <1>2, <2>1 DEF Consistent, RowsTyped
  <2>3. \A u \in Tasks \ {t} : status'[u] = status[u] /\ stage'[u] = stage[u]
    BY <2>1
  <2>. QED
    BY <1>1, <1>3, <2>1, <2>2, <2>3
<1>9. ASSUME NEW t \in Tasks, PrepareTask(t)
      PROVE  TasksAgree'
  <2>1. /\ stage[t] = "claimed" /\ UNCHANGED <<run, plan, status>>
        /\ branch' = (IF branch = NoBranch THEN head ELSE branch)
        /\ own' = [own EXCEPT ![t] = IF own[t] = NoBranch THEN branch' ELSE own[t]]
        /\ place' = [place EXCEPT ![t] = IF place[t] = "absent" THEN "clean" ELSE place[t]]
        /\ \/ status[t] = "running" /\ stage' = [stage EXCEPT ![t] = "working"]
           \/ stage' = [stage EXCEPT ![t] = "none"]
    BY <1>9 DEF PrepareTask, PrepareRun, SetTaskWorktree, vars
  <2>2. branch' # NoBranch
    BY <1>2, <2>1, SomeBranch
  <2>3. own'[t] # NoBranch /\ stage'[t] \in {"none", "working"}
        /\ (stage'[t] = "working" => status[t] = "running")
    BY <1>2, <2>1, <2>2
  <2>4. \A u \in Tasks \ {t} : own'[u] = own[u] /\ place'[u] = place[u] /\ stage'[u] = stage[u]
    BY <1>2, <2>1
  <2>5. run = "deleted" \/ t \in plan.tasks
    BY <1>1, <2>1
  <2>. QED
    BY <1>1, <1>3, <2>1, <2>3, <2>4, <2>5
<1>10. ASSUME NEW t \in Tasks, Edit(t) \/ WorkerAnswers(t) \/ HostSubmits(t)
       PROVE  TasksAgree'
  <2>1. /\ stage[t] = "working" /\ UNCHANGED <<vars, own>>
        /\ t \in HostTasks => stage'[t] # "commit" /\ (stage'[t] # "working" => status[t] = "running")
        /\ place'[t] # "absent" => place[t] # "absent"
        /\ \A u \in Tasks \ {t} : place'[u] = place[u] /\ stage'[u] = stage[u]
    BY <1>2, <1>10 DEF Edit, WorkerAnswers, HostSubmits, gitVars
  <2>2. t \notin HostTasks => Busy(t)
    BY <1>3, <2>1
  <2>3. run # "deleted" => t \in plan.tasks
    BY <1>1, <2>1
  <2>. QED
    BY <1>1, <1>3, <2>1, <2>2, <2>3 DEF vars
<1>11. ASSUME NEW t \in Tasks, HostCommits(t) \/ (CommitTask(t) /\ place[t] = "dirty")
       PROVE  TasksAgree'
  <2>1. PICK c : c = NewCommit(t)
    OBVIOUS
  <2>2. /\ place[t] # "absent" /\ UNCHANGED vars
        /\ own' = [own EXCEPT ![t] = own[t] \cup {c}]
        /\ \A u \in Tasks \ {t} : place'[u] = place[u] /\ stage'[u] = stage[u]
        /\ (stage'[t] = "integrate" /\ stage[t] = "commit") \/ stage'[t] = stage[t]
    BY <1>2, <1>11, <2>1 DEF HostCommits, CommitTask
  <2>3. MayCommit(t)
    BY <1>11 DEF HostCommits, CleanupConsistent, Numbered
  <2>4. c \in Commits
    BY <2>1, <2>3, NewCommitIsNew
  <2>5. own'[t] # NoBranch
    <3>1. own[t] \in Branches /\ own[t] # NoBranch /\ {c} \in SUBSET Commits
      BY <1>1, <1>2, <2>2, <2>4
    <3>. QED
      BY <1>2, <2>2, <3>1, SomeBranch
  <2>6. \A u \in Tasks \ {t} : own'[u] = own[u]
    BY <1>2, <2>2
  <2>7. run # "deleted" => t \in plan.tasks
    BY <1>1, <2>2
  <2>8. Busy(t)' => Busy(t)
    BY <1>3, <2>2
  <2>9. t \in HostTasks => stage'[t] # "commit"
    BY <1>1, <2>2
  <2>. QED
    BY <1>1, <1>3, <2>2, <2>5, <2>6, <2>7, <2>8, <2>9 DEF vars
<1>12. ASSUME NEW t \in Tasks, Integrate(t) \/ (CommitTask(t) /\ place[t] # "dirty")
       PROVE  TasksAgree'
  <2>1. /\ stage[t] \in {"commit", "integrate"} /\ UNCHANGED <<vars, own, place>>
        /\ stage'[t] # "commit"
        /\ \A u \in Tasks \ {t} : stage'[u] = stage[u]
    BY <1>2, <1>12 DEF Integrate, CommitTask
  <2>2. Busy(t)
    BY <1>3, <2>1
  <2>3. run # "deleted" => t \in plan.tasks
    BY <1>1, <2>1
  <2>. QED
    BY <1>1, <1>3, <2>1, <2>2, <2>3 DEF vars
<1>13. ASSUME NEW t \in Tasks, Submit(t)
       PROVE  TasksAgree'
  <2>1. /\ stage[t] \in Outcomes /\ UNCHANGED <<own, place>>
        /\ stage'[t] = IF t \in HostTasks THEN "working" ELSE "none"
        /\ \A u \in Tasks \ {t} : stage'[u] = stage[u]
        /\ SubmitTaskResult(t, claimant[t], stage[t], TRUE, TRUE) \/ UNCHANGED vars
    BY <1>2, <1>13 DEF Submit, gitVars
  <2>2. ~Busy(t)'
    BY <1>3, <2>1
  <2>3. run # "deleted" => t \in plan.tasks
    BY <1>1, <2>1 DEF Outcomes
  <2>4. CASE UNCHANGED vars
    BY <1>1, <1>3, <2>1, <2>2, <2>3, <2>4 DEF vars
  <2>5. CASE SubmitTaskResult(t, claimant[t], stage[t], TRUE, TRUE)
    <3>1. /\ run = "running" /\ UNCHANGED plan /\ run' # "deleted"
          /\ \A u \in Tasks : status'[u] = "running" <=> u # t /\ status[u] = "running"
      BY <2>1, <2>5, SubmitSeen
    <3>2. \A u \in Tasks \ {t} : Busy(u)' => status'[u] = "running"
      BY <1>1, <1>3, <2>1, <3>1
    <3>. QED
      BY <1>1, <1>3, <2>1, <2>2, <2>3, <3>1, <3>2
  <2>. QED
    BY <2>1, <2>4, <2>5
<1>14. CASE Cancel
  <2>1. UNCHANGED <<stage, own, place, plan>> /\ run' = "cancelled" /\ run # "deleted"
    BY <1>14 DEF Cancel, CancelRun, gitVars, details, RunStatuses
  <2>. QED
    BY <1>1, <1>3, <2>1
<1>15. CASE DeletionStep
  <2>1. UNCHANGED stage
    BY <1>15 DEF DeletionStep
  <2>2. deletion \in Seq(Commands)
    BY DEF CleanupConsistent, CleanupTypeOK
  <2>3. CASE UNCHANGED <<vars, place, own, folder, branch>>
    BY <1>3, <1>4, <2>1, <2>3 DEF vars
  <2>4. ASSUME NEW c \in Commands, Passes(c),
               place' = [t \in Tasks |-> IF c = Command("remove", t) THEN "absent" ELSE place[t]],
               own' = [t \in Tasks |-> IF c = Command("branch", t) THEN NoBranch ELSE own[t]],
               IF c.do = "row" THEN DeleteRunRecord ELSE UNCHANGED vars
        PROVE  TasksAgree'
    <3>1. \A t \in Tasks : /\ place'[t] # "absent" => place[t] # "absent"
                           /\ own'[t] # own[t] => own'[t] = NoBranch /\ c = Command("branch", t)
      BY <2>4
    <3>2. \A t \in Tasks : c = Command("branch", t) => place[t] = "absent"
      BY <2>4 DEF Passes, Command
    <3>3. UNCHANGED <<run, plan, status>> \/ run' = "deleted"
      BY <2>4 DEF DeleteRunRecord, vars
    <3>4. \A t \in Tasks : place'[t] # "absent" => own'[t] # NoBranch
      BY <1>1, <3>1, <3>2
    <3>. QED
      BY <1>1, <1>3, <2>1, <3>1, <3>3, <3>4
  <2>. QED
    BY <1>15, <2>2, <2>3, <2>4, DeletionSeen
<1>16. CASE CrashOfExecution
  <2>1. /\ UNCHANGED <<vars, own, place>>
        /\ \A t \in Tasks : \/ stage'[t] = "none"
                            \/ stage[t] # "none" /\ t \in HostTasks /\ stage'[t] = "working"
    BY <1>16 DEF CrashOfExecution, gitVars
  <2>. QED
    BY <1>1, <1>3, <2>1 DEF vars
<1>. QED
  BY <1>5, <1>6, <1>7, <1>8, <1>9, <1>10, <1>11, <1>12, <1>13, <1>14, <1>15, <1>16 DEF CleanupNext

-----------------------------------------------------------------------------
(* Every step keeps what is said of the planner and the finalizer. *)

\* Who plans or reviews does so in a run that nobody else decided.
LEMMA StepActors ==
  ASSUME CleanupConsistent, [CleanupNext]_allVars
  PROVE  ActorsAgree'
<1>1. /\ ActorsAgree /\ Consistent
      /\ planner \in {"none", "asking", "preparing", "saving"} /\ review \in {"none", "open"}
  BY DEF CleanupConsistent, CleanupTypeOK
<1>2. NoPlan.tasks = {}
  BY DEF NoPlan
<1>3. run \in {"none", "created", "planning"} => plan = NoPlan
  BY <1>1 DEF Consistent, PlanWhenPlanned
<1>4. ASSUME UNCHANGED <<run, plan, status>>,
             planner' # "none" => planner # "none", review' = "open" => review = "open"
      PROVE  ActorsAgree'
  BY <1>1, <1>4 DEF ActorsAgree
<1>5. ASSUME NEW mode \in Deliveries, Open(mode)
      PROVE  ActorsAgree'
  BY <1>1, <1>3, <1>5 DEF Open, CreateRun, ActorsAgree
<1>6. CASE BeginPlanning
  <2>1. /\ run = "created" /\ plan = NoPlan /\ UNCHANGED <<plan, status, review>>
        /\ \/ run' = "planning"
           \/ run' = "failed" /\ UNCHANGED planner
    BY <1>3, <1>6 DEF BeginPlanning, SetRunStatus, details
  <2>. QED
    BY <1>1, <1>2, <2>1 DEF ActorsAgree
<1>7. CASE MakeBranch
  <2>1. CASE UNCHANGED vars
    BY <1>4, <1>7, <2>1 DEF MakeBranch, vars
  <2>2. CASE SetRunStatus("failed")
    <3>1. /\ planner' = "none" /\ UNCHANGED review
          /\ plan = NoPlan /\ run \in {"planning", "cancelled", "deleted"}
      <4>1. SetRunStatus("failed") => run' = "failed" /\ run \in RunStatuses /\ "failed" \in RunTransitions[run]
        BY DEF SetRunStatus, Accepts
      <4>2. run = "planning" => plan = NoPlan
        BY <1>3
      <4>3. planner = "preparing"
        BY <1>7 DEF MakeBranch
      <4>4. planner' = "none" \/ UNCHANGED vars
        BY <1>7 DEF MakeBranch
      <4>5. ~UNCHANGED vars
        BY <2>2, <4>1, <4>3, <1>1 DEF vars, ActorsAgree, RunStatuses, RunTransitions
      <4>. QED
        BY <1>1, <1>7, <4>3, <4>4, <4>5 DEF MakeBranch, ActorsAgree
    <3>2. run' = "failed" /\ UNCHANGED <<plan, status>> /\ run \in RunStatuses
          /\ "failed" \in RunTransitions[run]
      BY <2>2 DEF SetRunStatus, Accepts, details
    <3>3. run = "planning"
      BY <3>1, <3>2 DEF RunStatuses, RunTransitions
    <3>. QED
      BY <1>1, <1>2, <3>1, <3>2, <3>3 DEF ActorsAgree
  <2>. QED
    BY <1>7, <2>1, <2>2 DEF MakeBranch
<1>8. CASE StartReview
  <2>1. /\ run \in {"integrating", "reviewing"} /\ run' = "reviewing" /\ UNCHANGED <<plan, status, planner>>
    BY <1>8 DEF StartReview, SetRunStatus, details, vars
  <2>. QED
    BY <1>1, <2>1 DEF ActorsAgree
<1>9. CASE EndReview
  <2>1. review' = "none" /\ UNCHANGED planner
    BY <1>9 DEF EndReview
  <2>2. CASE UNCHANGED vars
    BY <1>4, <2>1, <2>2 DEF vars
  <2>3. CASE SetRunStatus("completed") \/ SetRunStatus("blocked")
    <3>1. /\ run' \in {"completed", "blocked"} /\ UNCHANGED <<plan, status>>
          /\ run \in RunStatuses /\ run' \in RunTransitions[run]
      BY <2>3 DEF SetRunStatus, Accepts, details
    <3>2. run = "reviewing"
      BY <1>1, <1>9, <3>1 DEF EndReview, ActorsAgree, RunStatuses, RunTransitions
    <3>. QED
      BY <1>1, <2>1, <3>1, <3>2 DEF ActorsAgree
  <2>. QED
    BY <1>9, <2>2, <2>3 DEF EndReview
<1>10. CASE PlanArrives
  BY <1>1, <1>4, <1>10 DEF PlanArrives, vars
<1>11. ASSUME NEW p \in Plans, Publish(p)
       PROVE  ActorsAgree'
  <2>1. planner' = "none" /\ UNCHANGED review
    BY <1>11 DEF Publish
  <2>2. CASE UNCHANGED vars
    BY <1>4, <2>1, <2>2 DEF vars
  <2>3. CASE SavePlan(p)
    BY <1>1, <2>1, <2>3 DEF SavePlan, ActorsAgree
  <2>. QED
    BY <1>11, <2>2, <2>3 DEF Publish
<1>12. ASSUME NEW e \in Executors, Claim(e)
       PROVE  ActorsAgree'
  <2>1. run = "running" /\ UNCHANGED <<run, plan, planner, review>>
    BY <1>12, ClaimSeen DEF Claim
  <2>. QED
    BY <1>1, <2>1 DEF ActorsAgree
<1>13. ASSUME NEW t \in Tasks, PrepareTask(t)
       PROVE  ActorsAgree'
  BY <1>4, <1>13 DEF PrepareTask, SetTaskWorktree, vars
<1>14. ASSUME NEW t \in Tasks, Submit(t)
       PROVE  ActorsAgree'
  <2>1. UNCHANGED <<planner, review>>
    BY <1>14 DEF Submit
  <2>2. CASE UNCHANGED vars
    BY <1>4, <2>1, <2>2 DEF vars
  <2>3. CASE SubmitTaskResult(t, claimant[t], stage[t], TRUE, TRUE)
    <3>1. /\ run = "running" /\ UNCHANGED plan
          /\ run' \in {"running", "integrating", "reviewing", "failed", "blocked"}
          /\ run' = "failed" => \A u \in plan.tasks : status'[u] \notin Active
      BY <1>14, <2>3, SubmitSeen DEF Submit
    <3>. QED
      BY <1>1, <2>1, <3>1 DEF ActorsAgree
  <2>. QED
    BY <1>14, <2>2, <2>3 DEF Submit
<1>15. CASE Cancel
  BY <1>1, <1>15 DEF Cancel, CancelRun, details, ActorsAgree, RunStatuses
<1>16. CASE DeletionStep
  <2>1. UNCHANGED <<planner, review>> /\ (DeleteRunRecord \/ UNCHANGED vars)
    BY <1>16 DEF DeletionStep
  <2>2. CASE DeleteRunRecord
    BY <1>1, <2>1, <2>2 DEF DeleteRunRecord, ActorsAgree
  <2>. QED
    BY <1>4, <2>1, <2>2 DEF vars
<1>17. ASSUME NEW t \in Tasks,
              Edit(t) \/ HostCommits(t) \/ WorkerAnswers(t) \/ CommitTask(t) \/ HostSubmits(t) \/ Integrate(t)
       PROVE  ActorsAgree'
  BY <1>4, <1>17 DEF Edit, HostCommits, WorkerAnswers, CommitTask, HostSubmits, Integrate, vars
<1>18. CASE Apply \/ FastForward \/ UserCommits \/ UserMerges \/ StartDeletion
            \/ CrashOfExecution \/ CrashOfDeletion \/ UNCHANGED allVars
  BY <1>4, <1>18 DEF Apply, FastForward, UserCommits, UserMerges, StartDeletion,
                     CrashOfExecution, CrashOfDeletion, allVars, vars
<1>. QED
  BY <1>5, <1>6, <1>7, <1>8, <1>9, <1>10, <1>11, <1>12, <1>13, <1>14, <1>15, <1>16, <1>17, <1>18
     DEF CleanupNext

-----------------------------------------------------------------------------
(* Every step keeps what is said of the reviewed branch. *)

\* A run that has ended stays as it is until its row goes, with the last step of a
\* deletion, and only its review completes a run.
LEMMA RunSeen ==
  ASSUME CleanupConsistent, [CleanupNext]_allVars
  PROVE  /\ run \in TerminalRun \cup {"deleted"} =>
              \/ UNCHANGED <<run, plan>>
              \/ DeletionStep /\ DeleteRunRecord /\ run' = "deleted"
         /\ run' = "completed" => run = "completed" \/ (EndReview /\ run = "reviewing")
         /\ run' = "reviewing" => run \in {"reviewing", "running"} \/ StartReview
<1>1. CASE \/ \E mode \in Deliveries : Open(mode)
           \/ BeginPlanning \/ MakeBranch \/ StartReview \/ EndReview
  BY <1>1, RowsSeen
<1>2. CASE \E p \in Plans : Publish(p)
  BY <1>2 DEF Publish, SavePlan, vars, TerminalRun
<1>3. CASE \E e \in Executors : Claim(e)
  BY <1>3, ClaimSeen DEF TerminalRun
<1>4. ASSUME NEW t \in Tasks, Submit(t), ~UNCHANGED vars
      PROVE  run = "running" /\ run' \in {"running", "integrating", "reviewing", "failed", "blocked"}
  BY <1>4, SubmitSeen DEF Submit
<1>5. ASSUME NEW t \in Tasks, PrepareTask(t) \/ Edit(t) \/ HostCommits(t) \/ WorkerAnswers(t)
             \/ CommitTask(t) \/ HostSubmits(t) \/ Integrate(t)
      PROVE  UNCHANGED <<run, plan>>
  BY <1>5 DEF PrepareTask, Edit, HostCommits, WorkerAnswers, CommitTask, HostSubmits, Integrate,
              SetTaskWorktree, vars
<1>6. CASE Cancel
  BY <1>6 DEF Cancel, CancelRun, TerminalRun, RunStatuses, vars
<1>7. CASE DeletionStep
  <2>1. DeleteRunRecord \/ UNCHANGED vars
    BY <1>7 DEF DeletionStep
  <2>. QED
    BY <1>7, <2>1 DEF DeleteRunRecord, vars, TerminalRun
<1>8. CASE PlanArrives \/ Apply \/ FastForward \/ UserCommits \/ UserMerges
            \/ StartDeletion \/ CrashOfExecution \/ CrashOfDeletion \/ UNCHANGED allVars
  BY <1>8 DEF PlanArrives, Apply, FastForward, UserCommits, UserMerges, StartDeletion,
               CrashOfExecution, CrashOfDeletion, allVars, vars
<1>9. CASE \E t \in Tasks : Submit(t)
  BY <1>4, <1>9 DEF vars, TerminalRun
<1>. QED
  BY <1>1, <1>2, <1>3, <1>5, <1>6, <1>7, <1>8, <1>9 DEF CleanupNext

\* Only somebody at work, the planner, a review or a deletion changes the branch.
LEMMA BranchSeen ==
  ASSUME CleanupConsistent, [CleanupNext]_allVars, branch' # branch
  PROVE  \/ MakeBranch /\ planner # "none"
         \/ \E t \in Tasks : (PrepareTask(t) \/ Integrate(t)) /\ Busy(t)
         \/ StartReview
         \/ DeletionStep /\ branch' = NoBranch /\ run \in TerminalRun
<1>1. ASSUME UNCHANGED branch PROVE FALSE
  BY <1>1
<1>2. CASE (\E mode \in Deliveries : Open(mode)) \/ BeginPlanning \/ PlanArrives
           \/ EndReview \/ (\E p \in Plans : Publish(p)) \/ (\E e \in Executors : Claim(e))
  BY <1>1, <1>2 DEF Open, BeginPlanning, PlanArrives, EndReview, Publish, Claim, gitVars
<1>3. CASE MakeBranch
  BY <1>3 DEF MakeBranch
<1>4. ASSUME NEW t \in Tasks, PrepareTask(t) \/ Integrate(t)
      PROVE  Busy(t)
  BY <1>4 DEF PrepareTask, Integrate, Busy
<1>5. ASSUME NEW t \in Tasks,
             Edit(t) \/ HostCommits(t) \/ WorkerAnswers(t) \/ CommitTask(t) \/ HostSubmits(t) \/ Submit(t)
      PROVE  FALSE
  BY <1>1, <1>5 DEF Edit, HostCommits, WorkerAnswers, CommitTask, HostSubmits, Submit, gitVars
<1>6. CASE Cancel \/ Apply \/ FastForward \/ UserCommits \/ UserMerges \/ StartDeletion
           \/ CrashOfExecution \/ CrashOfDeletion \/ UNCHANGED allVars
  BY <1>1, <1>6 DEF Cancel, Apply, FastForward, UserCommits, UserMerges, StartDeletion,
                    CrashOfExecution, CrashOfDeletion, allVars, gitVars
<1>7. CASE DeletionStep
  <2>1. run \in TerminalRun
    BY <1>7 DEF DeletionStep, CleanupConsistent, DeletionAgrees
  <2>2. branch' = NoBranch
    BY <1>1, <1>7 DEF DeletionStep
  <2>. QED
    BY <1>7, <2>1, <2>2
<1>. QED
  BY <1>2, <1>3, <1>4, <1>5, <1>6, <1>7 DEF CleanupNext

\* Nobody is at work for a run that is neither running nor stopped.
LEMMA IdleRun ==
  ASSUME CleanupConsistent, run \notin {"running", "cancelled", "deleted"}
  PROVE  \A t \in Tasks : ~Busy(t)
  BY RunningRun DEF CleanupConsistent, TasksAgree, Stopped

\* The review a run has had is replaced by another review only.
LEMMA ReviewedSeen ==
  ASSUME CleanupConsistent, [CleanupNext]_allVars
  PROVE  /\ history'.reviewed = history.reviewed \/ StartReview
         /\ \/ history'.applied = history.applied
            \/ FastForward /\ applying /\ branch # NoBranch /\ history'.applied = branch
<1>1. history \in HistoryType
  BY DEF CleanupConsistent, CleanupTypeOK, HistoryType
<1>2. \A x : /\ [history EXCEPT !.remade = x].reviewed = history.reviewed
              /\ [history EXCEPT !.remade = x].applied = history.applied
  BY <1>1 DEF HistoryType
<1>3. \A x : /\ [history EXCEPT !.made = x].reviewed = history.reviewed
              /\ [history EXCEPT !.made = x].applied = history.applied
  BY <1>1 DEF HistoryType
<1>4. \A x, y : /\ [history EXCEPT !.made = x, !.unseen = y].reviewed = history.reviewed
                 /\ [history EXCEPT !.made = x, !.unseen = y].applied = history.applied
  BY <1>1 DEF HistoryType
<1>5. \A x, y : /\ [history EXCEPT !.applied = x].reviewed = history.reviewed
                /\ [history EXCEPT !.applied = x].applied = x
                /\ [history EXCEPT !.reviewed = x].applied = history.applied
  BY <1>1 DEF HistoryType
<1>6. ASSUME UNCHANGED history
      PROVE  history'.reviewed = history.reviewed /\ history'.applied = history.applied
  BY <1>6
<1>7. CASE (\E mode \in Deliveries : Open(mode)) \/ BeginPlanning \/ PlanArrives \/ MakeBranch
           \/ EndReview \/ (\E p \in Plans : Publish(p)) \/ (\E e \in Executors : Claim(e))
  BY <1>6, <1>7 DEF Open, BeginPlanning, PlanArrives, MakeBranch, EndReview, Publish, Claim
<1>8. CASE \E t \in Tasks : PrepareTask(t) \/ Integrate(t)
  BY <1>8, <1>2 DEF PrepareTask, Integrate
<1>9. CASE \E t \in Tasks : HostCommits(t)
  BY <1>9, <1>4 DEF HostCommits
<1>10. CASE \E t \in Tasks : CommitTask(t)
  <2>1. PICK t \in Tasks : CommitTask(t)
    BY <1>10
  <2>2. \/ history' = [history EXCEPT !.made = history.made \cup {NewCommit(t)}]
        \/ UNCHANGED history
    BY <2>1 DEF CommitTask
  <2>. QED
    BY <1>6, <1>3, <2>2
<1>11. CASE \E t \in Tasks : Edit(t) \/ WorkerAnswers(t) \/ HostSubmits(t) \/ Submit(t)
  BY <1>6, <1>11 DEF Edit, WorkerAnswers, HostSubmits, Submit
<1>12. CASE FastForward
  BY <1>5, <1>6, <1>12 DEF FastForward
<1>13. CASE StartReview
  BY <1>5, <1>13 DEF StartReview
<1>14. CASE Cancel \/ Apply \/ UserCommits \/ UserMerges \/ CrashOfExecution \/ UNCHANGED allVars
  BY <1>6, <1>14 DEF Cancel, Apply, UserCommits, UserMerges, CrashOfExecution, allVars
<1>15. CASE StartDeletion \/ DeletionStep \/ CrashOfDeletion
  BY <1>15, HistorySeen
<1>. QED
  BY <1>7, <1>8, <1>9, <1>10, <1>11, <1>12, <1>13, <1>14, <1>15 DEF CleanupNext

\* A completed run is over for good: the branch its review has seen only goes.
LEMMA OverStays ==
  ASSUME CleanupConsistent, [CleanupNext]_allVars, Over
  PROVE  Over' /\ ~StartReview
<1>1. /\ run \in {"completed", "deleted"} /\ planner = "none" /\ review = "none"
      /\ \A t \in Tasks : ~Busy(t)
      /\ branch \in {NoBranch, history.reviewed}
  BY DEF Over
<1>2. /\ \A t \in Tasks : Busy(t) <=> stage[t] # "none" /\ ~(t \in HostTasks /\ stage[t] = "working")
      /\ \A t \in Tasks : Busy(t)' <=> stage'[t] # "none" /\ ~(t \in HostTasks /\ stage'[t] = "working")
  BY DEF Busy
<1>3. stage \in [Tasks -> Stages]
  BY DEF CleanupConsistent, CleanupTypeOK
<1>4. \A t \in Tasks : status[t] # "running"
  BY <1>1, RunningRun
<1>5. ~StartReview /\ ~Cancel /\ ~BeginPlanning /\ ~MakeBranch /\ ~PlanArrives /\ ~EndReview
  BY <1>1 DEF StartReview, Cancel, CancelRun, BeginPlanning, MakeBranch, PlanArrives, EndReview,
              RunStatuses, TerminalRun
<1>6. \A mode \in Deliveries : ~Open(mode)
  BY <1>1 DEF Open, CreateRun
<1>7. (\A p \in Plans : ~Publish(p)) /\ \A e \in Executors : ~Claim(e)
  BY <1>1 DEF Publish, Claim, ClaimTask
<1>8. \A t \in Tasks : /\ ~PrepareTask(t) /\ ~Edit(t) /\ ~WorkerAnswers(t) /\ ~CommitTask(t)
                       /\ ~HostSubmits(t) /\ ~Integrate(t) /\ ~Submit(t)
  BY <1>1, <1>2, <1>4
     DEF PrepareTask, Edit, WorkerAnswers, CommitTask, HostSubmits, Integrate, Submit, Outcomes
<1>9. ~StartReview /\ history'.reviewed = history.reviewed
  BY <1>5, ReviewedSeen
<1>10. branch' \in {NoBranch, branch}
  BY <1>5, <1>8, BranchSeen
<1>11. run' \in {"completed", "deleted"} /\ planner' = "none" /\ review' = "none"
       /\ \A t \in Tasks : ~Busy(t)'
  <2>1. CASE \E t \in Tasks : HostCommits(t)
    BY <1>1, <1>2, <2>1 DEF HostCommits, vars
  <2>2. CASE Apply \/ FastForward \/ UserCommits \/ UserMerges \/ StartDeletion \/ CrashOfDeletion
             \/ UNCHANGED allVars
    BY <1>1, <1>2, <2>2 DEF Apply, FastForward, UserCommits, UserMerges, StartDeletion,
                            CrashOfDeletion, allVars, vars
  <2>3. CASE DeletionStep
    BY <1>1, <1>2, <2>3 DEF DeletionStep, DeleteRunRecord, vars
  <2>4. CASE CrashOfExecution
    BY <1>1, <1>2, <2>4 DEF CrashOfExecution, vars
  <2>. QED
    BY <1>5, <1>6, <1>7, <1>8, <2>1, <2>2, <2>3, <2>4 DEF CleanupNext
<1>. QED
  BY <1>1, <1>9, <1>10, <1>11 DEF Over

\* What was reviewed stays on the branch until it is applied, and after.
LEMMA StepReviewed ==
  ASSUME CleanupConsistent, [CleanupNext]_allVars
  PROVE  BranchReviewed'
<1>1. /\ run = "reviewing" /\ review = "open" => branch = history.reviewed
      /\ run = "completed" \/ applying \/ history.applied # NoBranch => Over
      /\ history.applied # NoBranch => history.applied = history.reviewed
      /\ ActorsAgree /\ Consistent /\ review \in {"none", "open"}
  BY DEF CleanupConsistent, BranchReviewed, AppliedIsReviewed, CleanupTypeOK
<1>2. ASSUME run' = "reviewing", review' = "open"
      PROVE  branch' = history'.reviewed
  <2>1. CASE StartReview
    <3>1. history \in HistoryType
      BY DEF CleanupConsistent, CleanupTypeOK, HistoryType
    <3>2. history' = [history EXCEPT !.reviewed = branch']
      BY <2>1 DEF StartReview
    <3>. QED
      BY <3>1, <3>2 DEF HistoryType
  <2>2. CASE ~StartReview
    <3>1. review = "open"
      BY <1>1, <1>2, <2>2 DEF CleanupNext, Open, BeginPlanning, PlanArrives, MakeBranch, EndReview,
           Publish, Claim, PrepareTask, Edit, HostCommits, WorkerAnswers, CommitTask, HostSubmits,
           Integrate, Submit, Cancel, Apply, FastForward, UserCommits, UserMerges, StartDeletion,
           DeletionStep, CrashOfExecution, CrashOfDeletion, allVars
    <3>2. run \in {"reviewing", "cancelled", "deleted"}
      BY <1>1, <3>1 DEF ActorsAgree
    <3>3. run = "reviewing"
      BY <1>2, <2>2, <3>2, RunSeen DEF TerminalRun
    <3>4. \A t \in Tasks : ~Busy(t)
      BY <3>3, IdleRun
    <3>5. branch' = branch
      BY <1>1, <2>2, <3>3, <3>4, BranchSeen DEF ActorsAgree, TerminalRun
    <3>. QED
      BY <1>1, <2>2, <3>1, <3>3, <3>5, ReviewedSeen
  <2>. QED
    BY <2>1, <2>2
<1>3. ASSUME run' = "completed" \/ applying' \/ history'.applied # NoBranch
      PROVE  Over'
  <2>1. CASE Over
    BY <2>1, OverStays
  <2>2. CASE ~Over
    <3>1. run # "completed" /\ ~applying /\ history.applied = NoBranch
      BY <1>1, <2>2
    <3>2. ~applying'
      <4>1. applying' => Apply
        BY <3>1 DEF CleanupNext, Open, BeginPlanning, PlanArrives, MakeBranch, EndReview,
           StartReview, Publish, Claim, PrepareTask, Edit, HostCommits, WorkerAnswers, CommitTask,
           HostSubmits, Integrate, Submit, Cancel, FastForward, UserCommits, UserMerges,
           StartDeletion, DeletionStep, CrashOfExecution, CrashOfDeletion, allVars
      <4>. QED
        BY <3>1, <4>1 DEF Apply
    <3>3. history'.applied = NoBranch
      BY <3>1, ReviewedSeen
    <3>4. EndReview /\ run = "reviewing"
      BY <1>3, <3>1, <3>2, <3>3, RunSeen
    <3>5. /\ review' = "none" /\ UNCHANGED <<branch, planner, stage, history>>
          /\ review = "open" /\ planner = "none"
      BY <1>1, <3>4 DEF EndReview, gitVars, ActorsAgree
    <3>6. \A t \in Tasks : ~Busy(t) /\ (Busy(t)' <=> Busy(t))
      BY <3>4, <3>5, IdleRun DEF Busy
    <3>. QED
      BY <1>1, <1>3, <3>2, <3>3, <3>4, <3>5, <3>6 DEF Over
  <2>. QED
    BY <2>1, <2>2
<1>4. ASSUME history'.applied # NoBranch
      PROVE  history'.applied = history'.reviewed
  <2>1. CASE applying \/ history.applied # NoBranch
    <3>1. Over /\ ~StartReview
      BY <1>1, <2>1, OverStays
    <3>2. history'.reviewed = history.reviewed
      BY <3>1, ReviewedSeen
    <3>. QED
      BY <1>1, <1>4, <3>1, <3>2, ReviewedSeen DEF Over
  <2>2. CASE ~applying /\ history.applied = NoBranch
    BY <1>4, <2>2, ReviewedSeen
  <2>. QED
    BY <2>1, <2>2
<1>. QED
  BY <1>2, <1>3, <1>4 DEF BranchReviewed, AppliedIsReviewed

-----------------------------------------------------------------------------
(* No step loses a commit. *)

Somewhere(c) == c \in head \/ c \in branch \/ \E t \in Tasks : c \in own[t]

\* Branches only grow, but for what a deletion takes away, and what a task commits
\* it has on its branch, as it has what the next deletion will see.
LEMMA BranchesGrow ==
  ASSUME CleanupConsistent, [CleanupNext]_allVars, ~DeletionStep
  PROVE  /\ \A c \in Commits : /\ c \in head => c \in head'
                               /\ c \in branch => c \in branch'
                               /\ \A t \in Tasks : c \in own[t] => c \in own'[t]
         /\ \A c \in history'.made \ history.made : Somewhere(c)'
         /\ \A c \in history.unseen \ history'.unseen : Somewhere(c)
         /\ CrashOfDeletion \/ history.unseen \subseteq history'.unseen
<1>1. /\ head \in SUBSET Commits /\ branch \in Branches /\ own \in [Tasks -> Branches]
      /\ history \in HistoryType
  BY DEF CleanupConsistent, CleanupTypeOK, HistoryType
<1>2. NoBranch \cap Commits = {}
  BY DEF NoBranch, Commits
<1>3. PrepareRun(head) \/ PrepareRun({}) => \A c \in Commits : c \in branch => c \in branch'
  BY <1>1, <1>2 DEF PrepareRun
<1>4. ASSUME UNCHANGED <<head, branch, own>>
      PROVE  \A c \in Commits : /\ c \in head => c \in head'
                                /\ c \in branch => c \in branch'
                                /\ \A t \in Tasks : c \in own[t] => c \in own'[t]
  BY <1>4
<1>5. \A c \in history'.made \ history.made : Somewhere(c)'
  <2>1. ASSUME NEW t \in Tasks, HostCommits(t) \/ (CommitTask(t) /\ place[t] = "dirty")
        PROVE  NewCommit(t) \in own'[t]
    <3>1. own' = [own EXCEPT ![t] = own[t] \cup {NewCommit(t)}]
      BY <2>1 DEF HostCommits, CommitTask
    <3>. QED
      BY <1>1, <3>1
  <2>2. ASSUME NEW t \in Tasks, HostCommits(t) \/ (CommitTask(t) /\ place[t] = "dirty"),
               history'.made = history.made \cup {NewCommit(t)}
        PROVE  \A c \in history'.made \ history.made : Somewhere(c)'
    BY <2>1, <2>2 DEF Somewhere
  <2>. QED
    BY <2>2, MadeSeen
<1>6. ASSUME ~CrashOfDeletion
      PROVE  history.unseen \subseteq history'.unseen
  <2>1. \A x : [history EXCEPT !.remade = x].unseen = history.unseen
    BY <1>1 DEF HistoryType
  <2>2. \A x : [history EXCEPT !.reviewed = x].unseen = history.unseen
    BY <1>1 DEF HistoryType
  <2>3. \A x : [history EXCEPT !.applied = x].unseen = history.unseen
    BY <1>1 DEF HistoryType
  <2>4. \A x : [history EXCEPT !.made = x].unseen = history.unseen
    BY <1>1 DEF HistoryType
  <2>5. \A x, y : [history EXCEPT !.made = x, !.unseen = y].unseen = y
    BY <1>1 DEF HistoryType
  <2>6. CASE UNCHANGED history
    BY <2>6
  <2>7. CASE StartReview
    BY <2>2, <2>7 DEF StartReview
  <2>8. CASE FastForward
    BY <2>3, <2>6, <2>8 DEF FastForward
  <2>9. ASSUME NEW t \in Tasks, PrepareTask(t) \/ Integrate(t)
        PROVE  history.unseen = history'.unseen
    BY <2>1, <2>9 DEF PrepareTask, Integrate
  <2>10. ASSUME NEW t \in Tasks, CommitTask(t)
         PROVE  history.unseen = history'.unseen
    <3>1. history' = [history EXCEPT !.made = history.made \cup {NewCommit(t)}] \/ UNCHANGED history
      BY <2>10 DEF CommitTask
    <3>. QED
      BY <2>4, <3>1
  <2>11. ASSUME NEW t \in Tasks, HostCommits(t)
         PROVE  history.unseen \subseteq history'.unseen
    <3>1. PICK u : u = IF Deleting /\ ~Pending(Command("cherry", t))
                       THEN history.unseen \cup {NewCommit(t)} ELSE history.unseen
      OBVIOUS
    <3>2. history' = [history EXCEPT !.made = history.made \cup {NewCommit(t)}, !.unseen = u]
      BY <2>11, <3>1 DEF HostCommits
    <3>. QED
      BY <2>5, <3>1, <3>2
  <2>12. CASE (\E mode \in Deliveries : Open(mode)) \/ BeginPlanning \/ PlanArrives \/ MakeBranch
              \/ EndReview \/ (\E p \in Plans : Publish(p)) \/ (\E e \in Executors : Claim(e))
    BY <2>6, <2>12 DEF Open, BeginPlanning, PlanArrives, MakeBranch, EndReview, Publish, Claim
  <2>13. CASE \E t \in Tasks : Edit(t) \/ WorkerAnswers(t) \/ HostSubmits(t) \/ Submit(t)
    BY <2>6, <2>13 DEF Edit, WorkerAnswers, HostSubmits, Submit
  <2>14. CASE Cancel \/ Apply \/ UserCommits \/ UserMerges \/ CrashOfExecution \/ UNCHANGED allVars
    BY <2>6, <2>14 DEF Cancel, Apply, UserCommits, UserMerges, CrashOfExecution, allVars
  <2>15. CASE StartDeletion
    BY <2>15, HistorySeen
  <2>. QED
    BY <1>6, <2>7, <2>8, <2>9, <2>10, <2>11, <2>12, <2>13, <2>14, <2>15 DEF CleanupNext
<1>7. \A c \in Commits : /\ c \in head => c \in head'
                         /\ c \in branch => c \in branch'
                         /\ \A t \in Tasks : c \in own[t] => c \in own'[t]
  <2>1. CASE (\E mode \in Deliveries : Open(mode)) \/ BeginPlanning \/ PlanArrives
             \/ EndReview \/ (\E p \in Plans : Publish(p)) \/ (\E e \in Executors : Claim(e))
    BY <1>4, <2>1 DEF Open, BeginPlanning, PlanArrives, EndReview, Publish, Claim, gitVars
  <2>2. CASE MakeBranch \/ StartReview
    BY <1>3, <2>2 DEF MakeBranch, StartReview
  <2>3. ASSUME NEW t \in Tasks, PrepareTask(t)
        PROVE  \A c \in Commits : /\ c \in head => c \in head'
                                  /\ c \in branch => c \in branch'
                                  /\ \A u \in Tasks : c \in own[u] => c \in own'[u]
    <3>1. /\ PrepareRun(head) /\ UNCHANGED head
          /\ own' = [own EXCEPT ![t] = IF own[t] = NoBranch THEN branch' ELSE own[t]]
      BY <2>3 DEF PrepareTask
    <3>2. \A u \in Tasks, c \in Commits : c \in own[u] => c \in own'[u]
      BY <1>1, <1>2, <3>1
    <3>. QED
      BY <1>3, <3>1, <3>2
  <2>4. CASE \E t \in Tasks : Edit(t) \/ WorkerAnswers(t) \/ HostSubmits(t) \/ Submit(t)
    BY <1>4, <2>4 DEF Edit, WorkerAnswers, HostSubmits, Submit, gitVars
  <2>5. ASSUME NEW t \in Tasks, HostCommits(t) \/ CommitTask(t)
        PROVE  \A c \in Commits : /\ c \in head => c \in head'
                                  /\ c \in branch => c \in branch'
                                  /\ \A u \in Tasks : c \in own[u] => c \in own'[u]
    <3>1. UNCHANGED <<head, branch>>
      BY <2>5 DEF HostCommits, CommitTask
    <3>2. own' = [own EXCEPT ![t] = own[t] \cup {NewCommit(t)}] \/ UNCHANGED own
      BY <2>5 DEF HostCommits, CommitTask
    <3>3. \A u \in Tasks, c \in Commits : c \in own[u] => c \in own'[u]
      BY <1>1, <3>2
    <3>. QED
      BY <3>1, <3>3
  <2>6. CASE \E t \in Tasks : Integrate(t)
    BY <1>2, <2>6 DEF Integrate
  <2>7. CASE FastForward \/ UserMerges
    BY <2>7 DEF FastForward, UserMerges
  <2>8. CASE Cancel \/ Apply \/ UserCommits \/ StartDeletion
              \/ CrashOfExecution \/ CrashOfDeletion \/ UNCHANGED allVars
    BY <1>4, <2>8 DEF Cancel, Apply, UserCommits, StartDeletion,
                      CrashOfExecution, CrashOfDeletion, allVars, gitVars
  <2>. QED
    BY <2>1, <2>2, <2>3, <2>4, <2>5, <2>6, <2>7, <2>8 DEF CleanupNext
<1>8. \A c \in history.unseen \ history'.unseen : Somewhere(c)
  BY <1>6, HistorySeen DEF Somewhere
<1>. QED
  BY <1>5, <1>6, <1>7, <1>8

\* What takes a task's branch away finds its commits in the run's branch, and nobody
\* about to add to them.
LEMMA GuardedFirst ==
  ASSUME CleanupConsistent, Len(deletion) > 0, NEW t \in Tasks, deletion[1] = Command("branch", t)
  PROVE  Kept(t)
<1>1. deletion \in Seq(Commands) /\ Len(deletion) \in Nat /\ DOMAIN deletion = 1..Len(deletion)
  BY DEF CleanupConsistent, CleanupTypeOK
<1>2. 1 \in DOMAIN deletion /\ Deleting
  BY <1>1 DEF Deleting
<1>3. Guarded(t, 1)
  BY <1>2 DEF CleanupConsistent, DeletionAgrees
<1>4. 1..(1 - 1) = {}
  OBVIOUS
<1>. QED
  BY <1>3, <1>4 DEF Guarded

\* A commit stays on a branch: one goes only after another was seen to have its commits.
LEMMA StepWork ==
  ASSUME CleanupConsistent, [CleanupNext]_allVars
  PROVE  WorkSurvives'
<1>1. /\ head \in SUBSET Commits /\ branch \in Branches /\ own \in [Tasks -> Branches]
      /\ history \in HistoryType /\ deletion \in Seq(Commands)
      /\ history.made \subseteq Commits
  BY DEF CleanupConsistent, CleanupTypeOK, HistoryType
<1>2. \A c \in history.made \ history.unseen : Somewhere(c)
  BY <1>1, TaskBranches DEF CleanupConsistent, WorkSurvives, Somewhere
<1>3. SUFFICES \A c \in history'.made \ history'.unseen : Somewhere(c)'
  <2>1. own' \in [Tasks -> Branches]
    BY StepTypes DEF CleanupTypeOK
  <2>2. \A c : c \in UNION Range(own') <=> \E t \in Tasks : c \in own'[t]
    BY <2>1, TaskBranches
  <2>. QED
    BY <2>2 DEF WorkSurvives, Somewhere
<1>4. CASE ~DeletionStep
  <2>1. /\ \A c \in Commits : /\ c \in head => c \in head'
                              /\ c \in branch => c \in branch'
                              /\ \A t \in Tasks : c \in own[t] => c \in own'[t]
        /\ \A c \in history'.made \ history.made : Somewhere(c)'
        /\ \A c \in history.unseen \ history'.unseen : Somewhere(c)
    BY <1>4, BranchesGrow
  <2>2. \A c \in Commits : Somewhere(c) => Somewhere(c)'
    BY <2>1 DEF Somewhere
  <2>. QED
    BY <1>1, <1>2, <2>1, <2>2
<1>5. CASE DeletionStep
  <2>1. /\ Len(deletion) > 0 /\ UNCHANGED head /\ history'.made = history.made
        /\ \A c \in history.unseen \ history'.unseen : \E t \in Tasks : c \in own[t]
        /\ \/ UNCHANGED <<own, branch>>
           \/ \E c \in Commands :
                /\ UNCHANGED history /\ c = deletion[1] /\ Passes(c)
                /\ own' = [t \in Tasks |-> IF c = Command("branch", t) THEN NoBranch ELSE own[t]]
                /\ branch' = IF c.do = "runBranch" THEN NoBranch ELSE branch
    BY <1>1, <1>5, DeletionSeen, HistorySeen
  <2>2. CASE UNCHANGED <<own, branch>>
    <3>1. \A c : Somewhere(c) => Somewhere(c)'
      BY <2>1, <2>2 DEF Somewhere
    <3>2. \A c \in history.unseen \ history'.unseen : Somewhere(c)
      BY <2>1 DEF Somewhere
    <3>. QED
      BY <1>2, <2>1, <3>1, <3>2
  <2>3. ASSUME NEW c \in Commands, c = deletion[1], Passes(c),
               own' = [t \in Tasks |-> IF c = Command("branch", t) THEN NoBranch ELSE own[t]],
               branch' = IF c.do = "runBranch" THEN NoBranch ELSE branch,
               NEW x \in history.made \ history.unseen
        PROVE  Somewhere(x)'
    <3>1. x \in Commits /\ x \notin NoBranch /\ Somewhere(x)
      BY <1>1, <1>2, <2>3 DEF Commits, NoBranch
    <3>2. CASE x \in head
      BY <2>1, <3>2 DEF Somewhere
    <3>3. CASE x \in branch
      <4>1. c.do = "runBranch" => branch \subseteq head
        BY <2>3, <3>1, <3>3 DEF Passes
      <4>. QED
        BY <2>1, <2>3, <3>3, <4>1 DEF Somewhere
    <3>4. ASSUME NEW t \in Tasks, x \in own[t]
          PROVE  Somewhere(x)'
      <4>1. CASE c = Command("branch", t)
        <5>1. c.do # "runBranch"
          BY <4>1 DEF Command
        <5>2. x \in head \cup branch
          BY <2>1, <2>3, <3>1, <3>4, <4>1, GuardedFirst DEF Kept
        <5>. QED
          BY <2>1, <2>3, <5>1, <5>2 DEF Somewhere
      <4>2. CASE c # Command("branch", t)
        BY <2>3, <3>4, <4>2 DEF Somewhere
      <4>. QED
        BY <4>1, <4>2
    <3>. QED
      BY <3>1, <3>2, <3>3, <3>4 DEF Somewhere
  <2>. QED
    BY <2>1, <2>2, <2>3
<1>. QED
  BY <1>4, <1>5

-----------------------------------------------------------------------------
(* Every step keeps what is said of a deletion. *)

\* A deletion begins with all that it needs to know and all that there is to do.
LEMMA StartAgrees ==
  ASSUME CleanupConsistent, StartDeletion
  PROVE  DeletionAgrees'
<1>1. /\ run \in TerminalRun /\ UNCHANGED <<vars, gitVars, stage>>
      /\ deletion' = Checks \o Removals /\ history'.unseen = history.unseen
  BY HistorySeen DEF StartDeletion
<1>2. UNCHANGED <<run, plan, head, branch, folder, own, place, stage>>
  BY <1>1 DEF vars, gitVars
<1>3. PICK q : q = Checks \o Removals
  OBVIOUS
<1>4. /\ q \in Seq(Commands)
      /\ \A i \in DOMAIN q : q[i].do = "row" <=> i = Len(q)
      /\ \A i \in DOMAIN q, t \in Tasks : q[i] = Command("branch", t) =>
           /\ t \in plan.tasks
           /\ own[t] # NoBranch =>
                \E j, k \in 1..(i - 1) :
                  j < k /\ q[j] = Command("worktree", t) /\ q[k] = Command("cherry", t)
      /\ \A i, k \in DOMAIN q : q[i].do = "branch" /\ q[k].do = "cherry" => k < i
      /\ plan # NoPlan => Command("runBranch", 0) \in Range(q)
      /\ \A t \in plan.tasks : Command("branch", t) \in Range(q)
  BY <1>3, DeletionMade DEF CleanupConsistent
<1>5. deletion' = q
  BY <1>1, <1>3
<1>6. \A t \in Tasks : own[t] = NoBranch => ~Committing(t) /\ Kept(t)
  BY DEF CleanupConsistent, TasksAgree, Committing, Kept
<1>7. \A t \in Tasks : (Committing(t)' <=> Committing(t)) /\ (Kept(t)' <=> Kept(t))
  BY <1>1, <1>2 DEF Committing, Kept
<1>8. \A i \in DOMAIN q, t \in Tasks : q[i] = Command("branch", t) => Guarded(t, i)'
  <2>. SUFFICES ASSUME NEW i \in DOMAIN q, NEW t \in Tasks, q[i] = Command("branch", t)
                PROVE  Guarded(t, i)'
    OBVIOUS
  <2>1. CASE own[t] = NoBranch
    BY <1>6, <1>7, <2>1 DEF Guarded
  <2>2. CASE own[t] # NoBranch
    BY <1>4, <1>5, <2>2 DEF Guarded
  <2>. QED
    BY <2>1, <2>2
<1>9. plan # NoPlan => Going'
  BY <1>2, <1>4, <1>5 DEF Going, Pending
<1>. QED
  BY <1>1, <1>2, <1>4, <1>5, <1>8, <1>9 DEF DeletionAgrees

\* A command that passes takes nothing from the branches that is not elsewhere.
LEMMA KeptStays ==
  ASSUME CleanupConsistent, NEW c \in Commands, Passes(c), UNCHANGED <<head, stage, history>>,
         place' = [t \in Tasks |-> IF c = Command("remove", t) THEN "absent" ELSE place[t]],
         own' = [t \in Tasks |-> IF c = Command("branch", t) THEN NoBranch ELSE own[t]],
         branch' = IF c.do = "runBranch" THEN NoBranch ELSE branch,
         NEW t \in Tasks
  PROVE  /\ Kept(t) => Kept(t)'
         /\ ~Committing(t) => ~Committing(t)'
         /\ c = Command("worktree", t) => ~Committing(t)'
         /\ c = Command("cherry", t) => Kept(t)'
<1>1. own \in [Tasks -> Branches] /\ branch \in Branches
  BY DEF CleanupConsistent, CleanupTypeOK
<1>2. own'[t] = NoBranch \/ own'[t] = own[t]
  OBVIOUS
<1>3. place'[t] = "dirty" => place[t] = "dirty"
  OBVIOUS
<1>4. \A x : x \in branch => x \in branch' \/ x \in head \/ x \in NoBranch
  BY DEF Passes
<1>5. Kept(t) => Kept(t)'
  BY <1>2, <1>4 DEF Kept
<1>6. c = Command("worktree", t) => place[t] # "dirty"
  BY DEF Passes, Command
<1>7. c = Command("cherry", t) => Kept(t)
  <2>1. c = Command("cherry", t) =>
          own[t] # NoBranch /\ own[t] \subseteq (IF branch = NoBranch THEN head ELSE branch)
    BY DEF Passes, Command
  <2>. QED
    BY <2>1 DEF Kept
<1>. QED
  BY <1>3, <1>5, <1>6, <1>7 DEF Committing

\* What was to be looked at was found in order, or the deletion ended.
LEMMA CommandAgrees ==
  ASSUME CleanupConsistent, DeletionStep
  PROVE  DeletionAgrees'
<1>1. deletion \in Seq(Commands)
  BY DEF CleanupConsistent, CleanupTypeOK
<1>2. /\ Len(deletion) > 0 /\ deletion' \in Seq(Commands)
      /\ UNCHANGED <<head, moved, planner, stage, review, applying>>
      /\ \/ deletion' = <<>>
         \/ \E c \in Commands :
              /\ UNCHANGED history /\ c = deletion[1] /\ Passes(c)
              /\ Len(deletion') = Len(deletion) - 1
              /\ \A i \in 1..Len(deletion') : deletion'[i] = deletion[i + 1]
              /\ place' = [t \in Tasks |-> IF c = Command("remove", t) THEN "absent" ELSE place[t]]
              /\ own' = [t \in Tasks |-> IF c = Command("branch", t) THEN NoBranch ELSE own[t]]
              /\ folder' = (folder /\ c.do # "removeRun")
              /\ branch' = IF c.do = "runBranch" THEN NoBranch ELSE branch
              /\ IF c.do = "row" THEN DeleteRunRecord ELSE UNCHANGED vars
  BY <1>1, DeletionSeen DEF GiveUpDeletion
<1>3. CASE deletion' = <<>>
  BY <1>3 DEF DeletionAgrees, Deleting
<1>4. ASSUME NEW c \in Commands, UNCHANGED history, c = deletion[1], Passes(c),
             Len(deletion') = Len(deletion) - 1,
             \A i \in 1..Len(deletion') : deletion'[i] = deletion[i + 1],
             place' = [t \in Tasks |-> IF c = Command("remove", t) THEN "absent" ELSE place[t]],
             own' = [t \in Tasks |-> IF c = Command("branch", t) THEN NoBranch ELSE own[t]],
             folder' = (folder /\ c.do # "removeRun"),
             branch' = IF c.do = "runBranch" THEN NoBranch ELSE branch,
             IF c.do = "row" THEN DeleteRunRecord ELSE UNCHANGED vars,
             deletion' # <<>>
      PROVE  DeletionAgrees'
  <2>1. /\ Len(deletion) \in Nat /\ DOMAIN deletion = 1..Len(deletion)
        /\ Len(deletion') \in Nat /\ DOMAIN deletion' = 1..Len(deletion')
    BY <1>1, <1>2
  <2>2. Len(deletion') # 0
    BY <1>2, <1>4
  <2>3. /\ Deleting /\ run \in TerminalRun
        /\ \A i \in 1..Len(deletion) : deletion[i].do = "row" <=> i = Len(deletion)
        /\ \A i \in 1..Len(deletion), t \in Tasks :
             deletion[i] = Command("branch", t) => Guarded(t, i)
        /\ \A i, k \in 1..Len(deletion) :
             deletion[i].do = "branch" /\ deletion[k].do = "cherry" => k < i
        /\ plan # NoPlan => Going
    BY <2>1 DEF DeletionStep, CleanupConsistent, DeletionAgrees
  <2>4. 1 # Len(deletion) /\ 1 \in 1..Len(deletion)
    BY <1>4, <2>1, <2>2
  <2>5. UNCHANGED <<run, plan>>
    BY <1>4, <2>3, <2>4 DEF vars
  <2>6. \A i \in 1..Len(deletion') : i + 1 \in 1..Len(deletion) /\ (i = Len(deletion') <=> i + 1 = Len(deletion))
    BY <1>4, <2>1
  <2>7. \A i \in 1..Len(deletion') : deletion'[i].do = "row" <=> i = Len(deletion')
    BY <1>4, <2>3, <2>6
  <2>8. \A t \in Tasks : /\ Kept(t) => Kept(t)'
                         /\ ~Committing(t) => ~Committing(t)'
                         /\ c = Command("worktree", t) => ~Committing(t)'
                         /\ c = Command("cherry", t) => Kept(t)'
    BY <1>2, <1>4, KeptStays
  <2>9. \A i \in 1..Len(deletion'), t \in Tasks : deletion'[i] = Command("branch", t) => Guarded(t, i)'
    <3>. SUFFICES ASSUME NEW i \in 1..Len(deletion'), NEW t \in Tasks, deletion'[i] = Command("branch", t)
                  PROVE  Guarded(t, i)'
      OBVIOUS
    <3>1. i \in Nat /\ Guarded(t, i + 1) /\ (i + 1) - 1 = i
      BY <1>4, <2>1, <2>3, <2>6
    <3>2. ASSUME NEW k \in 1..i, deletion[k] = Command("cherry", t), ~Committing(t)'
          PROVE  Guarded(t, i)'
      <4>1. CASE k = 1
        BY <1>4, <2>8, <3>2, <4>1 DEF Guarded
      <4>2. CASE k # 1
        <5>1. k - 1 \in 1..(i - 1) /\ k - 1 \in 1..Len(deletion') /\ (k - 1) + 1 = k
          BY <2>1, <3>1, <3>2, <4>2
        <5>2. deletion'[k - 1] = Command("cherry", t)
          BY <1>4, <3>2, <5>1
        <5>. QED
          BY <3>2, <5>1, <5>2 DEF Guarded
      <4>. QED
        BY <4>1, <4>2
    <3>3. ASSUME NEW j \in 1..i, NEW k \in 1..i, j < k,
                 deletion[j] = Command("worktree", t), deletion[k] = Command("cherry", t)
          PROVE  Guarded(t, i)'
      <4>1. CASE j = 1
        BY <1>4, <2>8, <3>2, <3>3, <4>1
      <4>2. CASE j # 1
        <5>1. /\ j - 1 \in 1..(i - 1) /\ j - 1 \in 1..Len(deletion') /\ (j - 1) + 1 = j
              /\ k - 1 \in 1..(i - 1) /\ k - 1 \in 1..Len(deletion') /\ (k - 1) + 1 = k
              /\ j - 1 < k - 1
          BY <2>1, <3>1, <3>3, <4>2
        <5>2. deletion'[j - 1] = Command("worktree", t) /\ deletion'[k - 1] = Command("cherry", t)
          BY <1>4, <3>3, <5>1
        <5>. QED
          BY <5>1, <5>2 DEF Guarded
      <4>. QED
        BY <4>1, <4>2
    <3>4. CASE ~Committing(t) /\ Kept(t)
      BY <2>8, <3>4 DEF Guarded
    <3>5. CASE ~Committing(t) /\ \E k \in 1..i : deletion[k] = Command("cherry", t)
      BY <2>8, <3>2, <3>5
    <3>. QED
      BY <3>1, <3>3, <3>4, <3>5 DEF Guarded
  <2>10. ASSUME plan # NoPlan
         PROVE  Going'
    <3>1. Going /\ plan.tasks \subseteq Tasks
      BY <2>3, <2>10, PlanTasks DEF CleanupConsistent
    <3>2. \A x : Pending(x) => x = c \/ Pending(x)'
      <4>. SUFFICES ASSUME NEW x, Pending(x), x # c PROVE x \in Range(deletion')
        BY DEF Pending
      <4>1. PICK i \in 1..Len(deletion) : deletion[i] = x
        BY <2>1 DEF Pending, Range
      <4>2. i # 1
        BY <1>4, <4>1
      <4>3. i - 1 \in 1..Len(deletion') /\ (i - 1) + 1 = i
        BY <1>4, <2>1, <4>1, <4>2
      <4>4. deletion'[i - 1] = x
        BY <1>4, <4>1, <4>3
      <4>. QED
        BY <2>1, <4>3, <4>4 DEF Range
    <3>3. c = Command("runBranch", 0) => branch' = NoBranch
      BY <1>4 DEF Command
    <3>4. \A t \in plan.tasks : c = Command("branch", t) => own'[t] = NoBranch
      BY <1>4, <3>1
    <3>5. branch = NoBranch => branch' = NoBranch
      BY <1>4
    <3>6. \A t \in plan.tasks : own[t] = NoBranch => own'[t] = NoBranch
      BY <1>4, <3>1
    <3>. QED
      BY <1>4, <2>5, <3>1, <3>2, <3>3, <3>4, <3>5, <3>6 DEF Going
  <2>11. \A i, k \in 1..Len(deletion') :
           deletion'[i].do = "branch" /\ deletion'[k].do = "cherry" => k < i
    <3>. SUFFICES ASSUME NEW i \in 1..Len(deletion'), NEW k \in 1..Len(deletion'),
                         deletion'[i].do = "branch", deletion'[k].do = "cherry"
                  PROVE  k < i
      OBVIOUS
    <3>1. deletion[i + 1].do = "branch" /\ deletion[k + 1].do = "cherry"
      BY <1>4
    <3>2. k + 1 < i + 1
      BY <2>3, <2>6, <3>1
    <3>. QED
      BY <2>1, <3>2
  <2>. QED
    BY <1>2, <2>1, <2>3, <2>5, <2>7, <2>9, <2>10, <2>11 DEF DeletionAgrees
<1>. QED
  BY <1>2, <1>3, <1>4

\* Only a worker that answers has something to commit, and it is told of a run that
\* was cancelled; only its edits make a worktree dirty.
LEMMA CommittingSeen ==
  ASSUME CleanupConsistent, [CleanupNext]_allVars, run \in TerminalRun, ~DeletionStep,
         NEW t \in Tasks, ~Committing(t)
  PROVE  ~Committing(t)'
<1>1. stage \in [Tasks -> Stages]
  BY DEF CleanupConsistent, CleanupTypeOK
<1>2. run # "running" /\ (run = "cancelled" \/ \A u \in Tasks : ~Busy(u))
  BY IdleRun DEF TerminalRun
<1>3. \A u \in Tasks : stage[u] # "none" /\ u \notin HostTasks => Busy(u)
  BY DEF Busy
<1>4. stage'[t] = "commit" => stage[t] = "commit"
  <2>1. ASSUME UNCHANGED stage PROVE stage'[t] = "commit" => stage[t] = "commit"
    BY <2>1
  <2>2. CASE (\E mode \in Deliveries : Open(mode)) \/ BeginPlanning \/ PlanArrives \/ MakeBranch
             \/ EndReview \/ (\E p \in Plans : Publish(p)) \/ StartReview
    BY <2>1, <2>2 DEF Open, BeginPlanning, PlanArrives, MakeBranch, EndReview, Publish, StartReview
  <2>3. CASE \E e \in Executors : Claim(e)
    BY <1>2, <2>3, ClaimSeen
  <2>4. ASSUME NEW u \in Tasks, WorkerAnswers(u)
        PROVE  stage'[t] = "commit" => stage[t] = "commit"
    <3>1. run = "cancelled"
      BY <1>2, <1>3, <2>4 DEF WorkerAnswers
    <3>2. stage' = [stage EXCEPT ![u] = "none"]
      BY <2>4, <3>1 DEF WorkerAnswers
    <3>. QED
      BY <1>1, <3>2
  <2>5. CASE \E u \in Tasks : Edit(u) \/ HostCommits(u)
    BY <2>1, <2>5 DEF Edit, HostCommits
  <2>6. ASSUME NEW u \in Tasks, PrepareTask(u)
        PROVE  stage'[t] = "commit" => stage[t] = "commit"
    <3>1. stage' = [stage EXCEPT ![u] = "working"] \/ stage' = [stage EXCEPT ![u] = "none"]
      BY <2>6 DEF PrepareTask
    <3>. QED
      BY <1>1, <3>1
  <2>7. ASSUME NEW u \in Tasks, CommitTask(u)
        PROVE  stage'[t] = "commit" => stage[t] = "commit"
    <3>1. stage' = [stage EXCEPT ![u] = "integrate"] \/ stage' = [stage EXCEPT ![u] = "failed"]
      BY <2>7 DEF CommitTask
    <3>. QED
      BY <1>1, <3>1
  <2>8. ASSUME NEW u \in Tasks, HostSubmits(u)
        PROVE  stage'[t] = "commit" => stage[t] = "commit"
    <3>1. stage' = [stage EXCEPT ![u] = "integrate"] \/ stage' = [stage EXCEPT ![u] = "failed"]
      BY <2>8 DEF HostSubmits
    <3>. QED
      BY <1>1, <3>1
  <2>9. ASSUME NEW u \in Tasks, Integrate(u)
        PROVE  stage'[t] = "commit" => stage[t] = "commit"
    <3>1. \/ stage' = [stage EXCEPT ![u] = "succeeded"]
          \/ stage' = [stage EXCEPT ![u] = "blocked"]
          \/ stage' = [stage EXCEPT ![u] = "failed"]
      BY <2>9 DEF Integrate
    <3>. QED
      BY <1>1, <3>1
  <2>10. ASSUME NEW u \in Tasks, Submit(u)
         PROVE  stage'[t] = "commit" => stage[t] = "commit"
    <3>1. stage' = [stage EXCEPT ![u] = "working"] \/ stage' = [stage EXCEPT ![u] = "none"]
      BY <2>10 DEF Submit
    <3>. QED
      BY <1>1, <3>1
  <2>11. CASE CrashOfExecution
    BY <2>11 DEF CrashOfExecution
  <2>12. CASE Cancel \/ Apply \/ FastForward \/ UserCommits \/ UserMerges \/ StartDeletion
              \/ CrashOfDeletion \/ UNCHANGED allVars
    BY <2>1, <2>12 DEF Cancel, Apply, FastForward, UserCommits, UserMerges, StartDeletion,
                       CrashOfDeletion, allVars
  <2>. QED
    BY <2>2, <2>3, <2>4, <2>5, <2>6, <2>7, <2>8, <2>9, <2>10, <2>11, <2>12 DEF CleanupNext
<1>5. CASE stage'[t] # "commit"
  BY <1>5 DEF Committing
<1>6. CASE place'[t] = "dirty" /\ stage'[t] = "commit"
  <2>1. place[t] # "dirty"
    BY <1>4, <1>6 DEF Committing
  <2>2. Edit(t)
    BY <1>6, <2>1, DirtySeen
  <2>. QED
    BY <1>6, <2>2 DEF Edit
<1>. QED
  BY <1>5, <1>6 DEF Committing

\* What was compared stays compared, but for what a host adds, behind the back of the
\* deletion or before it is compared again.
LEMMA KeptSeen ==
  ASSUME CleanupConsistent, [CleanupNext]_allVars, Deleting, Deleting', ~DeletionStep,
         NEW t \in Tasks, ~Committing(t), Kept(t)
  PROVE  Kept(t)' \/ (Pending(Command("cherry", t)) /\ t \in HostTasks)
<1>1. /\ head \in SUBSET Commits /\ branch \in Branches /\ own \in [Tasks -> Branches]
      /\ history \in HistoryType
  BY DEF CleanupConsistent, CleanupTypeOK, HistoryType
<1>2. NoBranch \cap Commits = {} /\ \A b \in Branches : b \ NoBranch \subseteq Commits
  BY DEF NoBranch, Commits, Branches
<1>3. /\ \A c \in Commits : (c \in head => c \in head') /\ (c \in branch => c \in branch')
      /\ history.unseen \subseteq history'.unseen
  BY BranchesGrow DEF CrashOfDeletion, GiveUpDeletion, Deleting
<1>4. ASSUME own'[t] = own[t] PROVE Kept(t)'
  <2>1. own[t] \ NoBranch \subseteq Commits
    BY <1>1, <1>2
  <2>. QED
    BY <1>3, <1>4, <2>1 DEF Kept
<1>5. ASSUME UNCHANGED own PROVE Kept(t)'
  BY <1>4, <1>5
<1>6. CASE (\E mode \in Deliveries : Open(mode)) \/ BeginPlanning \/ PlanArrives \/ MakeBranch
           \/ EndReview \/ (\E p \in Plans : Publish(p)) \/ (\E e \in Executors : Claim(e))
           \/ StartReview
  BY <1>5, <1>6 DEF Open, BeginPlanning, PlanArrives, MakeBranch, EndReview, Publish, Claim,
                    StartReview, gitVars
<1>7. ASSUME NEW u \in Tasks, PrepareTask(u)
      PROVE  Kept(t)'
  <2>1. own' = [own EXCEPT ![u] = IF own[u] = NoBranch THEN branch' ELSE own[u]]
    BY <1>7 DEF PrepareTask
  <2>2. own'[t] = own[t] \/ own'[t] = branch'
    BY <1>1, <2>1
  <2>3. own'[t] = branch' => Kept(t)'
    BY DEF Kept
  <2>. QED
    BY <1>4, <2>2, <2>3
<1>8. ASSUME NEW u \in Tasks, CommitTask(u)
      PROVE  Kept(t)'
  <2>1. u # t \/ UNCHANGED own
    BY <1>8 DEF CommitTask, Committing
  <2>2. own' = [own EXCEPT ![u] = own[u] \cup {NewCommit(u)}] \/ UNCHANGED own
    BY <1>8 DEF CommitTask
  <2>3. own'[t] = own[t]
    BY <1>1, <2>1, <2>2
  <2>. QED
    BY <1>4, <2>3
<1>9. ASSUME NEW u \in Tasks, HostCommits(u), u = t => ~Pending(Command("cherry", t))
      PROVE  Kept(t)'
  <2>. SUFFICES ASSUME u = t PROVE Kept(t)'
    BY <1>1, <1>4, <1>9 DEF HostCommits
  <2>1. PICK n : n = NewCommit(u)
    OBVIOUS
  <2>2. PICK m, s : m = history.made \cup {n} /\ s = history.unseen \cup {n}
    OBVIOUS
  <2>3. /\ history' = [history EXCEPT !.made = m, !.unseen = s]
        /\ own' = [own EXCEPT ![u] = own[u] \cup {n}]
    BY <1>9, <2>1, <2>2 DEF HostCommits
  <2>4. history'.unseen = s
    BY <1>1, <2>3 DEF HistoryType
  <2>5. own'[t] \subseteq own[t] \cup {n}
    BY <1>1, <2>3
  <2>6. (own'[t] \ history'.unseen) \ NoBranch \subseteq (own[t] \ history.unseen) \ NoBranch
    BY <2>2, <2>4, <2>5
  <2>7. own[t] \ NoBranch \subseteq Commits
    BY <1>1, <1>2
  <2>. QED
    BY <1>3, <2>6, <2>7 DEF Kept
<1>10. CASE \E u \in Tasks : Edit(u) \/ WorkerAnswers(u) \/ HostSubmits(u) \/ Integrate(u) \/ Submit(u)
  BY <1>5, <1>10 DEF Edit, WorkerAnswers, HostSubmits, Integrate, Submit, gitVars
<1>11. CASE Cancel \/ Apply \/ FastForward \/ UserCommits \/ UserMerges \/ StartDeletion
            \/ CrashOfExecution \/ CrashOfDeletion \/ UNCHANGED allVars
  BY <1>5, <1>11 DEF Cancel, Apply, FastForward, UserCommits, UserMerges, StartDeletion,
                     CrashOfExecution, CrashOfDeletion, allVars, gitVars
<1>. QED
  BY <1>6, <1>7, <1>8, <1>9, <1>10, <1>11 DEF CleanupNext, HostCommits

\* A branch that is made while it is being deleted is remembered, or still to go.
LEMMA RemadeSeen ==
  ASSUME CleanupConsistent, [CleanupNext]_allVars, Deleting, Deleting', ~DeletionStep,
         run \in TerminalRun, plan # NoPlan
  PROVE  /\ history.remade \subseteq history'.remade
         /\ branch = NoBranch /\ branch' # NoBranch =>
              Pending(Command("runBranch", 0)) \/ Command("runBranch", 0) \in history'.remade
         /\ \A t \in Tasks : own[t] = NoBranch /\ own'[t] # NoBranch =>
              Pending(Command("branch", t)) \/ Command("branch", t) \in history'.remade
<1> DEFINE Same == branch' = branch /\ \A t \in Tasks : own[t] = NoBranch => own'[t] = NoBranch
<1>1. /\ own \in [Tasks -> Branches] /\ history \in HistoryType
      /\ \A t \in Tasks : place[t] # "absent" => own[t] # NoBranch
  BY DEF CleanupConsistent, CleanupTypeOK, TasksAgree, HistoryType
<1>2. \A x : [history EXCEPT !.remade = x].remade = x
  BY <1>1 DEF HistoryType
<1>3. \A x : [history EXCEPT !.applied = x].remade = history.remade
  BY <1>1 DEF HistoryType
<1>4. \A x : [history EXCEPT !.made = x].remade = history.remade
  BY <1>1 DEF HistoryType
<1>5. \A x, y : [history EXCEPT !.made = x, !.unseen = y].remade = history.remade
  BY <1>1 DEF HistoryType
<1>6. ~MakeBranch /\ ~StartReview /\ ~StartDeletion /\ ~CrashOfDeletion
  BY DEF MakeBranch, StartReview, StartDeletion, CrashOfDeletion, GiveUpDeletion, Deleting,
         CleanupConsistent, ActorsAgree, TerminalRun
<1>7. ASSUME UNCHANGED <<branch, own, history>> PROVE history'.remade = history.remade /\ Same
  BY <1>7
<1>8. CASE (\E mode \in Deliveries : Open(mode)) \/ BeginPlanning \/ PlanArrives
           \/ EndReview \/ (\E p \in Plans : Publish(p)) \/ (\E e \in Executors : Claim(e))
  BY <1>7, <1>8 DEF Open, BeginPlanning, PlanArrives, EndReview, Publish, Claim, gitVars
<1>9. ASSUME NEW t \in Tasks, PrepareTask(t)
      PROVE  /\ history.remade \subseteq history'.remade
             /\ branch = NoBranch =>
                  Pending(Command("runBranch", 0)) \/ Command("runBranch", 0) \in history'.remade
             /\ \A u \in Tasks : own[u] = NoBranch /\ own'[u] # NoBranch =>
                  Pending(Command("branch", u)) \/ Command("branch", u) \in history'.remade
  <2>1. PICK r : r = Remade(MakingBranch \cup MakingOwn(t))
    OBVIOUS
  <2>2. history' = [history EXCEPT !.remade = r]
    BY <1>9, <2>1 DEF PrepareTask
  <2>3. history'.remade = r
    BY <1>2, <2>2
  <2>4. r = history.remade \cup {c \in MakingBranch \cup MakingOwn(t) : ~Pending(c)}
    BY <2>1 DEF Remade
  <2>5. \A u \in Tasks : own[u] = NoBranch /\ own'[u] # NoBranch => u = t
    BY <1>1, <1>9 DEF PrepareTask
  <2>. QED
    BY <2>3, <2>4, <2>5 DEF MakingBranch, MakingOwn
<1>10. ASSUME NEW t \in Tasks, Integrate(t)
       PROVE  /\ history.remade \subseteq history'.remade
              /\ branch = NoBranch =>
                   Pending(Command("runBranch", 0)) \/ Command("runBranch", 0) \in history'.remade
              /\ UNCHANGED own
  <2>1. PICK r : r = Remade(MakingBranch)
    OBVIOUS
  <2>2. history' = [history EXCEPT !.remade = r] /\ UNCHANGED own
    BY <1>10, <2>1 DEF Integrate
  <2>3. history'.remade = r
    BY <1>2, <2>2
  <2>4. r = history.remade \cup {c \in MakingBranch : ~Pending(c)}
    BY <2>1 DEF Remade
  <2>. QED
    BY <2>2, <2>3, <2>4 DEF MakingBranch
<1>11. ASSUME NEW t \in Tasks, CommitTask(t)
       PROVE  history'.remade = history.remade /\ Same
  <2>1. UNCHANGED branch
    BY <1>11 DEF CommitTask
  <2>2. CASE place[t] # "dirty"
    BY <1>11, <2>1, <2>2 DEF CommitTask
  <2>3. CASE place[t] = "dirty"
    <3>1. /\ history' = [history EXCEPT !.made = history.made \cup {NewCommit(t)}]
          /\ own' = [own EXCEPT ![t] = own[t] \cup {NewCommit(t)}]
      BY <1>11, <2>3 DEF CommitTask
    <3>2. own[t] # NoBranch
      BY <1>1, <2>3
    <3>3. \A u \in Tasks : own[u] = NoBranch => own'[u] = NoBranch
      BY <1>1, <3>1, <3>2
    <3>. QED
      BY <1>4, <2>1, <3>1, <3>3
  <2>. QED
    BY <2>2, <2>3
<1>12. ASSUME NEW t \in Tasks, HostCommits(t)
       PROVE  history'.remade = history.remade /\ Same
  <2>1. UNCHANGED branch /\ own[t] # NoBranch
    BY <1>1, <1>12 DEF HostCommits
  <2>2. PICK n : n = NewCommit(t)
    OBVIOUS
  <2>3. own' = [own EXCEPT ![t] = own[t] \cup {n}]
    BY <1>12, <2>2 DEF HostCommits
  <2>4. \A u \in Tasks : own[u] = NoBranch => own'[u] = NoBranch
    BY <1>1, <2>1, <2>3
  <2>5. \E x, y : history' = [history EXCEPT !.made = x, !.unseen = y]
    BY <1>12 DEF HostCommits
  <2>. QED
    BY <1>5, <2>1, <2>4, <2>5
<1>13. CASE \E t \in Tasks : Edit(t) \/ WorkerAnswers(t) \/ HostSubmits(t) \/ Submit(t)
  BY <1>7, <1>13 DEF Edit, WorkerAnswers, HostSubmits, Submit, gitVars
<1>14. CASE FastForward
  <2>1. UNCHANGED <<branch, own>>
    BY <1>14 DEF FastForward
  <2>2. history' = [history EXCEPT !.applied = branch] \/ UNCHANGED history
    BY <1>14 DEF FastForward
  <2>. QED
    BY <1>3, <2>1, <2>2
<1>15. CASE UserCommits \/ UserMerges \/ Cancel \/ Apply \/ CrashOfExecution \/ UNCHANGED allVars
  BY <1>7, <1>15 DEF UserCommits, UserMerges, Cancel, Apply, CrashOfExecution, allVars, gitVars
<1>. QED
  BY <1>6, <1>8, <1>9, <1>10, <1>11, <1>12, <1>13, <1>14, <1>15 DEF CleanupNext

\* A deletion goes on in the order of its guards.
LEMMA StepDeletion ==
  ASSUME CleanupConsistent, [CleanupNext]_allVars
  PROVE  DeletionAgrees'
<1>1. CASE StartDeletion
  BY <1>1, StartAgrees
<1>2. CASE DeletionStep
  BY <1>2, CommandAgrees
<1>3. CASE ~StartDeletion /\ ~DeletionStep
  <2>. SUFFICES ASSUME Deleting' PROVE DeletionAgrees'
    BY DEF DeletionAgrees
  <2>1. deletion' \in {<<>>, deletion}
    BY <1>3 DEF CleanupNext, Open, BeginPlanning, PlanArrives, MakeBranch, StartReview, EndReview,
         Publish, Claim, PrepareTask, Edit, HostCommits, WorkerAnswers, CommitTask, HostSubmits,
         Integrate, Submit, Cancel, Apply, FastForward, UserCommits, UserMerges,
         CrashOfExecution, CrashOfDeletion, GiveUpDeletion, allVars
  <2>2. deletion' = deletion /\ Deleting
    BY <2>1 DEF Deleting
  <2>3. /\ run \in TerminalRun
        /\ \A i \in DOMAIN deletion : deletion[i].do = "row" <=> i = Len(deletion)
        /\ \A i \in DOMAIN deletion, t \in Tasks :
             deletion[i] = Command("branch", t) => Guarded(t, i)
        /\ \A i, k \in DOMAIN deletion :
             deletion[i].do = "branch" /\ deletion[k].do = "cherry" => k < i
        /\ plan # NoPlan => Going
    BY <2>2 DEF CleanupConsistent, DeletionAgrees
  <2>4. UNCHANGED <<run, plan>>
    BY <1>3, <2>3, RunSeen
  <2>5. \A t \in Tasks : ~Committing(t) => ~Committing(t)'
    BY <1>3, <2>3, CommittingSeen
  <2>6. \A i \in DOMAIN deletion, t \in Tasks :
          deletion[i] = Command("branch", t) => Guarded(t, i)'
    <3>. SUFFICES ASSUME NEW i \in DOMAIN deletion, NEW t \in Tasks,
                         deletion[i] = Command("branch", t)
                  PROVE  Guarded(t, i)'
      OBVIOUS
    <3>1. Guarded(t, i)
      BY <2>3
    <3>2. CASE ~Committing(t) /\ Kept(t)
      <4>1. CASE Kept(t)'
        BY <2>5, <3>2, <4>1 DEF Guarded
      <4>2. CASE Pending(Command("cherry", t))
        <5>1. PICK k \in DOMAIN deletion : deletion[k] = Command("cherry", t)
          BY <4>2 DEF Pending, Range
        <5>2. k < i
          <6>1. deletion[i].do = "branch" /\ deletion[k].do = "cherry"
            BY <5>1 DEF Command
          <6>. QED
            BY <2>3, <6>1
        <5>3. DOMAIN deletion = 1..Len(deletion) /\ Len(deletion) \in Nat
          BY DEF CleanupConsistent, CleanupTypeOK
        <5>4. k \in 1..(i - 1)
          BY <5>2, <5>3
        <5>. QED
          BY <2>2, <2>5, <3>2, <5>1, <5>4 DEF Guarded
      <4>. QED
        BY <1>3, <2>2, <3>2, <4>1, <4>2, KeptSeen
    <3>3. CASE ~(~Committing(t) /\ Kept(t))
      BY <2>2, <2>5, <3>1, <3>3 DEF Guarded
    <3>. QED
      BY <3>2, <3>3
  <2>7. ASSUME plan # NoPlan
        PROVE  Going'
    <3>1. /\ history.remade \subseteq history'.remade
          /\ branch = NoBranch /\ branch' # NoBranch =>
               Pending(Command("runBranch", 0)) \/ Command("runBranch", 0) \in history'.remade
          /\ \A t \in Tasks : own[t] = NoBranch /\ own'[t] # NoBranch =>
               Pending(Command("branch", t)) \/ Command("branch", t) \in history'.remade
      BY <1>3, <2>2, <2>3, <2>7, RemadeSeen
    <3>2. plan.tasks \subseteq Tasks
      BY PlanTasks DEF CleanupConsistent
    <3>3. \A c : Pending(c)' <=> Pending(c)
      BY <2>2 DEF Pending
    <3>. QED
      BY <2>3, <2>4, <2>7, <3>1, <3>2, <3>3 DEF Going
  <2>. QED
    BY <2>2, <2>3, <2>4, <2>6, <2>7 DEF DeletionAgrees
<1>. QED
  BY <1>1, <1>2, <1>3

\* The worktree of the run comes with its branch, and goes before it.
LEMMA StepFolder ==
  ASSUME CleanupConsistent, [CleanupNext]_allVars
  PROVE  FolderAgrees'
<1>1. /\ head \in SUBSET Commits /\ branch \in Branches /\ own \in [Tasks -> Branches]
      /\ deletion \in Seq(Commands)
      /\ \A t \in Tasks : place[t] # "absent" => own[t] # NoBranch
      /\ folder => branch # NoBranch
  BY DEF CleanupConsistent, CleanupTypeOK, TasksAgree, FolderAgrees
<1>2. SUFFICES ASSUME folder' PROVE branch' # NoBranch
  BY DEF FolderAgrees
<1>3. CASE UNCHANGED <<branch, folder>>
  BY <1>1, <1>2, <1>3
<1>4. \A b \in {{}, head} : PrepareRun(b) => branch' # NoBranch
  BY <1>1, SomeBranch DEF PrepareRun
<1>5. CASE MakeBranch \/ StartReview \/ \E t \in Tasks : PrepareTask(t)
  BY <1>3, <1>4, <1>5 DEF MakeBranch, StartReview, PrepareTask
<1>6. ASSUME NEW t \in Tasks, Integrate(t)
      PROVE  branch' # NoBranch
  <2>1. PICK before : before = IF branch = NoBranch THEN head ELSE branch
    OBVIOUS
  <2>2. branch' = before \/ (place[t] # "absent" /\ branch' = before \cup own[t])
    BY <1>6, <2>1 DEF Integrate
  <2>3. before \in SUBSET Commits
    BY <1>1, <2>1, SomeBranch
  <2>4. place[t] # "absent" => own[t] \in Branches /\ own[t] # NoBranch
    BY <1>1
  <2>5. place[t] # "absent" => own[t] \cup before # NoBranch
    BY <2>3, <2>4, SomeBranch
  <2>6. before # NoBranch
    BY <1>1, <2>3, SomeBranch
  <2>7. before \cup own[t] = own[t] \cup before
    OBVIOUS
  <2>. QED
    BY <2>2, <2>5, <2>6, <2>7
<1>7. CASE DeletionStep
  <2>1. \/ UNCHANGED <<branch, folder>>
        \/ \E c \in Commands : /\ Passes(c)
                               /\ folder' = (folder /\ c.do # "removeRun")
                               /\ branch' = IF c.do = "runBranch" THEN NoBranch ELSE branch
    BY <1>1, <1>7, DeletionSeen
  <2>2. ASSUME NEW c \in Commands, Passes(c), folder' = (folder /\ c.do # "removeRun"),
               branch' = IF c.do = "runBranch" THEN NoBranch ELSE branch
        PROVE  branch' # NoBranch
    <3>1. folder /\ c.do # "removeRun"
      BY <1>2, <2>2
    <3>2. c.do # "runBranch"
      BY <1>1, <2>2, <3>1 DEF Passes
    <3>. QED
      BY <1>1, <2>2, <3>1, <3>2
  <2>. QED
    BY <1>3, <2>1, <2>2
<1>8. CASE (\E mode \in Deliveries : Open(mode)) \/ BeginPlanning \/ PlanArrives
           \/ EndReview \/ (\E p \in Plans : Publish(p)) \/ (\E e \in Executors : Claim(e))
  BY <1>3, <1>8 DEF Open, BeginPlanning, PlanArrives, EndReview, Publish, Claim, gitVars
<1>9. CASE \E t \in Tasks : \/ Edit(t) \/ HostCommits(t) \/ WorkerAnswers(t) \/ CommitTask(t)
                           \/ HostSubmits(t) \/ Submit(t)
  BY <1>3, <1>9 DEF Edit, HostCommits, WorkerAnswers, CommitTask, HostSubmits, Submit, gitVars
<1>10. CASE Cancel \/ Apply \/ FastForward \/ UserCommits \/ UserMerges \/ StartDeletion
            \/ CrashOfExecution \/ CrashOfDeletion \/ UNCHANGED allVars
  BY <1>3, <1>10 DEF Cancel, Apply, FastForward, UserCommits, UserMerges, StartDeletion,
                     CrashOfExecution, CrashOfDeletion, allVars, gitVars
<1>. QED
  BY <1>5, <1>6, <1>7, <1>8, <1>9, <1>10 DEF CleanupNext

-----------------------------------------------------------------------------
(* The invariant, and what it says of applying and deleting *)

\* Before prepare_run there are no branches.
LEMMA CleanupBegins ==
  ASSUME CleanupInit
  PROVE  CleanupConsistent
<1>1. Consistent
  BY InitConsistent DEF CleanupInit
<1>2. /\ run = "none" /\ plan = NoPlan
      /\ head = {} /\ moved = FALSE /\ branch = NoBranch /\ folder = FALSE
      /\ own = [t \in Tasks |-> NoBranch] /\ place = [t \in Tasks |-> "absent"]
      /\ planner = "none" /\ review = "none" /\ applying = FALSE /\ deletion = <<>>
      /\ stage = [t \in Tasks |-> "none"]
      /\ history = [made |-> {}, unseen |-> {}, reviewed |-> NoBranch, applied |-> NoBranch,
                    remade |-> {}]
  BY DEF CleanupInit, Init
<1>3. CleanupTypeOK
  <2>1. deletion \in Seq(Commands)
    BY <1>2, OneCommand
  <2>2. own \in [Tasks -> Branches]
    BY <1>2 DEF Branches
  <2>3. stage \in [Tasks -> Stages]
    BY <1>2 DEF Stages
  <2>4. history \in [made : SUBSET Commits, unseen : SUBSET Commits, reviewed : Branches,
                     applied : Branches, remade : SUBSET Commands]
    BY <1>2 DEF Branches
  <2>. QED
    BY <1>2, <2>1, <2>2, <2>3, <2>4 DEF CleanupTypeOK, Branches
<1>4. Numbered
  <2>1. \A t \in Tasks : CommitsOf(t) = {}
    BY <1>2 DEF CommitsOf
  <2>2. 1..0 = {}
    OBVIOUS
  <2>3. \A t \in Tasks : CommitsOf(t) = {<<t, m>> : m \in 1..0}
    BY <2>1, <2>2
  <2>4. 0 \in 0..MaxCommits
    BY CleanupAssumption
  <2>. QED
    BY <1>2, <2>4, <2>3 DEF Numbered
<1>5. TasksAgree
  BY <1>2 DEF TasksAgree, Busy
<1>6. ActorsAgree
  BY <1>2 DEF ActorsAgree
<1>7. BranchReviewed
  BY <1>2 DEF BranchReviewed, AppliedIsReviewed
<1>8. DeletionAgrees
  BY <1>2 DEF DeletionAgrees, Deleting
<1>9. WorkSurvives /\ FolderAgrees
  BY <1>2 DEF WorkSurvives, FolderAgrees
<1>. QED
  BY <1>1, <1>3, <1>4, <1>5, <1>6, <1>7, <1>8, <1>9 DEF CleanupConsistent

\* In every state the rows, the branches and worktrees, the people at work and a
\* deletion in progress agree with one another.
THEOREM AlwaysCleanupConsistent == CleanupSpec => []CleanupConsistent
<1>1. CleanupInit => CleanupConsistent
  BY CleanupBegins
<1>2. CleanupConsistent /\ [CleanupNext]_allVars => CleanupConsistent'
  <2>. SUFFICES ASSUME CleanupConsistent, [CleanupNext]_allVars PROVE CleanupConsistent'
    OBVIOUS
  <2>1. Consistent' /\ CleanupTypeOK' /\ Numbered' /\ TasksAgree'
    BY StepRows, StepTypes, StepNumbered, StepTasks
  <2>2. ActorsAgree' /\ BranchReviewed' /\ FolderAgrees' /\ DeletionAgrees' /\ WorkSurvives'
    BY StepActors, StepReviewed, StepFolder, StepDeletion, StepWork
  <2>. QED
    BY <2>1, <2>2 DEF CleanupConsistent
<1>. QED
  BY <1>1, <1>2, PTL DEF CleanupSpec

\* WorkSurvives: no commit of a task is lost to a cancellation, an application, a
\* deletion or a crash, wherever it comes between the Git commands of the others.
THEOREM CommitsSurvive == CleanupSpec => []WorkSurvives
<1>1. CleanupConsistent => WorkSurvives
  BY DEF CleanupConsistent
<1>. QED
  BY <1>1, AlwaysCleanupConsistent, PTL

\* AppliedIsReviewed: apply_run merges just what the final review has seen.
THEOREM OnlyReviewedApplied == CleanupSpec => []AppliedIsReviewed
<1>1. CleanupConsistent => AppliedIsReviewed
  BY DEF CleanupConsistent, BranchReviewed
<1>. QED
  BY <1>1, AlwaysCleanupConsistent, PTL

\* NothingIsLeft: the row of a run goes when all it named is gone, but for a branch that
\* somebody who had not noticed the end of the run made again after its removal.
THEOREM WholeDeletion == CleanupSpec => []NothingIsLeft
<1>1. CleanupConsistent => NothingIsLeft
  <2>. SUFFICES ASSUME CleanupConsistent, Deleting, Head(deletion).do = "row", plan # NoPlan
                PROVE  /\ Command("runBranch", 0) \in history.remade \/ (branch = NoBranch /\ ~folder)
                       /\ \A t \in Tasks : \/ Command("branch", t) \in history.remade
                                           \/ own[t] = NoBranch /\ place[t] = "absent"
    BY DEF NothingIsLeft
  <2>1. deletion \in Seq(Commands) /\ deletion # <<>>
    BY DEF CleanupConsistent, CleanupTypeOK, Deleting
  <2>2. /\ Len(deletion) \in Nat /\ Len(deletion) > 0 /\ DOMAIN deletion = 1..Len(deletion)
        /\ Head(deletion) = deletion[1]
    BY <2>1
  <2>3. /\ run \in TerminalRun
        /\ \A i \in DOMAIN deletion : deletion[i].do = "row" <=> i = Len(deletion)
        /\ Going
    BY DEF CleanupConsistent, DeletionAgrees
  <2>4. 1 = Len(deletion)
    BY <2>2, <2>3
  <2>5. \A c : Pending(c) => c.do = "row"
    BY <2>2, <2>3, <2>4 DEF Pending, Range
  <2>6. ~Pending(Command("runBranch", 0)) /\ \A t : ~Pending(Command("branch", t))
    BY <2>5 DEF Command
  <2>7. /\ folder => branch # NoBranch
        /\ \A t \in Tasks : place[t] # "absent" => own[t] # NoBranch
    BY DEF CleanupConsistent, FolderAgrees, TasksAgree
  <2>8. \A t \in Tasks : t \notin plan.tasks => own[t] = NoBranch
    BY <2>3 DEF CleanupConsistent, TasksAgree, TerminalRun
  <2>. QED
    BY <2>3, <2>6, <2>7, <2>8 DEF Going
<1>. QED
  BY <1>1, AlwaysCleanupConsistent, PTL

-----------------------------------------------------------------------------
(* Deletions that are repeated *)

\* What a preview asks, of each branch and worktree: nothing is uncommitted, and what
\* is committed is on a branch that stays.
Stays == IF branch = NoBranch THEN head ELSE branch
NothingInTheWay ==
  /\ \A t \in plan.tasks : place[t] # "dirty" /\ (own[t] # NoBranch => own[t] \subseteq Stays)
  /\ plan # NoPlan /\ branch # NoBranch => branch \subseteq head

\* A preview passes if all it asks is so.
LEMMA DeletableIs == Consistent => (Deletable <=> NothingInTheWay)
<1>. SUFFICES ASSUME Consistent PROVE Deletable <=> NothingInTheWay
  OBVIOUS
<1>1. PICK there : there = {t \in plan.tasks : own[t] # NoBranch}
  OBVIOUS
<1>2. plan.tasks \in SUBSET Tasks /\ IsFiniteSet(plan.tasks)
  BY PlanTasks
<1>3. there \in SUBSET Tasks /\ IsFiniteSet(there)
  BY <1>1, <1>2, FS_Subset
<1>4. PICK w : /\ w = EachTask("worktree", plan.tasks)
               /\ w \in Seq(Commands)
               /\ Range(w) = {Command("worktree", t) : t \in plan.tasks}
  BY <1>2, CommandForEach
<1>5. PICK m : /\ m = IF plan # NoPlan THEN Run("merged") ELSE <<>>
               /\ m \in Seq(Commands)
               /\ Range(m) = IF plan # NoPlan THEN {Command("merged", 0)} ELSE {}
  BY OneCommand
<1>6. PICK c : /\ c = EachTask("cherry", there)
               /\ c \in Seq(Commands)
               /\ Range(c) = {Command("cherry", t) : t \in there}
  BY <1>3, CommandForEach
<1>7. PICK wm : /\ wm = w \o m
                /\ wm \in Seq(Commands)
                /\ Range(wm) = Range(w) \cup Range(m)
  BY <1>4, <1>5, Joined
<1>8. Checks = wm \o c
  BY <1>1, <1>4, <1>5, <1>6, <1>7 DEF Checks
<1>9. Range(Checks) = Range(wm) \cup Range(c)
  BY <1>6, <1>7, <1>8, Joined
<1>10. Deletable <=> \A x \in Range(Checks) : Passes(x)
  BY DEF Deletable, Range
<1>11. Deletable <=> /\ \A t \in plan.tasks : Passes(Command("worktree", t))
                     /\ plan # NoPlan => Passes(Command("merged", 0))
                     /\ \A t \in there : Passes(Command("cherry", t))
  BY <1>4, <1>5, <1>6, <1>7, <1>9, <1>10
<1>12. /\ \A t : Passes(Command("worktree", t)) <=> place[t] # "dirty"
       /\ Passes(Command("merged", 0)) <=> branch = NoBranch \/ branch \subseteq head
       /\ \A t : Passes(Command("cherry", t)) <=> own[t] # NoBranch /\ own[t] \subseteq Stays
  BY DEF Passes, Command, Stays
<1>. QED
  BY <1>1, <1>11, <1>12 DEF NothingInTheWay

\* A command that passes leaves what stays as it was, or takes the integration branch
\* whose commits the user's branch has.
LEMMA CommandResumes ==
  ASSUME CleanupConsistent, DeletionStep, NothingInTheWay
  PROVE  NothingInTheWay'
<1>1. deletion \in Seq(Commands)
  BY DEF CleanupConsistent, CleanupTypeOK
<1>2. UNCHANGED head
  BY DEF DeletionStep
<1>3. CASE UNCHANGED <<vars, place, own, folder, branch>>
  BY <1>2, <1>3 DEF NothingInTheWay, Stays, vars, details
<1>4. ASSUME NEW c \in Commands, Passes(c),
             place' = [t \in Tasks |-> IF c = Command("remove", t) THEN "absent" ELSE place[t]],
             own' = [t \in Tasks |-> IF c = Command("branch", t) THEN NoBranch ELSE own[t]],
             branch' = IF c.do = "runBranch" THEN NoBranch ELSE branch,
             IF c.do = "row" THEN DeleteRunRecord ELSE UNCHANGED vars
      PROVE  NothingInTheWay'
  <2>1. CASE c.do = "row"
    <3>1. plan' = NoPlan /\ NoPlan.tasks = {}
      BY <1>4, <2>1 DEF DeleteRunRecord, NoPlan
    <3>. QED
      BY <3>1 DEF NothingInTheWay
  <2>2. CASE c.do # "row"
    <3>1. plan' = plan /\ plan.tasks \subseteq Tasks
      BY <1>4, <2>2, PlanTasks DEF CleanupConsistent, vars
    <3>2. \A t \in plan.tasks : place'[t] # "dirty" /\ own'[t] \in {own[t], NoBranch}
      BY <1>4, <3>1 DEF NothingInTheWay
    <3>3. c.do = "runBranch" => branch = NoBranch \/ branch \subseteq head
      BY <1>4 DEF Passes
    <3>4. Stays' = Stays \/ (Stays \subseteq Stays')
      BY <1>2, <1>4, <3>3 DEF Stays
    <3>5. branch' # NoBranch => branch' = branch
      BY <1>4
    <3>. QED
      BY <1>2, <3>1, <3>2, <3>4, <3>5 DEF NothingInTheWay
  <2>. QED
    BY <2>1, <2>2
<1>. QED
  BY <1>1, <1>3, <1>4, DeletionSeen

\* DeletionResumes: wherever a deletion is cut short, the next one is refused nothing
\* that this one was not, for any tasks and commits.
THEOREM RepeatedDeletion == CleanupSpec => DeletionResumes
<1>1. CleanupConsistent /\ Consistent' /\ (Deletable <=> NothingInTheWay)
        /\ (Deletable' <=> NothingInTheWay') /\ [CleanupNext]_allVars
        => [Deletable /\ Deleting /\ deletion' # deletion => Deletable']_allVars
  <2>. SUFFICES ASSUME CleanupConsistent, Deletable <=> NothingInTheWay,
                       Deletable' <=> NothingInTheWay', CleanupNext,
                       Deletable, Deleting, deletion' # deletion
                PROVE  NothingInTheWay'
    OBVIOUS
  <2>1. CASE DeletionStep
    BY <2>1, CommandResumes
  <2>2. CASE CrashOfDeletion
    BY <2>2 DEF CrashOfDeletion, NothingInTheWay, Stays, vars, gitVars
  <2>3. ~StartDeletion
    BY DEF StartDeletion
  <2>4. DeletionStep \/ CrashOfDeletion
    BY <2>3 DEF CleanupNext, Open, BeginPlanning, PlanArrives, MakeBranch, StartReview, EndReview,
                Publish, Claim, PrepareTask, Edit, HostCommits, WorkerAnswers, CommitTask,
                HostSubmits, Integrate, Submit, Cancel, Apply, FastForward, UserCommits,
                UserMerges, CrashOfExecution, gitVars
  <2>. QED
    BY <2>1, <2>2, <2>4
<1>2. CleanupConsistent => Consistent
  BY DEF CleanupConsistent
<1>. QED
  BY <1>1, <1>2, DeletableIs, AlwaysCleanupConsistent, PTL DEF CleanupSpec, DeletionResumes
===============================================================================
