--------------------------- MODULE IntegrationProofs ---------------------------
(***************************************************************************)
(* What succeeded stays on the integration branch, a conflict is real and  *)
(* takes back what was picked before it, and what is delivered is whole    *)
(* and in order: for any tasks, plans, clashing commits, processes and     *)
(* numbers of commits, wherever a process ends.                            *)
(***************************************************************************)
EXTENDS Integration, RunStoreProofs, SequenceTheorems

-----------------------------------------------------------------------------
(* The inductive invariant *)

\* A commit of a task as it was made, and as it was picked.
Made == Tasks \X (Nat \ {0}) \X {0}
Picks == Tasks \X (Nat \ {0}) \X (Nat \ {0})
Commits == Made \cup Picks
CommitLists == Seq(Commits) \ {<<>>}

Steps == {"none", "commit", "integrate", "messages", "head", "pick", "abort", "reset", "submit"}
Jobs ==
  {NoJob}
  \cup [step : {"commit"}, task : Tasks]
  \cup [step : {"integrate"}, task : Tasks, upto : Nat]
  \cup [step : {"messages", "head"}, task : Tasks, commits : CommitLists]
  \cup [step : {"pick", "abort", "reset"}, task : Tasks, commits : CommitLists, original : Seq(Picks)]
  \cup [step : {"submit"}, task : Tasks, outcome : Outcomes, sha : BOOLEAN]

GitTypeOK ==
  /\ branch \in Seq(Picks)
  /\ integration \in {"absent", "clean", "picking"}
  /\ fork \in [Tasks -> Seq(Picks) \cup {NoBranch}]
  /\ own \in [Tasks -> Seq(Made)]
  /\ \A t \in Tasks : \A n \in DOMAIN own[t] : own[t][n] = <<t, n, 0>>
  /\ edited \in [Tasks -> BOOLEAN]
  /\ primary \in {"clean", "dirty"}
  /\ stage \in [Tasks -> {"none", "claimed", "working"}]
  /\ home \in [Tasks -> Homes]
  /\ job \in [Homes -> Jobs]
  /\ interrupted \in SUBSET Tasks
  /\ overlapped \in BOOLEAN

\* What the rows of a task say of its branch, and of a job of it.
TaskAgrees(t) ==
  /\ status[t] = "cancelled" => run = "cancelled"
  /\ stage[t] # "none" => status[t] \in {"running", "cancelled"}
  /\ stage[t] = "working" \/ own[t] # <<>> => fork[t] # NoBranch

JobAgrees(p) ==
  ~Idle(p) =>
    /\ home[job[p].task] = p
    /\ status[job[p].task] \in {"running", "cancelled"}
    /\ job[p].step # "submit" => fork[job[p].task] # NoBranch
    /\ Does(p, "integrate") => job[p].upto \in DOMAIN own[job[p].task]

RowsAgree ==
  /\ plan # NoPlan => integration # "absent"
  /\ \A t \in Tasks : TaskAgrees(t)
  /\ \A p \in Homes : JobAgrees(p)

\* Nothing was taken off the integration branch, or will be.
Undone(p) == job[p].step \in {"abort", "reset"} \/ (Does(p, "submit") /\ job[p].outcome = "blocked")
Clean ==
  /\ interrupted = {}
  /\ \A t \in Tasks : status[t] \notin {"blocked", "cancelled"}
  /\ \A p \in Homes : ~Undone(p)
Safe == ~overlapped \/ Clean

\* The longer list starts with the shorter.
Begins(short, long) ==
  /\ Len(short) <= Len(long)
  /\ \A i \in DOMAIN short : short[i] = long[i]

\* Whether a commit of a task is among others, and which of its commits are not picked.
On(history, t) == \E i \in DOMAIN history : history[i][1] = t
Missing(t) == {n \in DOMAIN own[t] : <<t, n, 1>> \notin Range(branch)}

\* The commits on the branch were picked once, each from a task's branch.
BranchOfOwn ==
  \A i \in DOMAIN branch :
    /\ branch[i][3] = 1
    /\ branch[i][2] \in DOMAIN own[branch[i][1]]
ForksBegin == \A t \in Tasks : fork[t] # NoBranch => Begins(fork[t], branch)

\* What a job still has to pick, each commit once.
StillToPick(p) ==
  LET commits == job[p].commits
  IN /\ \A i \in DOMAIN commits : \E n \in Missing(job[p].task) : commits[i] = <<job[p].task, n, 0>>
     /\ \A n \in Missing(job[p].task) : \E i \in DOMAIN commits : commits[i] = <<job[p].task, n, 0>>
     /\ \A i, j \in DOMAIN commits : commits[i] = commits[j] => i = j

PicksAgree(p) ==
  /\ Does(p, "messages") => job[p].commits = own[job[p].task]
  /\ job[p].step \in {"head", "pick", "abort"} => StillToPick(p)
  /\ Does(p, "submit") /\ job[p].outcome = "succeeded" => Missing(job[p].task) = {}

SucceededAreWhole == \A t \in Tasks : status[t] = "succeeded" => Missing(t) = {}

\* What is on the branch, what a task's branch started from and what the jobs still have
\* to pick account for each other.
BranchAgrees ==
  Safe => /\ BranchOfOwn /\ ForksBegin /\ SucceededAreWhole
          /\ \A p \in Homes : PicksAgree(p)

OneIntegrates ==
  \A p, q \in Homes : Integrating(p) /\ Integrating(q) => p = q

\* The branch was what the job read, and is that with the job's picks.
Resettable(p) ==
  LET old == job[p].original
  IN /\ Begins(old, branch)
     /\ \A i \in DOMAIN branch : i > Len(old) => branch[i][1] = job[p].task
     /\ \A t \in Tasks : fork[t] # NoBranch => Begins(fork[t], old)
     /\ job[p].task \notin interrupted => ~On(old, job[p].task)

Clash(p) ==
  \E i \in DOMAIN branch : {Content(branch[i]), Content(Head(job[p].commits))} \in Clashes

Unpicked(p) ==
  job[p].step \in {"commit", "integrate", "messages", "head"}
    \/ (Does(p, "submit") /\ job[p].outcome # "succeeded")

JobAlone(p) ==
  /\ Integrating(p) /\ ~Does(p, "abort") => integration = "clean"
  /\ job[p].step \in {"pick", "abort", "reset"} => Resettable(p)
  /\ Does(p, "abort") => Clash(p)
  /\ Unpicked(p) /\ job[p].task \notin interrupted => ~On(branch, job[p].task)

Unfinished(t) == status[t] \notin {"succeeded", "cancelled"} \/ stage[t] # "none"

\* What a process may rely on while no other integrates: what a conflict would reset the
\* branch to has all but its own picks, and nobody leaves commits without succeeding.
SerialAgrees ==
  ~overlapped =>
    /\ OneIntegrates
    /\ \A p \in Homes : JobAlone(p)
    /\ \A t \in Tasks \ (interrupted \cup InJobs) : Unfinished(t) => ~On(branch, t)

\* Commits come when all that their task depends on succeeded.
OrderAgrees ==
  Clean =>
    /\ integration # "picking"
    /\ \A i \in DOMAIN branch :
         /\ branch[i][1] \in plan.tasks
         /\ \A d \in plan.deps[branch[i][1]] : status[d] = "succeeded"
    /\ InDependencyOrder

IntegrationConsistent ==
  /\ Consistent /\ GitTypeOK /\ RowsAgree /\ BranchAgrees /\ SerialAgrees /\ OrderAgrees

-----------------------------------------------------------------------------
(* Sequences *)

\* What a sequence is.
LEMMA SeqIs ==
  ASSUME NEW S, NEW s \in Seq(S)
  PROVE  /\ Len(s) \in Nat
         /\ DOMAIN s = 1..Len(s)
         /\ \A i \in DOMAIN s : s[i] \in S
         /\ s # <<>> <=> Len(s) > 0
         /\ s = <<>> <=> DOMAIN s = {}
<1>1. Len(s) \in Nat /\ DOMAIN s = 1..Len(s) /\ \A i \in DOMAIN s : s[i] \in S
  BY LenProperties
<1>2. s # <<>> <=> Len(s) > 0
  BY <1>1, EmptySeq
<1>3. Len(s) > 0 => 1 \in DOMAIN s
  BY <1>1
<1>4. s = <<>> <=> DOMAIN s = {}
  BY <1>1, <1>2, <1>3
<1>. QED
  BY <1>1, <1>2, <1>4

\* The first elements of a sequence.
LEMMA FirstOf ==
  ASSUME NEW S, NEW s \in Seq(S), NEW n \in 0..Len(s)
  PROVE  /\ SubSeq(s, 1, n) \in Seq(S)
         /\ Len(SubSeq(s, 1, n)) = n
         /\ \A i \in 1..n : SubSeq(s, 1, n)[i] = s[i]
<1>1. n \in Nat /\ Len(s) \in Nat /\ \A i \in 1..n : s[i] \in S
  BY LenProperties
<1>2. /\ SubSeq(s, 1, n) \in Seq(S)
      /\ Len(SubSeq(s, 1, n)) = IF 1 <= n THEN n - 1 + 1 ELSE 0
      /\ \A i \in 1..(n - 1 + 1) : SubSeq(s, 1, n)[i] = s[1 + i - 1]
  BY <1>1, SubSeqProperties
<1>3. n - 1 + 1 = n /\ \A i \in 1..n : 1 + i - 1 = i
  BY <1>1
<1>. QED
  BY <1>1, <1>2, <1>3

\* The common prefixes of two sequences, by their lengths.
LEMMA CommonPrefixIs ==
  ASSUME NEW S, NEW h \in Seq(S), NEW b \in Seq(S)
  PROVE  /\ \A x \in CommonPrefixes({h, b}) :
              /\ Len(x) \in 0..Len(h) /\ Len(x) <= Len(b)
              /\ \A i \in 1..Len(x) : h[i] = b[i]
         /\ \A n \in 0..Len(h) :
              n <= Len(b) /\ (\A i \in 1..n : h[i] = b[i])
                => SubSeq(h, 1, n) \in CommonPrefixes({h, b}) /\ Len(SubSeq(h, 1, n)) = n
<1>1. Len(h) \in Nat /\ Len(b) \in Nat
  BY LenProperties
<1>2. \A x : x \in CommonPrefixes({h, b}) <=>
               /\ x \in Prefixes(h) \cup Prefixes(b)
               /\ IsPrefix(x, h) /\ IsPrefix(x, b)
  BY DEF CommonPrefixes
<1>3. ASSUME NEW x \in CommonPrefixes({h, b})
      PROVE  /\ Len(x) \in 0..Len(h) /\ Len(x) <= Len(b)
             /\ \A i \in 1..Len(x) : h[i] = b[i]
  <2>1. Len(x) \in Nat
    <3>1. \A n \in 0..Len(h) : Len(SubSeq(h, 1, n)) \in Nat
      BY <1>1, FirstOf
    <3>2. \A n \in 0..Len(b) : Len(SubSeq(b, 1, n)) \in Nat
      BY <1>1, FirstOf
    <3>. QED
      BY <1>2, <1>3, <3>1, <3>2 DEF Prefixes
  <2>2. /\ Len(x) <= Len(h) /\ Len(x) <= Len(b)
        /\ SubSeq(h, 1, Len(x)) = SubSeq(b, 1, Len(x))
    BY <1>2, <1>3 DEF IsPrefix
  <2>3. Len(x) \in 0..Len(h) /\ Len(x) \in 0..Len(b)
    BY <1>1, <2>1, <2>2
  <2>4. \A i \in 1..Len(x) : SubSeq(h, 1, Len(x))[i] = h[i]
    BY <2>3, FirstOf
  <2>5. \A i \in 1..Len(x) : SubSeq(b, 1, Len(x))[i] = b[i]
    BY <2>3, FirstOf
  <2>. QED
    BY <2>2, <2>3, <2>4, <2>5
<1>4. ASSUME NEW n \in 0..Len(h), n <= Len(b), \A i \in 1..n : h[i] = b[i]
      PROVE  SubSeq(h, 1, n) \in CommonPrefixes({h, b}) /\ Len(SubSeq(h, 1, n)) = n
  <2>1. PICK x : x = SubSeq(h, 1, n)
    OBVIOUS
  <2>2. n \in 0..Len(b)
    BY <1>1, <1>4
  <2>3. x \in Seq(S) /\ Len(x) = n /\ \A i \in 1..n : x[i] = h[i]
    BY <2>1, FirstOf
  <2>4. PICK y : y = SubSeq(b, 1, n)
    OBVIOUS
  <2>5. y \in Seq(S) /\ Len(y) = n /\ \A i \in 1..n : y[i] = b[i]
    BY <2>2, <2>4, FirstOf
  <2>6. x = y
    <3>1. Len(x) = Len(y) /\ \A i \in 1..Len(x) : x[i] = y[i]
      BY <1>4, <2>3, <2>5
    <3>. QED
      BY <2>3, <2>5, <3>1, SeqEqual
  <2>7. SubSeq(x, 1, Len(x)) = x
    BY <2>3, SubSeqFull
  <2>8. IsPrefix(x, h) /\ IsPrefix(x, b)
    BY <1>1, <1>4, <2>1, <2>3, <2>4, <2>6, <2>7 DEF IsPrefix
  <2>9. x \in Prefixes(h)
    BY <2>1 DEF Prefixes
  <2>. QED
    BY <1>2, <2>1, <2>3, <2>8, <2>9
<1>. QED
  BY <1>3, <1>4

\* There is a longest one, and it is as long as the part that two sequences share.
LEMMA LongestIs ==
  ASSUME NEW S, NEW h \in Seq(S), NEW b \in Seq(S)
  PROVE  LET longest == LongestCommonPrefix({h, b})
         IN /\ Len(longest) \in 0..Len(h)
            /\ \A n \in 0..Len(h) :
                 /\ n <= Len(b) /\ (\A i \in 1..n : h[i] = b[i])
                 /\ n < Len(h) /\ n < Len(b) => h[n + 1] # b[n + 1]
                 => Len(longest) = n
<1> DEFINE common == CommonPrefixes({h, b})
<1> DEFINE lengths == {Len(x) : x \in common}
<1>1. Len(h) \in Nat /\ Len(b) \in Nat
  BY LenProperties
<1>2. \A x \in common :
        /\ Len(x) \in 0..Len(h) /\ Len(x) <= Len(b)
        /\ \A i \in 1..Len(x) : h[i] = b[i]
  BY CommonPrefixIs
<1>3. \A n \in 0..Len(h) :
        n <= Len(b) /\ (\A i \in 1..n : h[i] = b[i])
          => SubSeq(h, 1, n) \in common /\ Len(SubSeq(h, 1, n)) = n
  BY CommonPrefixIs
<1>. HIDE DEF common
<1>4. lengths \in SUBSET Nat /\ IsFiniteSet(lengths)
  <2>1. lengths \in SUBSET (0..Len(h))
    BY <1>2
  <2>2. IsFiniteSet(0..Len(h))
    BY <1>1, FS_Interval
  <2>. QED
    BY <1>1, <2>1, <2>2, FS_Subset
<1>5. \E m \in lengths : \A n \in lengths : n <= m
  <2>. HIDE DEF lengths
  <2>1. 0 \in lengths
    <3>1. SubSeq(h, 1, 0) \in common /\ Len(SubSeq(h, 1, 0)) = 0
      BY <1>1, <1>3
    <3>. QED
      BY <3>1 DEF lengths
  <2>2. /\ Cardinality(lengths) \in Nat
        /\ \A i \in 1..Cardinality(lengths) : Nth(lengths, i) \in lengths
        /\ \A n \in lengths : n <= Nth(lengths, Cardinality(lengths))
    BY <1>4, NthIsThere
  <2>3. Cardinality(lengths) # 0
    BY <1>4, <2>1, FS_EmptySet
  <2>4. Cardinality(lengths) \in 1..Cardinality(lengths)
    BY <2>2, <2>3
  <2>5. Nth(lengths, Cardinality(lengths)) \in lengths
    BY <2>2, <2>4
  <2>. QED
    BY <2>2, <2>5
<1>6. \E x \in common : \A y \in common : Len(y) <= Len(x)
  BY <1>5
<1>7. PICK l : l = LongestCommonPrefix({h, b})
  OBVIOUS
<1>8. l \in common /\ \A y \in common : Len(y) <= Len(l)
  BY <1>6, <1>7 DEF LongestCommonPrefix, common
<1>9. ASSUME NEW n \in 0..Len(h), n <= Len(b), \A i \in 1..n : h[i] = b[i],
             n < Len(h) /\ n < Len(b) => h[n + 1] # b[n + 1]
      PROVE  Len(l) = n
  <2>1. n <= Len(l)
    BY <1>3, <1>8, <1>9
  <2>2. /\ Len(l) \in 0..Len(h) /\ Len(l) <= Len(b)
        /\ \A i \in 1..Len(l) : h[i] = b[i]
    BY <1>2, <1>8
  <2>3. ~(n < Len(l))
    <3>. SUFFICES ASSUME n < Len(l) PROVE FALSE
      OBVIOUS
    <3>1. n + 1 \in 1..Len(l) /\ n < Len(h) /\ n < Len(b)
      BY <1>1, <2>2
    <3>. QED
      BY <1>9, <2>2, <3>1
  <2>. QED
    BY <1>1, <2>1, <2>2, <2>3
<1>. QED
  BY <1>2, <1>7, <1>8, <1>9

-----------------------------------------------------------------------------
(* Commits *)

\* The parts of a commit.
LEMMA CommitIs ==
  /\ \A c \in Picks :
       /\ c[1] \in Tasks /\ c[2] \in Nat \ {0} /\ c[3] \in Nat \ {0}
       /\ c = <<c[1], c[2], c[3]>>
  /\ \A c \in Made :
       /\ c[1] \in Tasks /\ c[2] \in Nat \ {0} /\ c[3] = 0
       /\ c = <<c[1], c[2], 0>>
  /\ \A c \in Commits : c[1] \in Tasks /\ c[2] \in Nat \ {0} /\ c[3] \in Nat
  /\ \A t \in Tasks, n \in Nat \ {0} : <<t, n, 0>> \in Made /\ <<t, n, 1>> \in Picks
  BY DEF Picks, Made, Commits

\* What is on the integration branch was picked, so that it is never taken for NoBranch.
LEMMA NoBranchIsNone ==
  ASSUME NEW s \in Seq(Picks)
  PROVE  s # NoBranch
<1>. SUFFICES ASSUME s = NoBranch PROVE FALSE
  OBVIOUS
<1>1. Len(s) = 1 /\ s[1] = <<0, 0, 0>>
  BY DEF NoBranch
<1>2. s[1] \in Picks
  BY <1>1, SeqIs
<1>. QED
  BY <1>1, <1>2, CommitIs

\* What remains to pick is what no commit on the branch names, each once.
LEMMA PendingIs ==
  ASSUME NEW commits \in Seq(Commits), NEW history
  PROVE  LET pending == Pending(commits, history)
         IN /\ pending \in Seq(Commits)
            /\ \A k \in DOMAIN pending : \E i \in DOMAIN commits :
                 pending[k] = commits[i] /\ ~NamedIn(commits[i], history)
            /\ \A i \in DOMAIN commits :
                 ~NamedIn(commits[i], history) => \E k \in DOMAIN pending : pending[k] = commits[i]
            /\ (\A i, j \in DOMAIN commits : commits[i] = commits[j] => i = j)
                 => \A i, j \in DOMAIN pending : pending[i] = pending[j] => i = j
<1>1. PICK left : left = {i \in DOMAIN commits : ~NamedIn(commits[i], history)}
  OBVIOUS
<1>2. PICK size : size = Cardinality(left)
  OBVIOUS
<1>3. /\ DOMAIN commits = 1..Len(commits) /\ Len(commits) \in Nat
      /\ \A i \in DOMAIN commits : commits[i] \in Commits
  BY SeqIs
<1>4. left \in SUBSET Nat /\ IsFiniteSet(left)
  <2>1. IsFiniteSet(DOMAIN commits)
    BY <1>3, FS_Interval
  <2>2. left \in SUBSET DOMAIN commits
    BY <1>1
  <2>. QED
    BY <1>3, <2>1, <2>2, FS_Subset
<1>5. /\ size \in Nat
      /\ \A i \in 1..size : Nth(left, i) \in left
      /\ \A t \in left : \E i \in 1..size : Nth(left, i) = t
      /\ \A i, j \in 1..size : Nth(left, i) = Nth(left, j) => i = j
  BY <1>2, <1>4, NthIsThere
<1>6. PICK pending : pending = Pending(commits, history)
  OBVIOUS
<1>7. pending = [k \in 1..size |-> commits[Nth(left, k)]]
  BY <1>1, <1>2, <1>6 DEF Pending
<1>8. DOMAIN pending = 1..size /\ \A k \in 1..size : pending[k] = commits[Nth(left, k)]
  BY <1>7
<1>9. \A k \in 1..size : Nth(left, k) \in DOMAIN commits /\ ~NamedIn(commits[Nth(left, k)], history)
  BY <1>1, <1>5
<1>10. pending \in Seq(Commits)
  <2>1. \A k \in 1..size : commits[Nth(left, k)] \in Commits
    BY <1>3, <1>9
  <2>. QED
    BY <1>5, <1>7, <2>1
<1>11. \A i \in DOMAIN commits :
         ~NamedIn(commits[i], history) => \E k \in 1..size : Nth(left, k) = i
  BY <1>1, <1>5
<1>12. ASSUME \A i, j \in DOMAIN commits : commits[i] = commits[j] => i = j,
              NEW i \in 1..size, NEW j \in 1..size, pending[i] = pending[j]
       PROVE  i = j
  BY <1>5, <1>8, <1>9, <1>12
<1>. QED
  BY <1>6, <1>8, <1>9, <1>10, <1>11, <1>12

\* What a task's branch has beyond the integration branch.
LEMMA TaskCommitsAre ==
  ASSUME branch \in Seq(Picks), NEW t \in Tasks, fork[t] \in Seq(Picks), own[t] \in Seq(Made)
  PROVE  /\ TaskCommits(t) \in Seq(Commits)
         /\ Begins(fork[t], branch) => TaskCommits(t) = own[t]
<1>1. PICK f : f = fork[t] /\ f \in Seq(Commits) /\ \A i \in DOMAIN f : f[i] \in Picks
  BY SeqMonotonic, SeqIs DEF Commits
<1>2. PICK o : o = own[t] /\ o \in Seq(Commits) /\ \A i \in DOMAIN o : o[i] \in Made
  BY SeqMonotonic, SeqIs DEF Commits
<1>3. branch \in Seq(Commits) /\ \A i \in DOMAIN branch : branch[i] \in Picks
  BY SeqMonotonic, SeqIs DEF Commits
<1>4. PICK h : h = f \o o
  OBVIOUS
<1>5. /\ h \in Seq(Commits)
      /\ Len(h) = Len(f) + Len(o)
      /\ \A i \in 1..(Len(f) + Len(o)) : h[i] = IF i <= Len(f) THEN f[i] ELSE o[i - Len(f)]
  BY <1>1, <1>2, <1>4, ConcatProperties
<1>6. PICK n : n = Len(LongestCommonPrefix({h, branch}))
  OBVIOUS
<1>7. /\ n \in 0..Len(h)
      /\ \A m \in 0..Len(h) :
           /\ m <= Len(branch) /\ (\A i \in 1..m : h[i] = branch[i])
           /\ m < Len(h) /\ m < Len(branch) => h[m + 1] # branch[m + 1]
           => n = m
  BY <1>3, <1>5, <1>6, LongestIs
<1>8. TaskCommits(t) = SubSeq(h, n + 1, Len(h))
  BY <1>1, <1>2, <1>4, <1>6 DEF TaskCommits
<1>9. /\ Len(f) \in Nat /\ DOMAIN f = 1..Len(f)
      /\ Len(o) \in Nat /\ DOMAIN o = 1..Len(o)
      /\ Len(branch) \in Nat /\ DOMAIN branch = 1..Len(branch)
      /\ Len(h) \in Nat
      /\ \A i \in 1..Len(h) : h[i] \in Commits
  BY <1>1, <1>2, <1>3, <1>5, LenProperties
<1>10. /\ SubSeq(h, n + 1, Len(h)) \in Seq(Commits)
       /\ Len(SubSeq(h, n + 1, Len(h))) = IF n + 1 <= Len(h) THEN Len(h) - (n + 1) + 1 ELSE 0
       /\ \A i \in 1..(Len(h) - (n + 1) + 1) : SubSeq(h, n + 1, Len(h))[i] = h[n + 1 + i - 1]
  <2>1. n + 1 \in Int /\ Len(h) \in Int /\ \A i \in (n + 1)..Len(h) : h[i] \in Commits
    BY <1>7, <1>9
  <2>. QED
    BY <2>1, SubSeqProperties
<1>11. ASSUME Begins(f, branch)
       PROVE  TaskCommits(t) = o
  <2>1. Len(f) <= Len(branch) /\ \A i \in 1..Len(f) : f[i] = branch[i]
    BY <1>9, <1>11 DEF Begins
  <2>2. \A i \in 1..Len(f) : h[i] = branch[i]
    BY <1>5, <1>9, <2>1
  <2>3. Len(f) < Len(h) /\ Len(f) < Len(branch) => h[Len(f) + 1] # branch[Len(f) + 1]
    <3>. SUFFICES ASSUME Len(f) < Len(h), Len(f) < Len(branch),
                         h[Len(f) + 1] = branch[Len(f) + 1]
                  PROVE  FALSE
      OBVIOUS
    <3>1. Len(f) + 1 \in 1..(Len(f) + Len(o)) /\ ~(Len(f) + 1 <= Len(f)) /\ Len(f) + 1 - Len(f) = 1
          /\ 1 \in DOMAIN o /\ Len(f) + 1 \in DOMAIN branch
      BY <1>5, <1>9
    <3>2. h[Len(f) + 1] = o[1]
      BY <1>5, <3>1
    <3>3. o[1] \in Made /\ o[1] \in Picks
      BY <1>2, <1>3, <3>1, <3>2
    <3>. QED
      BY <3>3, CommitIs
  <2>4. n = Len(f)
    <3>1. Len(f) \in 0..Len(h)
      BY <1>5, <1>9
    <3>. QED
      BY <1>7, <2>1, <2>2, <2>3, <3>1
  <2>5. PICK s : s = SubSeq(h, n + 1, Len(h))
    OBVIOUS
  <2>6. Len(s) = Len(o)
    BY <1>5, <1>9, <1>10, <2>4, <2>5
  <2>7. ASSUME NEW i \in 1..Len(o) PROVE s[i] = o[i]
    <3>1. /\ i \in 1..(Len(h) - (n + 1) + 1) /\ n + 1 + i - 1 = Len(f) + i
          /\ Len(f) + i \in 1..(Len(f) + Len(o)) /\ ~(Len(f) + i <= Len(f))
          /\ Len(f) + i - Len(f) = i
      BY <1>5, <1>9, <2>4
    <3>2. s[i] = h[Len(f) + i]
      BY <1>10, <2>5, <3>1
    <3>. QED
      BY <1>5, <3>1, <3>2
  <2>8. s = o
    BY <1>2, <1>10, <2>5, <2>6, <2>7, SeqEqual
  <2>. QED
    BY <1>8, <2>5, <2>8
<1>. QED
  BY <1>1, <1>2, <1>8, <1>10, <1>11

-----------------------------------------------------------------------------
(* Jobs *)

\* The parts of a job, by its step.
LEMMA JobIs ==
  ASSUME NEW j \in Jobs
  PROVE  /\ j.step \in Steps
         /\ j = NoJob <=> j.step = "none"
         /\ j # NoJob => j.task \in Tasks
         /\ j.step = "integrate" => j.upto \in Nat
         /\ j.step \in {"messages", "head", "pick", "abort", "reset"} => j.commits \in CommitLists
         /\ j.step \in {"pick", "abort", "reset"} => j.original \in Seq(Picks)
         /\ j.step = "submit" => j.outcome \in Outcomes /\ j.sha \in BOOLEAN
  BY DEF Jobs, NoJob, Steps

\* The jobs that an action gives a process.
LEMMA NewJobs ==
  /\ NoJob \in Jobs
  /\ \A t \in Tasks : [step |-> "commit", task |-> t] \in Jobs
  /\ \A t \in Tasks, n \in Nat : [step |-> "integrate", task |-> t, upto |-> n] \in Jobs
  /\ \A t \in Tasks, s \in CommitLists, step \in {"messages", "head"} :
       [step |-> step, task |-> t, commits |-> s] \in Jobs
  /\ \A t \in Tasks, s \in CommitLists, o \in Seq(Picks), step \in {"pick", "abort", "reset"} :
       [step |-> step, task |-> t, commits |-> s, original |-> o] \in Jobs
  /\ \A t \in Tasks, o \in Outcomes, sha \in BOOLEAN :
       [step |-> "submit", task |-> t, outcome |-> o, sha |-> sha] \in Jobs
  BY DEF Jobs

\* A job that goes on keeps the rest of what it knows.
LEMMA NextStep ==
  ASSUME NEW j \in Jobs, j.step \in {"pick", "abort", "reset"},
         NEW step \in {"pick", "abort", "reset"}, NEW s \in CommitLists
  PROVE  /\ [j EXCEPT !.step = step]
              = [step |-> step, task |-> j.task, commits |-> j.commits, original |-> j.original]
         /\ [j EXCEPT !.commits = s]
              = [step |-> j.step, task |-> j.task, commits |-> s, original |-> j.original]
<1>1. j \in [step : {"pick", "abort", "reset"}, task : Tasks, commits : CommitLists,
             original : Seq(Picks)]
  BY DEF Jobs, NoJob
<1>. QED
  BY <1>1

\* An action gives one process a job, and leaves the others theirs.
LEMMA OneJob ==
  ASSUME NEW p \in Homes, NEW j \in Jobs, job \in [Homes -> Jobs], job' = [job EXCEPT ![p] = j]
  PROVE  /\ job' \in [Homes -> Jobs]
         /\ job'[p] = j
         /\ \A q \in Homes \ {p} : job'[q] = job[q]
  OBVIOUS

-----------------------------------------------------------------------------
(* The types *)

\* A task's branch grows by the next of its commits.
LEMMA OwnGrows ==
  ASSUME GitTypeOK, NEW t \in Tasks, own' = [own EXCEPT ![t] = Append(@, <<t, Len(@) + 1, 0>>)]
  PROVE  /\ own' \in [Tasks -> Seq(Made)]
         /\ \A u \in Tasks : \A n \in DOMAIN own'[u] : own'[u][n] = <<u, n, 0>>
         /\ \A u \in Tasks \ {t} : own'[u] = own[u]
         /\ own'[t] # <<>>
         /\ DOMAIN own[t] \subseteq DOMAIN own'[t]
         /\ Len(own[t]) + 1 \in DOMAIN own'[t]
<1>1. own \in [Tasks -> Seq(Made)] /\ \A u \in Tasks : \A n \in DOMAIN own[u] : own[u][n] = <<u, n, 0>>
  BY DEF GitTypeOK
<1>2. PICK s \in Seq(Made) : s = own[t]
  BY <1>1
<1>3. PICK c : c = <<t, Len(s) + 1, 0>>
  OBVIOUS
<1>4. Len(s) \in Nat /\ DOMAIN s = 1..Len(s)
  BY SeqIs
<1>5. c \in Made
  <2>1. Len(s) + 1 \in Nat \ {0}
    BY <1>4
  <2>. QED
    BY <1>3, <2>1, CommitIs
<1>6. PICK r : r = Append(s, c)
  OBVIOUS
<1>7. /\ r \in Seq(Made) /\ Len(r) = Len(s) + 1 /\ r # <<>>
      /\ \A i \in 1..Len(s) : r[i] = s[i]
      /\ r[Len(s) + 1] = c
  BY <1>5, <1>6, AppendProperties
<1>8. DOMAIN r = 1..(Len(s) + 1)
  BY <1>7, SeqIs
<1>9. \A n \in DOMAIN r : r[n] = <<t, n, 0>>
  <2>. SUFFICES ASSUME NEW n \in DOMAIN r PROVE r[n] = <<t, n, 0>>
    OBVIOUS
  <2>1. CASE n \in 1..Len(s)
    BY <1>1, <1>2, <1>4, <1>7, <2>1
  <2>2. CASE n = Len(s) + 1
    BY <1>3, <1>7, <2>2
  <2>. QED
    BY <1>4, <1>8, <2>1, <2>2
<1>10. own'[t] = r /\ \A u \in Tasks \ {t} : own'[u] = own[u]
  BY <1>1, <1>2, <1>3, <1>6
<1>11. own' \in [Tasks -> Seq(Made)]
  BY <1>1, <1>2, <1>3, <1>6, <1>7
<1>12. \A u \in Tasks : \A n \in DOMAIN own'[u] : own'[u][n] = <<u, n, 0>>
  BY <1>1, <1>9, <1>10
<1>13. DOMAIN s \subseteq DOMAIN r /\ Len(s) + 1 \in DOMAIN r
  BY <1>4, <1>8
<1>. QED
  BY <1>2, <1>7, <1>10, <1>11, <1>12, <1>13

\* The integration branch grows by one commit.
LEMMA BranchGrows ==
  ASSUME branch \in Seq(Picks), NEW c \in Picks, branch' = Append(branch, c)
  PROVE  /\ branch' \in Seq(Picks)
         /\ Len(branch') = Len(branch) + 1
         /\ \A i \in DOMAIN branch : i \in DOMAIN branch' /\ branch'[i] = branch[i]
         /\ \A i \in DOMAIN branch' : i \in DOMAIN branch \/ (i > Len(branch) /\ branch'[i] = c)
         /\ Range(branch') = Range(branch) \cup {c}
<1>1. /\ branch' \in Seq(Picks) /\ Len(branch') = Len(branch) + 1
      /\ \A i \in 1..Len(branch) : branch'[i] = branch[i]
      /\ branch'[Len(branch) + 1] = c
  BY AppendProperties
<1>2. /\ Len(branch) \in Nat /\ DOMAIN branch = 1..Len(branch)
      /\ DOMAIN branch' = 1..(Len(branch) + 1)
  BY <1>1, SeqIs
<1>3. \A i \in DOMAIN branch : i \in DOMAIN branch' /\ branch'[i] = branch[i]
  BY <1>1, <1>2
<1>4. \A i \in DOMAIN branch' : i \in DOMAIN branch \/ (i > Len(branch) /\ branch'[i] = c)
  <2>1. \A i \in DOMAIN branch' :
          i \in DOMAIN branch \/ (i > Len(branch) /\ i = Len(branch) + 1)
    BY <1>2
  <2>2. branch'[Len(branch) + 1] = c
    BY <1>1
  <2>3. ASSUME NEW i \in DOMAIN branch', i = Len(branch) + 1 PROVE branch'[i] = c
    BY <2>2, <2>3
  <2>. QED
    BY <2>1, <2>3
<1>5. Len(branch) + 1 \in DOMAIN branch'
  BY <1>2
<1>6. Range(branch') = Range(branch) \cup {c}
  BY <1>1, <1>3, <1>4, <1>5 DEF Range
<1>. QED
  BY <1>1, <1>3, <1>4, <1>6

\* A result to submit is a job.
LEMMA ReportIs ==
  ASSUME GitTypeOK, NEW p \in Homes, NEW t \in Tasks, NEW o \in Outcomes, NEW sha \in BOOLEAN,
         Reports(p, t, o, sha)
  PROVE  /\ job' \in [Homes -> Jobs]
         /\ \A q \in Homes \ {p} : job'[q] = job[q]
         /\ job'[p].step = "submit" /\ job'[p].task = t /\ job'[p].outcome = o
<1> DEFINE j == [step |-> "submit", task |-> t, outcome |-> o, sha |-> sha]
<1>1. j \in Jobs
  BY NewJobs
<1>2. job \in [Homes -> Jobs] /\ job' = [job EXCEPT ![p] = j]
  BY DEF GitTypeOK, Reports
<1>3. /\ job' \in [Homes -> Jobs] /\ job'[p] = j
      /\ \A q \in Homes \ {p} : job'[q] = job[q]
  BY <1>1, <1>2, OneJob
<1>4. j.step = "submit" /\ j.task = t /\ j.outcome = o
  OBVIOUS
<1>. HIDE DEF j
<1>. QED
  BY <1>2, <1>3, <1>4

\* The commits a job has still to pick after one of them.
LEMMA TailIs ==
  ASSUME NEW s \in CommitLists
  PROVE  /\ Head(s) = s[1] /\ 1 \in DOMAIN s /\ Head(s) \in Commits
         /\ Len(s) # 1 => Tail(s) \in CommitLists
         /\ Len(s) = 1 => DOMAIN s = {1}
         /\ \A i \in DOMAIN Tail(s) : i + 1 \in DOMAIN s /\ i + 1 # 1 /\ Tail(s)[i] = s[i + 1]
         /\ \A i \in DOMAIN s : i # 1 => \E k \in DOMAIN Tail(s) : k + 1 = i
<1>1. /\ s \in Seq(Commits) /\ s # <<>>
      /\ Len(s) \in Nat /\ Len(s) > 0 /\ DOMAIN s = 1..Len(s) /\ \A i \in DOMAIN s : s[i] \in Commits
  BY SeqIs DEF CommitLists
<1>2. PICK r : r = Tail(s)
  OBVIOUS
<1>3. r \in Seq(Commits) /\ Len(r) = Len(s) - 1 /\ \A i \in 1..Len(r) : r[i] = s[i + 1]
  BY <1>1, <1>2, HeadTailProperties
<1>4. DOMAIN r = 1..(Len(s) - 1) /\ (r = <<>> <=> ~(Len(r) > 0))
  BY <1>3, SeqIs
<1>5. Head(s) = s[1] /\ 1 \in DOMAIN s
  BY <1>1
<1>6. Len(s) # 1 => r \in CommitLists
  BY <1>1, <1>3, <1>4 DEF CommitLists
<1>7. Len(s) = 1 => DOMAIN s = {1}
  BY <1>1
<1>8. \A i \in DOMAIN r : i + 1 \in DOMAIN s /\ i + 1 # 1
  BY <1>1, <1>4
<1>9. \A i \in DOMAIN s : i # 1 => i - 1 \in DOMAIN r /\ (i - 1) + 1 = i
  BY <1>1, <1>4
<1>10. \A i \in DOMAIN r : r[i] = s[i + 1]
  BY <1>3, <1>4, <1>1
<1>. QED
  BY <1>1, <1>2, <1>3, <1>5, <1>6, <1>7, <1>8, <1>9, <1>10

\* What a process that does a job knows.
LEMMA DoesIs ==
  ASSUME GitTypeOK, NEW p \in Homes, job[p].step # "none"
  PROVE  /\ ~Idle(p)
         /\ job[p] \in Jobs
         /\ job[p].task \in Tasks
         /\ job[p].step = "integrate" => job[p].upto \in Nat
         /\ job[p].step \in {"messages", "head", "pick", "abort", "reset"}
              => job[p].commits \in CommitLists
         /\ job[p].step \in {"pick", "abort", "reset"} => job[p].original \in Seq(Picks)
         /\ job[p].step = "submit" => job[p].outcome \in Outcomes /\ job[p].sha \in BOOLEAN
<1>1. job[p] \in Jobs
  BY DEF GitTypeOK
<1>2. PICK j \in Jobs : j = job[p]
  BY <1>1
<1>3. j.step # "none"
  BY <1>2
<1>4. j # NoJob
  BY <1>3 DEF NoJob
<1>. QED
  BY <1>2, <1>3, <1>4, JobIs DEF Idle, GitTypeOK

\* Each step keeps the types of the branches and jobs.
LEMMA StepTypes ==
  ASSUME Consistent, GitTypeOK, RowsAgree, GitNext
  PROVE  GitTypeOK'
<1>. USE DEF GitTypeOK
<1>1. CASE \E mode \in Deliveries : Open(mode)
  BY <1>1 DEF Open, gitVars
<1>2. CASE \E p \in Plans : Publish(p)
  BY <1>2 DEF Publish
<1>3. ASSUME NEW p \in Homes, NEW e \in Executors, Claim(p, e) PROVE GitTypeOK'
  <2>1. PICK claimed : /\ stage' = [t \in Tasks |-> IF t \in claimed THEN "claimed" ELSE stage[t]]
                       /\ home' = [t \in Tasks |-> IF t \in claimed THEN p ELSE home[t]]
    BY <1>3 DEF Claim
  <2>2. /\ stage' \in [Tasks -> {"none", "claimed", "working"}]
        /\ home' \in [Tasks -> Homes]
    BY <2>1
  <2>. QED
    BY <1>3, <2>2 DEF Claim
<1>4. ASSUME NEW p \in Homes, NEW t \in Tasks, PrepareTask(p, t) PROVE GitTypeOK'
  <2>1. UNCHANGED <<branch, integration, own, edited, primary, home, interrupted>>
    BY <1>4 DEF PrepareTask
  <2>2. overlapped' \in BOOLEAN
    BY <1>4 DEF PrepareTask
  <2>3. CASE Ready
    <3>1. /\ fork' = [fork EXCEPT ![t] = IF @ = NoBranch THEN branch ELSE @]
          /\ UNCHANGED job
          /\ \/ stage' = [stage EXCEPT ![t] = "working"]
             \/ stage' = [stage EXCEPT ![t] = "none"]
      BY <1>4, <2>3 DEF PrepareTask
    <3>2. /\ fork' \in [Tasks -> Seq(Picks) \cup {NoBranch}]
          /\ stage' \in [Tasks -> {"none", "claimed", "working"}]
      BY <3>1
    <3>. QED
      BY <2>1, <2>2, <3>1, <3>2
  <2>4. CASE ~Ready
    <3>1. Reports(p, t, "failed", FALSE) /\ UNCHANGED <<vars, fork, stage>>
      BY <1>4, <2>4 DEF PrepareTask
    <3>2. job' \in [Homes -> Jobs]
      BY <3>1, ReportIs DEF Outcomes
    <3>. QED
      BY <2>1, <2>2, <3>1, <3>2
  <2>. QED
    BY <2>3, <2>4
<1>5. ASSUME NEW p \in Homes, NEW t \in Tasks, WorkerAnswers(p, t) PROVE GitTypeOK'
  <2>1. UNCHANGED <<vars, branch, integration, fork, own, edited, primary, home, interrupted, overlapped>>
    BY <1>5 DEF WorkerAnswers
  <2>2. CASE stage' = [stage EXCEPT ![t] = "none"] /\ UNCHANGED job
    <3>1. stage' \in [Tasks -> {"none", "claimed", "working"}]
      BY <2>2
    <3>. QED
      BY <2>1, <2>2, <3>1
  <2>3. ASSUME NEW o \in {"failed", "blocked"}, Reports(p, t, o, FALSE), UNCHANGED stage
        PROVE  GitTypeOK'
    <3>1. job' \in [Homes -> Jobs]
      BY <2>3, ReportIs DEF Outcomes
    <3>. QED
      BY <2>1, <2>3, <3>1
  <2>4. CASE job' = [job EXCEPT ![p] = [step |-> "commit", task |-> t]] /\ UNCHANGED stage
    <3>1. job' \in [Homes -> Jobs]
      BY <2>4, NewJobs, OneJob
    <3>. QED
      BY <2>1, <2>4, <3>1
  <2>. QED
    BY <1>5, <2>2, <2>3, <2>4 DEF WorkerAnswers
<1>6. ASSUME NEW p \in Homes, NEW t \in Tasks, HostSubmits(p, t) PROVE GitTypeOK'
  <2>1. UNCHANGED <<vars, branch, integration, fork, own, edited, primary, stage, home, interrupted,
                    overlapped>>
    BY <1>6 DEF HostSubmits
  <2>2. job' \in [Homes -> Jobs]
    <3>1. ASSUME NEW o \in {"failed", "blocked"}, Reports(p, t, o, FALSE)
          PROVE  job' \in [Homes -> Jobs]
      BY <3>1, ReportIs DEF Outcomes
    <3>2. ASSUME NEW n \in DOMAIN own[t],
                 job' = [job EXCEPT ![p] = [step |-> "integrate", task |-> t, upto |-> n]]
          PROVE  job' \in [Homes -> Jobs]
      <4>1. n \in Nat
        BY SeqIs
      <4>. QED
        BY <3>2, <4>1, NewJobs, OneJob
    <3>. QED
      BY <1>6, <3>1, <3>2 DEF HostSubmits
  <2>. QED
    BY <2>1, <2>2
<1>7. ASSUME NEW p \in Homes, CommitTask(p) PROVE GitTypeOK'
  <2>1. UNCHANGED <<vars, branch, integration, fork, primary, stage, home, interrupted, overlapped>>
    BY <1>7 DEF CommitTask
  <2>2. PICK t \in Tasks : t = job[p].task
    BY <1>7, DoesIs DEF CommitTask, Does
  <2>3. CASE edited[t]
    <3>1. /\ own' = [own EXCEPT ![t] = Append(@, <<t, Len(@) + 1, 0>>)]
          /\ edited' = [edited EXCEPT ![t] = FALSE]
          /\ job' = [job EXCEPT ![p] = [step |-> "integrate", task |-> t,
                                        upto |-> Len(own[t]) + 1]]
      BY <1>7, <2>2, <2>3 DEF CommitTask
    <3>2. Len(own[t]) + 1 \in Nat
      BY SeqIs
    <3>3. job' \in [Homes -> Jobs]
      BY <3>1, <3>2, NewJobs, OneJob
    <3>4. /\ own' \in [Tasks -> Seq(Made)]
          /\ \A u \in Tasks : \A n \in DOMAIN own'[u] : own'[u][n] = <<u, n, 0>>
      BY <3>1, OwnGrows
    <3>5. edited' \in [Tasks -> BOOLEAN]
      BY <3>1
    <3>. QED
      BY <2>1, <3>3, <3>4, <3>5
  <2>4. CASE ~edited[t]
    <3>1. Reports(p, t, "failed", FALSE) /\ UNCHANGED <<own, edited>>
      BY <1>7, <2>2, <2>4 DEF CommitTask
    <3>2. job' \in [Homes -> Jobs]
      BY <3>1, ReportIs DEF Outcomes
    <3>. QED
      BY <2>1, <3>1, <3>2
  <2>. QED
    BY <2>3, <2>4
<1>8. ASSUME NEW p \in Homes, Integrate(p) PROVE GitTypeOK'
  <2>1. /\ UNCHANGED <<vars, branch, integration, fork, own, edited, primary, stage, home, interrupted>>
        /\ overlapped' \in BOOLEAN
    BY <1>8 DEF Integrate
  <2>2. PICK t \in Tasks : t = job[p].task
    BY <1>8, DoesIs DEF Integrate, Does
  <2>3. fork[t] \in Seq(Picks)
    BY <1>8, <2>2, DoesIs DEF Integrate, Does, RowsAgree, JobAgrees
  <2>4. TaskCommits(t) \in Seq(Commits)
    BY <2>3, TaskCommitsAre
  <2>5. \/ TaskCommits(t) # <<>> /\ job' = [job EXCEPT ![p] = [step |-> "messages", task |-> t, commits |-> TaskCommits(t)]]
        \/ Reports(p, t, "failed", TRUE)
    BY <1>8, <2>2 DEF Integrate
  <2>6. job' \in [Homes -> Jobs]
    <3>1. CASE Reports(p, t, "failed", TRUE)
      BY <3>1, ReportIs DEF Outcomes
    <3>2. CASE /\ TaskCommits(t) # <<>>
               /\ job' = [job EXCEPT ![p] = [step |-> "messages", task |-> t, commits |-> TaskCommits(t)]]
      BY <2>4, <3>2, NewJobs, OneJob DEF CommitLists
    <3>. QED
      BY <2>5, <3>1, <3>2
  <2>. QED
    BY <2>1, <2>6
<1>9. ASSUME NEW p \in Homes, ReadMessages(p) PROVE GitTypeOK'
  <2>1. UNCHANGED <<vars, branch, integration, fork, own, edited, primary, stage, home, interrupted,
                    overlapped>>
    BY <1>9 DEF ReadMessages
  <2>2. PICK t \in Tasks : t = job[p].task
    BY <1>9, DoesIs DEF ReadMessages, Does
  <2>3. PICK s \in Seq(Commits) : s = Pending(job[p].commits, branch)
    BY <1>9, DoesIs, PendingIs DEF ReadMessages, Does, CommitLists
  <2>4. \/ s # <<>> /\ job' = [job EXCEPT ![p] = [step |-> "head", task |-> t, commits |-> s]]
        \/ Reports(p, t, "succeeded", TRUE)
    BY <1>9, <2>2, <2>3 DEF ReadMessages
  <2>5. job' \in [Homes -> Jobs]
    <3>1. CASE Reports(p, t, "succeeded", TRUE)
      BY <3>1, ReportIs DEF Outcomes
    <3>2. CASE s # <<>> /\ job' = [job EXCEPT ![p] = [step |-> "head", task |-> t, commits |-> s]]
      BY <3>2, NewJobs, OneJob DEF CommitLists
    <3>. QED
      BY <2>4, <3>1, <3>2
  <2>. QED
    BY <2>1, <2>5
<1>10. ASSUME NEW p \in Homes, ReadHead(p) PROVE GitTypeOK'
  <2>1. UNCHANGED <<vars, branch, integration, fork, own, edited, primary, stage, home, interrupted,
                    overlapped>>
    BY <1>10 DEF ReadHead
  <2>2. /\ job[p].task \in Tasks /\ job[p].commits \in CommitLists
        /\ job' = [job EXCEPT ![p] = [step |-> "pick", task |-> job[p].task,
                                      commits |-> job[p].commits, original |-> branch]]
    BY <1>10, DoesIs DEF ReadHead, Does
  <2>3. job' \in [Homes -> Jobs]
    BY <2>2, NewJobs, OneJob
  <2>. QED
    BY <2>1, <2>3
<1>11. ASSUME NEW p \in Homes, CherryPick(p) PROVE GitTypeOK'
  <2>1. UNCHANGED <<vars, fork, own, edited, primary, stage, home, interrupted, overlapped>>
    BY <1>11 DEF CherryPick
  <2>2. /\ job[p] \in Jobs /\ job[p].step = "pick" /\ job[p].task \in Tasks
        /\ job[p].commits \in CommitLists
        /\ job[p].original \in Seq(Picks)
    BY <1>11, DoesIs DEF CherryPick, Does
  <2>3. CASE ~Applies(Head(job[p].commits))
    <3>1. /\ integration' = "picking" /\ UNCHANGED branch
          /\ job' = [job EXCEPT ![p].step = "abort"]
      BY <1>11, <2>3 DEF CherryPick, GoTo
    <3>2. PICK j : j = [job[p] EXCEPT !.step = "abort"]
      OBVIOUS
    <3>3. /\ j = [step |-> "abort", task |-> job[p].task, commits |-> job[p].commits,
                  original |-> job[p].original]
          /\ job' = [job EXCEPT ![p] = j]
      BY <2>2, <3>1, <3>2, NextStep
    <3>4. j \in Jobs
      BY <2>2, <3>3, NewJobs
    <3>5. job' \in [Homes -> Jobs]
      BY <3>3, <3>4, OneJob
    <3>. QED
      BY <2>1, <3>1, <3>5
  <2>4. CASE Applies(Head(job[p].commits))
    <3>1. PICK c : c = Head(job[p].commits) /\ c \in Commits
      BY <2>2, TailIs
    <3>2. /\ branch' = Append(branch, <<c[1], c[2], c[3] + 1>>)
          /\ UNCHANGED integration
          /\ \/ Reports(p, job[p].task, "succeeded", TRUE)
             \/ Len(job[p].commits) # 1 /\ job' = [job EXCEPT ![p].commits = Tail(@)]
      BY <1>11, <2>4, <3>1 DEF CherryPick, Picked
    <3>3. branch' \in Seq(Picks)
      <4>1. c[1] \in Tasks /\ c[2] \in Nat \ {0} /\ c[3] + 1 \in Nat \ {0}
        BY <3>1, CommitIs
      <4>2. <<c[1], c[2], c[3] + 1>> \in Picks
        BY <4>1 DEF Picks
      <4>. QED
        BY <3>2, <4>2, BranchGrows
    <3>4. job' \in [Homes -> Jobs]
      <4>1. CASE Reports(p, job[p].task, "succeeded", TRUE)
        BY <2>2, <4>1, ReportIs DEF Outcomes
      <4>2. CASE Len(job[p].commits) # 1 /\ job' = [job EXCEPT ![p].commits = Tail(@)]
        <5>1. PICK s : s = Tail(job[p].commits) /\ s \in CommitLists
          BY <2>2, <4>2, TailIs
        <5>2. PICK j : j = [job[p] EXCEPT !.commits = s]
          OBVIOUS
        <5>3. /\ j = [step |-> job[p].step, task |-> job[p].task, commits |-> s,
                      original |-> job[p].original]
              /\ job' = [job EXCEPT ![p] = j]
          BY <2>2, <4>2, <5>1, <5>2, NextStep
        <5>4. j \in Jobs
          BY <2>2, <5>1, <5>3, NewJobs
        <5>. QED
          BY <5>3, <5>4, OneJob
      <4>. QED
        BY <3>2, <4>1, <4>2
    <3>. QED
      BY <2>1, <3>2, <3>3, <3>4
  <2>. QED
    BY <2>3, <2>4
<1>12. ASSUME NEW p \in Homes, AbortPick(p) PROVE GitTypeOK'
  <2>1. /\ UNCHANGED <<vars, branch, fork, own, edited, primary, stage, home, interrupted, overlapped>>
        /\ integration' = "clean"
        /\ job' = [job EXCEPT ![p].step = "reset"]
    BY <1>12 DEF AbortPick, GoTo
  <2>2. /\ job[p] \in Jobs /\ job[p].step = "abort" /\ job[p].task \in Tasks
        /\ job[p].commits \in CommitLists /\ job[p].original \in Seq(Picks)
    BY <1>12, DoesIs DEF AbortPick, Does
  <2>3. PICK j : j = [job[p] EXCEPT !.step = "reset"]
    OBVIOUS
  <2>4. /\ j = [step |-> "reset", task |-> job[p].task, commits |-> job[p].commits,
                original |-> job[p].original]
        /\ job' = [job EXCEPT ![p] = j]
    BY <2>1, <2>2, <2>3, NextStep
  <2>5. j \in Jobs
    BY <2>2, <2>4, NewJobs
  <2>6. job' \in [Homes -> Jobs]
    BY <2>4, <2>5, OneJob
  <2>. QED
    BY <2>1, <2>6
<1>13. ASSUME NEW p \in Homes, ResetHard(p) PROVE GitTypeOK'
  <2>1. /\ UNCHANGED <<vars, fork, own, edited, primary, stage, home, interrupted, overlapped>>
        /\ branch' = job[p].original /\ integration' = "clean"
        /\ Reports(p, job[p].task, "blocked", TRUE)
    BY <1>13 DEF ResetHard
  <2>2. job[p].task \in Tasks /\ job[p].original \in Seq(Picks)
    BY <1>13, DoesIs DEF ResetHard, Does
  <2>3. job' \in [Homes -> Jobs]
    BY <2>1, <2>2, ReportIs DEF Outcomes
  <2>. QED
    BY <2>1, <2>2, <2>3
<1>14. ASSUME NEW p \in Homes, Submit(p) PROVE GitTypeOK'
  <2>1. /\ UNCHANGED <<branch, integration, fork, own, edited, primary, home, interrupted, overlapped>>
        /\ stage' = [stage EXCEPT ![job[p].task] = "none"]
        /\ job' = [job EXCEPT ![p] = NoJob]
    BY <1>14 DEF Submit
  <2>2. stage' \in [Tasks -> {"none", "claimed", "working"}]
    BY <2>1
  <2>3. NoJob \in Jobs /\ NoJob.step = "none"
    BY NewJobs DEF NoJob
  <2>4. job' \in [Homes -> Jobs]
    BY <2>1, <2>3, OneJob
  <2>. QED
    BY <2>1, <2>2, <2>4
<1>15. ASSUME NEW p \in Homes, Cancel(p) PROVE GitTypeOK'
  BY <1>15 DEF Cancel, gitVars
<1>16. ASSUME NEW p \in Homes, Crash(p) PROVE GitTypeOK'
  <2>1. /\ UNCHANGED <<vars, branch, integration, fork, own, edited, primary, home, overlapped>>
        /\ job' = [job EXCEPT ![p] = NoJob]
        /\ interrupted' = interrupted \cup {job[q].task : q \in {p} \ {q \in Homes : Idle(q)}}
        /\ stage' = [t \in Tasks |-> IF home[t] = p /\ (stage[t] = "claimed" \/ plan.executor[t] = "codex")
                                     THEN "none" ELSE stage[t]]
    BY <1>16 DEF Crash
  <2>2. stage' \in [Tasks -> {"none", "claimed", "working"}]
    BY <2>1
  <2>3. NoJob \in Jobs /\ NoJob.step = "none"
    BY NewJobs DEF NoJob
  <2>4. job' \in [Homes -> Jobs]
    BY <2>1, <2>3, OneJob
  <2>5. ASSUME ~Idle(p) PROVE job[p].task \in Tasks
    BY <2>5, JobIs DEF Idle
  <2>6. interrupted' \in SUBSET Tasks
    BY <2>1, <2>5
  <2>. QED
    BY <2>1, <2>2, <2>4, <2>6
<1>17. ASSUME NEW t \in Tasks, Edit(t) PROVE GitTypeOK'
  <2>1. UNCHANGED <<vars, branch, integration, fork, primary, stage, home, job, interrupted, overlapped>>
    BY <1>17 DEF Edit
  <2>2. CASE edited' = [edited EXCEPT ![t] = TRUE] /\ UNCHANGED own
    BY <2>1, <2>2
  <2>3. CASE own' = [own EXCEPT ![t] = Append(@, <<t, Len(@) + 1, 0>>)] /\ UNCHANGED edited
    BY <2>1, <2>3, OwnGrows
  <2>. QED
    BY <1>17, <2>2, <2>3 DEF Edit
<1>18. CASE EditPrimary
  BY <1>18 DEF EditPrimary
<1>. QED
  BY <1>1, <1>2, <1>3, <1>4, <1>5, <1>6, <1>7, <1>8, <1>9, <1>10, <1>11, <1>12, <1>13, <1>14, <1>15,
     <1>16, <1>17, <1>18 DEF GitNext

-----------------------------------------------------------------------------
(* What an action sees and leaves in the rows *)

\* A plan that is saved has no task that succeeded.
LEMMA PublishSeen ==
  ASSUME Consistent, NEW p \in Plans, SavePlan(p)
  PROVE  /\ plan = NoPlan /\ run' = "running"
         /\ \A t \in Tasks : status[t] = "absent" /\ status'[t] \notin {"succeeded", "cancelled"}
<1>1. RowsTyped /\ run \in {"created", "planning"}
  BY DEF Consistent, SavePlan
<1>2. plan = NoPlan
  BY <1>1 DEF Consistent, PlanWhenPlanned
<1>3. \A t \in Tasks : status[t] = "absent"
  BY <1>1, <1>2 DEF RowsTyped, NoPlan
<1>4. PICK fresh : /\ fresh = [t \in Tasks |-> IF t \in p.tasks THEN "pending" ELSE "absent"]
                   /\ status' = Refresh(p, fresh)
  BY DEF SavePlan
<1>5. \A t \in Tasks : fresh[t] \in {"pending", "absent"}
  BY <1>4
<1>6. \A t \in Tasks : status'[t] \notin {"succeeded", "cancelled"}
  BY <1>4, <1>5, RefreshKeepsDecided
<1>. QED
  BY <1>2, <1>3, <1>6 DEF SavePlan

\* A claim makes one ready task a running one.
LEMMA ClaimSeen ==
  ASSUME Consistent, NEW e, NEW w, ClaimTask(e, w, Tasks)
  PROVE  \E t \in Tasks :
           /\ status[t] = "ready"
           /\ status' = [status EXCEPT ![t] = "running"]
           /\ {u \in Tasks : attempt'[u] # attempt[u]} = {t}
           /\ run' = run /\ plan' = plan
<1>1. PICK t \in Claimable(e, Tasks) :
        /\ status' = [Refresh(plan, status) EXCEPT ![t] = "running"]
        /\ attempt' = [attempt EXCEPT ![t] = @ + 1]
  BY DEF ClaimTask
<1>2. Refresh(plan, status) = status /\ attempt \in [Tasks -> Nat]
  BY DEF Consistent, Refreshed, RowsTyped
<1>3. t \in Tasks /\ status[t] = "ready"
  BY <1>2 DEF Claimable
<1>4. attempt'[t] # attempt[t] /\ \A u \in Tasks \ {t} : attempt'[u] = attempt[u]
  BY <1>1, <1>2, <1>3
<1>5. {u \in Tasks : attempt'[u] # attempt[u]} = {t}
  BY <1>3, <1>4
<1>. QED
  BY <1>1, <1>2, <1>3, <1>5 DEF ClaimTask

\* A result decides one running task, and takes dependents along only to be blocked.
LEMMA SubmitSeen ==
  ASSUME Consistent, NEW t \in Tasks, NEW w, NEW o \in Outcomes, NEW sha, NEW path,
         SubmitTaskResult(t, w, o, sha, path)
  PROVE  /\ status[t] = "running"
         /\ status'[t] = "succeeded" <=> o = "succeeded"
         /\ o = "blocked" => status'[t] = "blocked"
         /\ status'[t] # "cancelled"
         /\ \A u \in Tasks \ {t} :
              /\ status[u] \in Decided \cup {"running"} => status'[u] = status[u]
              /\ status'[u] \in {"succeeded", "cancelled", "running"} => status'[u] = status[u]
         /\ run = "cancelled" => run' = "cancelled"
         /\ plan' = plan
<1>1. PICK mid : /\ mid = [status EXCEPT ![t] = ResultStatus(t, o)]
                 /\ status' = Refresh(plan, mid)
                 /\ status[t] = "running" /\ run' = SyncRun(status') /\ plan' = plan
  BY DEF SubmitTaskResult, CanSubmit
<1>2. status \in [Tasks -> TaskStatuses \cup {"absent"}]
  BY DEF Consistent, RowsTyped
<1>3. mid[t] = ResultStatus(t, o) /\ \A u \in Tasks \ {t} : mid[u] = status[u]
  BY <1>1, <1>2
<1>4. /\ mid[t] = "succeeded" <=> o = "succeeded"
      /\ o = "blocked" => mid[t] = "blocked"
      /\ mid[t] # "cancelled"
  BY <1>3 DEF ResultStatus, Outcomes
<1>5. \A u \in Tasks :
        /\ status'[u] = "succeeded" <=> mid[u] = "succeeded"
        /\ status'[u] = "cancelled" <=> mid[u] = "cancelled"
        /\ status'[u] = "running" <=> mid[u] = "running"
        /\ mid[u] \notin Waiting => status'[u] = mid[u]
  <2>1. \A u \in Tasks :
          /\ Refresh(plan, mid)[u] = "succeeded" <=> mid[u] = "succeeded"
          /\ Refresh(plan, mid)[u] = "cancelled" <=> mid[u] = "cancelled"
          /\ Refresh(plan, mid)[u] = "running" <=> mid[u] = "running"
          /\ mid[u] \notin Waiting => Refresh(plan, mid)[u] = mid[u]
    BY RefreshKeepsDecided
  <2>2. status' = Refresh(plan, mid)
    BY <1>1
  <2>. QED
    BY <2>1, <2>2
<1>6. /\ status'[t] = "succeeded" <=> o = "succeeded"
      /\ o = "blocked" => status'[t] = "blocked"
      /\ status'[t] # "cancelled"
  BY <1>4, <1>5 DEF Waiting
<1>7. \A u \in Tasks \ {t} :
        /\ status[u] \in Decided \cup {"running"} => status'[u] = status[u]
        /\ status'[u] \in {"succeeded", "cancelled", "running"} => status'[u] = status[u]
  BY <1>3, <1>5 DEF Waiting, Decided
<1>8. run = "cancelled" => run' = "cancelled"
  BY <1>1 DEF SyncRun
<1>. QED
  BY <1>1, <1>6, <1>7, <1>8

\* A cancellation cancels whatever is not decided.
LEMMA CancelSeen ==
  ASSUME CancelRun
  PROVE  /\ run' = "cancelled" /\ plan' = plan
         /\ \A u \in Tasks : status'[u] = IF status[u] \in Active THEN "cancelled" ELSE status[u]
  BY DEF CancelRun

\* What is decided stays so, and a job's result is the only one to decide.
LEMMA StepStores ==
  ASSUME Consistent, GitTypeOK, GitNext
  PROVE  /\ Consistent'
         /\ \A t \in Tasks : status[t] \in Decided => status'[t] = status[t]
<1>1. ASSUME UNCHANGED vars
      PROVE  Consistent' /\ \A t \in Tasks : status[t] \in Decided => status'[t] = status[t]
  BY <1>1, StepConsistent DEF vars
<1>2. ASSUME NEW mode \in Deliveries, Open(mode)
      PROVE  Consistent' /\ \A t \in Tasks : status[t] \in Decided => status'[t] = status[t]
  BY <1>2, CreateRunConsistent DEF Open, CreateRun
<1>3. ASSUME NEW p \in Plans, Publish(p)
      PROVE  Consistent' /\ \A t \in Tasks : status[t] \in Decided => status'[t] = status[t]
  BY <1>3, SavePlanConsistent, PublishSeen DEF Publish, Decided
<1>4. ASSUME NEW p \in Homes, NEW e \in Executors, Claim(p, e)
      PROVE  Consistent' /\ \A t \in Tasks : status[t] \in Decided => status'[t] = status[t]
  <2>1. PICK w \in Claimants : ClaimTask(e, w, Tasks)
    BY <1>4 DEF Claim
  <2>2. Consistent'
    BY <2>1, ClaimTaskConsistent DEF Wishes
  <2>3. PICK t \in Tasks : status[t] = "ready" /\ status' = [status EXCEPT ![t] = "running"]
    BY <2>1, ClaimSeen
  <2>4. \A u \in Tasks : status[u] \in Decided => status'[u] = status[u]
    BY <2>3 DEF Decided, Consistent, RowsTyped
  <2>. QED
    BY <2>2, <2>4
<1>5. ASSUME NEW p \in Homes, NEW t \in Tasks, PrepareTask(p, t)
      PROVE  Consistent' /\ \A u \in Tasks : status[u] \in Decided => status'[u] = status[u]
  <2>1. CASE SetTaskWorktree(t)
    BY <2>1, SetTaskWorktreeConsistent DEF SetTaskWorktree
  <2>. QED
    BY <1>1, <1>5, <2>1 DEF PrepareTask
<1>6. ASSUME NEW p \in Homes, Submit(p)
      PROVE  Consistent' /\ \A u \in Tasks : status[u] \in Decided => status'[u] = status[u]
  <2>1. PICK t \in Tasks : t = job[p].task
    BY <1>6, DoesIs DEF Submit, Does
  <2>2. PICK o \in Outcomes, sha \in BOOLEAN : o = job[p].outcome /\ sha = job[p].sha
    BY <1>6, DoesIs DEF Submit, Does
  <2>3. PICK path \in BOOLEAN : path = worktree[t]
    BY DEF Consistent, RowsTyped
  <2>4. CASE SubmitTaskResult(t, claimant[t], o, sha, path)
    <3>1. Consistent'
      BY <2>4, SubmitTaskResultConsistent
    <3>2. /\ status[t] = "running"
          /\ \A u \in Tasks \ {t} : status[u] \in Decided => status'[u] = status[u]
      BY <2>4, SubmitSeen
    <3>. QED
      BY <3>1, <3>2 DEF Decided
  <2>. QED
    BY <1>1, <1>6, <2>1, <2>2, <2>3, <2>4 DEF Submit
<1>7. ASSUME NEW p \in Homes, Cancel(p)
      PROVE  Consistent' /\ \A u \in Tasks : status[u] \in Decided => status'[u] = status[u]
  BY <1>7, CancelRunConsistent, CancelSeen DEF Cancel, Decided, Active
<1>8. ASSUME NEW p \in Homes, NEW t \in Tasks, WorkerAnswers(p, t) \/ HostSubmits(p, t)
      PROVE  UNCHANGED vars
  BY <1>8 DEF WorkerAnswers, HostSubmits
<1>9. ASSUME NEW p \in Homes,
             \/ CommitTask(p) \/ Integrate(p) \/ ReadMessages(p) \/ ReadHead(p)
             \/ CherryPick(p) \/ AbortPick(p) \/ ResetHard(p) \/ Crash(p)
      PROVE  UNCHANGED vars
  BY <1>9 DEF CommitTask, Integrate, ReadMessages, ReadHead, CherryPick, AbortPick, ResetHard, Crash
<1>10. ASSUME EditPrimary \/ \E t \in Tasks : Edit(t)
       PROVE  UNCHANGED vars
  BY <1>10 DEF EditPrimary, Edit
<1>. QED
  BY <1>1, <1>2, <1>3, <1>4, <1>5, <1>6, <1>7, <1>8, <1>9, <1>10 DEF GitNext

-----------------------------------------------------------------------------
(* The rows and the branches *)

\* A task is worked at by its home only, so that no two processes do a job of it.
LEMMA OneJobEach ==
  ASSUME GitTypeOK, RowsAgree
  PROVE  /\ \A p, q \in Homes : ~Idle(p) /\ ~Idle(q) /\ p # q => job[p].task # job[q].task
         /\ \A t \in Tasks : Idle(home[t]) => t \notin InJobs
         /\ \A t \in Tasks : status[t] \notin {"running", "cancelled"} => t \notin InJobs
  BY DEF RowsAgree, JobAgrees, InJobs

\* A step of one job that leaves the rows and the tasks' branches alone.
LEMMA JobMoves ==
  ASSUME GitTypeOK, RowsAgree, NEW p \in Homes,
         UNCHANGED <<vars, home, fork, own>>,
         \A t \in Tasks : stage'[t] \in {stage[t], "none"},
         integration' = "absent" => integration = "absent",
         \A q \in Homes \ {p} : job'[q] = job[q],
         JobAgrees(p)'
  PROVE  RowsAgree'
<1>1. \A t \in Tasks : TaskAgrees(t)'
  BY DEF RowsAgree, TaskAgrees, vars
<1>2. ASSUME NEW q \in Homes \ {p} PROVE JobAgrees(q)'
  BY <1>2 DEF RowsAgree, JobAgrees, Idle, Does, vars
<1>3. plan' # NoPlan => integration' # "absent"
  BY DEF RowsAgree, vars
<1>. QED
  BY <1>1, <1>2, <1>3 DEF RowsAgree

\* A job that came to its end has only its result to submit.
LEMMA ReportAgrees ==
  ASSUME GitTypeOK, NEW p \in Homes, NEW t \in Tasks, NEW o \in Outcomes, NEW sha \in BOOLEAN,
         Reports(p, t, o, sha), home'[t] = p, status'[t] \in {"running", "cancelled"}
  PROVE  JobAgrees(p)'
<1>1. job'[p].step = "submit" /\ job'[p].task = t
  BY ReportIs
<1>. QED
  BY <1>1 DEF JobAgrees, Does

\* Each step keeps what rows and jobs say of each other.
LEMMA StepRows ==
  ASSUME Consistent, GitTypeOK, RowsAgree, GitNext
  PROVE  RowsAgree'
<1>1. ASSUME NEW mode \in Deliveries, Open(mode) PROVE RowsAgree'
  <2>1. /\ UNCHANGED <<gitVars, plan, status>> /\ run = "none" /\ run' = "created"
    BY <1>1 DEF Open, CreateRun
  <2>. QED
    BY <2>1 DEF RowsAgree, TaskAgrees, JobAgrees, Idle, Does, gitVars
<1>2. ASSUME NEW p \in Plans, Publish(p) PROVE RowsAgree'
  <2>1. /\ UNCHANGED <<branch, fork, own, edited, primary, stage, home, job, interrupted, overlapped>>
        /\ integration' = "clean" /\ SavePlan(p)
    BY <1>2 DEF Publish
  <2>2. \A t \in Tasks : status[t] = "absent" /\ status'[t] # "cancelled"
    BY <2>1, PublishSeen
  <2>3. \A t \in Tasks : stage[t] = "none"
    BY <2>2 DEF RowsAgree, TaskAgrees
  <2>4. \A t \in Tasks : TaskAgrees(t)'
    BY <2>1, <2>2, <2>3 DEF RowsAgree, TaskAgrees
  <2>5. \A q \in Homes : Idle(q)
    <3>. SUFFICES ASSUME NEW q \in Homes, ~Idle(q) PROVE FALSE
      OBVIOUS
    <3>1. job[q].task \in Tasks
      BY JobIs DEF GitTypeOK, Idle
    <3>. QED
      BY <2>2, <3>1 DEF RowsAgree, JobAgrees
  <2>6. \A q \in Homes : JobAgrees(q)'
    BY <2>1, <2>5 DEF JobAgrees, Idle
  <2>. QED
    BY <2>1, <2>4, <2>6 DEF RowsAgree
<1>3. ASSUME NEW p \in Homes, NEW e \in Executors, Claim(p, e) PROVE RowsAgree'
  <2>1. PICK w \in Claimants : ClaimTask(e, w, Tasks)
    BY <1>3 DEF Claim
  <2>2. PICK t \in Tasks : /\ status[t] = "ready"
                           /\ status' = [status EXCEPT ![t] = "running"]
                           /\ {u \in Tasks : attempt'[u] # attempt[u]} = {t}
                           /\ run' = run /\ plan' = plan
    BY <2>1, ClaimSeen
  <2>3. /\ stage' = [u \in Tasks |-> IF u \in {t} THEN "claimed" ELSE stage[u]]
        /\ home' = [u \in Tasks |-> IF u \in {t} THEN p ELSE home[u]]
        /\ UNCHANGED <<branch, integration, fork, own, edited, primary, job, interrupted, overlapped>>
    BY <1>3, <2>2 DEF Claim
  <2>4. /\ stage'[t] = "claimed" /\ status'[t] = "running"
        /\ \A u \in Tasks \ {t} : stage'[u] = stage[u] /\ home'[u] = home[u] /\ status'[u] = status[u]
    BY <2>2, <2>3 DEF Consistent, RowsTyped
  <2>5. stage[t] = "none"
    BY <2>2 DEF RowsAgree, TaskAgrees
  <2>6. ASSUME NEW u \in Tasks PROVE TaskAgrees(u)'
    <3>1. CASE u = t
      BY <2>3, <2>4, <3>1 DEF RowsAgree, TaskAgrees
    <3>2. CASE u # t
      BY <2>2, <2>3, <2>4, <3>2 DEF RowsAgree, TaskAgrees
    <3>. QED
      BY <3>1, <3>2
  <2>7. ASSUME NEW q \in Homes PROVE JobAgrees(q)'
    <3>1. ~Idle(q) => job[q].task \in Tasks \ {t}
      BY <2>2, JobIs DEF RowsAgree, JobAgrees, GitTypeOK, Idle
    <3>2. ~Idle(q) => /\ home'[job[q].task] = home[job[q].task]
                      /\ status'[job[q].task] = status[job[q].task]
      BY <2>4, <3>1
    <3>. QED
      BY <2>3, <3>2 DEF RowsAgree, JobAgrees, Idle, Does
  <2>. QED
    BY <2>2, <2>3, <2>6, <2>7 DEF RowsAgree
<1>4. ASSUME NEW p \in Homes, NEW t \in Tasks, PrepareTask(p, t) PROVE RowsAgree'
  <2>1. /\ Idle(p) /\ stage[t] = "claimed" /\ home[t] = p
        /\ UNCHANGED <<branch, integration, own, edited, primary, home, interrupted>>
    BY <1>4 DEF PrepareTask
  <2>2. UNCHANGED <<run, plan, status>>
    BY <1>4 DEF PrepareTask, SetTaskWorktree, vars
  <2>3. CASE Ready
    <3>1. /\ fork' = [fork EXCEPT ![t] = IF @ = NoBranch THEN branch ELSE @]
          /\ UNCHANGED job
          /\ \/ status[t] = "running" /\ stage' = [stage EXCEPT ![t] = "working"]
             \/ stage' = [stage EXCEPT ![t] = "none"]
      BY <1>4, <2>3 DEF PrepareTask
    <3>2. /\ fork'[t] # NoBranch /\ \A u \in Tasks \ {t} : fork'[u] = fork[u]
          /\ \A u \in Tasks \ {t} : stage'[u] = stage[u]
          /\ stage'[t] # "none" => status[t] = "running"
      BY <3>1, NoBranchIsNone DEF GitTypeOK
    <3>3. ASSUME NEW u \in Tasks PROVE TaskAgrees(u)'
      <4>1. CASE u = t
        BY <2>2, <3>2, <4>1 DEF RowsAgree, TaskAgrees
      <4>2. CASE u # t
        BY <2>1, <2>2, <3>2, <4>2 DEF RowsAgree, TaskAgrees
      <4>. QED
        BY <4>1, <4>2
    <3>4. ASSUME NEW q \in Homes PROVE JobAgrees(q)'
      <4>1. ~Idle(q) => job[q].task \in Tasks
        BY JobIs DEF GitTypeOK, Idle
      <4>2. ~Idle(q) /\ fork[job[q].task] # NoBranch => fork'[job[q].task] # NoBranch
        BY <3>2, <4>1
      <4>. QED
        BY <2>1, <2>2, <3>1, <4>2 DEF RowsAgree, JobAgrees, Idle, Does
    <3>. QED
      BY <2>1, <2>2, <3>3, <3>4 DEF RowsAgree
  <2>4. CASE ~Ready
    <3>1. Reports(p, t, "failed", FALSE) /\ UNCHANGED <<vars, fork, stage>>
      BY <1>4, <2>4 DEF PrepareTask
    <3>2. status[t] \in {"running", "cancelled"}
      BY <2>1 DEF RowsAgree, TaskAgrees
    <3>3. JobAgrees(p)'
      BY <2>1, <2>2, <3>1, <3>2, ReportAgrees DEF Outcomes
    <3>4. \A q \in Homes \ {p} : job'[q] = job[q]
      BY <3>1, ReportIs DEF Outcomes
    <3>. QED
      BY <2>1, <3>1, <3>3, <3>4, JobMoves
  <2>. QED
    BY <2>3, <2>4
<1>5. ASSUME NEW p \in Homes, NEW t \in Tasks, WorkerAnswers(p, t) PROVE RowsAgree'
  <2>1. /\ UNCHANGED <<vars, branch, integration, fork, own, edited, primary, home, interrupted,
                       overlapped>>
        /\ stage[t] = "working" /\ home[t] = p /\ Idle(p)
    BY <1>5 DEF WorkerAnswers
  <2>2. status[t] \in {"running", "cancelled"} /\ fork[t] # NoBranch
    BY <2>1 DEF RowsAgree, TaskAgrees
  <2>3. \A u \in Tasks : stage'[u] \in {stage[u], "none"}
    BY <1>5 DEF WorkerAnswers, GitTypeOK
  <2>4. /\ \A q \in Homes \ {p} : job'[q] = job[q]
        /\ JobAgrees(p)'
    <3>1. CASE UNCHANGED job
      BY <2>1, <3>1 DEF JobAgrees, Idle
    <3>2. ASSUME NEW o \in {"failed", "blocked"}, Reports(p, t, o, FALSE)
          PROVE  (\A q \in Homes \ {p} : job'[q] = job[q]) /\ JobAgrees(p)'
      BY <2>1, <2>2, <3>2, ReportIs, ReportAgrees DEF Outcomes, vars
    <3>3. CASE job' = [job EXCEPT ![p] = [step |-> "commit", task |-> t]]
      <4>1. /\ job'[p].step = "commit" /\ job'[p].task = t
            /\ \A q \in Homes \ {p} : job'[q] = job[q]
        BY <3>3 DEF GitTypeOK
      <4>. QED
        BY <2>1, <2>2, <4>1 DEF JobAgrees, Does, vars
    <3>. QED
      BY <1>5, <3>1, <3>2, <3>3 DEF WorkerAnswers
  <2>. QED
    BY <2>1, <2>3, <2>4, JobMoves
<1>6. ASSUME NEW p \in Homes, NEW t \in Tasks, HostSubmits(p, t) PROVE RowsAgree'
  <2>1. /\ UNCHANGED <<vars, branch, integration, fork, own, edited, primary, stage, home, interrupted,
                       overlapped>>
        /\ status[t] = "running" /\ home[t] = p /\ Idle(p)
    BY <1>6 DEF HostSubmits
  <2>2. /\ \A q \in Homes \ {p} : job'[q] = job[q]
        /\ JobAgrees(p)'
    <3>1. ASSUME NEW o \in {"failed", "blocked"}, Reports(p, t, o, FALSE)
          PROVE  (\A q \in Homes \ {p} : job'[q] = job[q]) /\ JobAgrees(p)'
      BY <2>1, <3>1, ReportIs, ReportAgrees DEF Outcomes, vars
    <3>2. ASSUME NEW n \in DOMAIN own[t],
                 job' = [job EXCEPT ![p] = [step |-> "integrate", task |-> t, upto |-> n]]
          PROVE  (\A q \in Homes \ {p} : job'[q] = job[q]) /\ JobAgrees(p)'
      <4>1. /\ job'[p].step = "integrate" /\ job'[p].task = t /\ job'[p].upto = n
            /\ \A q \in Homes \ {p} : job'[q] = job[q]
        BY <3>2 DEF GitTypeOK
      <4>2. own[t] # <<>>
        BY SeqIs DEF GitTypeOK
      <4>3. fork[t] # NoBranch
        BY <4>2 DEF RowsAgree, TaskAgrees
      <4>. QED
        BY <2>1, <4>1, <4>3 DEF JobAgrees, Does, vars
    <3>. QED
      BY <1>6, <3>1, <3>2 DEF HostSubmits
  <2>. QED
    BY <2>1, <2>2, JobMoves
<1>7. ASSUME NEW p \in Homes, CommitTask(p) PROVE RowsAgree'
  <2>1. /\ UNCHANGED <<vars, branch, integration, fork, primary, stage, home, interrupted, overlapped>>
        /\ job[p].step = "commit"
    BY <1>7 DEF CommitTask, Does
  <2>2. PICK t \in Tasks : t = job[p].task
    BY <2>1, DoesIs
  <2>3. home[t] = p /\ status[t] \in {"running", "cancelled"} /\ fork[t] # NoBranch
    BY <2>1, <2>2, DoesIs DEF RowsAgree, JobAgrees
  <2>4. CASE ~edited[t]
    <3>1. Reports(p, t, "failed", FALSE) /\ UNCHANGED <<own, edited>>
      BY <1>7, <2>2, <2>4 DEF CommitTask
    <3>2. JobAgrees(p)' /\ \A q \in Homes \ {p} : job'[q] = job[q]
      BY <2>1, <2>3, <3>1, ReportIs, ReportAgrees DEF Outcomes, vars
    <3>. QED
      BY <2>1, <3>1, <3>2, JobMoves
  <2>5. CASE edited[t]
    <3>1. /\ own' = [own EXCEPT ![t] = Append(@, <<t, Len(@) + 1, 0>>)]
          /\ job' = [job EXCEPT ![p] = [step |-> "integrate", task |-> t,
                                        upto |-> Len(own[t]) + 1]]
      BY <1>7, <2>2, <2>5 DEF CommitTask
    <3>2. /\ \A u \in Tasks \ {t} : own'[u] = own[u]
          /\ Len(own[t]) + 1 \in DOMAIN own'[t]
      BY <3>1, OwnGrows
    <3>3. /\ job'[p].step = "integrate" /\ job'[p].task = t /\ job'[p].upto = Len(own[t]) + 1
          /\ \A q \in Homes \ {p} : job'[q] = job[q]
      BY <3>1 DEF GitTypeOK
    <3>4. JobAgrees(p)'
      BY <2>1, <2>3, <3>2, <3>3 DEF JobAgrees, Does, vars
    <3>5. ASSUME NEW q \in Homes \ {p} PROVE JobAgrees(q)'
      <4>1. ~Idle(q) => job[q].task \in Tasks \ {t}
        <5>. SUFFICES ASSUME ~Idle(q) PROVE job[q].task \in Tasks \ {t}
          OBVIOUS
        <5>1. ~Idle(p) /\ job[q].task \in Tasks
          BY <2>1, DoesIs, JobIs DEF GitTypeOK, Idle
        <5>. QED
          BY <2>2, <5>1, OneJobEach
      <4>2. ~Idle(q) => own'[job[q].task] = own[job[q].task]
        BY <3>2, <4>1
      <4>. QED
        BY <2>1, <3>3, <4>2 DEF RowsAgree, JobAgrees, Idle, Does, vars
    <3>6. ASSUME NEW u \in Tasks PROVE TaskAgrees(u)'
      BY <2>1, <2>3, <3>2 DEF RowsAgree, TaskAgrees, vars
    <3>. QED
      BY <2>1, <3>4, <3>5, <3>6 DEF RowsAgree, vars
  <2>. QED
    BY <2>4, <2>5
<1>8. ASSUME NEW p \in Homes,
             Integrate(p) \/ ReadMessages(p) \/ ReadHead(p) \/ CherryPick(p)
               \/ AbortPick(p) \/ ResetHard(p)
      PROVE  RowsAgree'
  <2>1. /\ UNCHANGED <<vars, fork, own, edited, primary, stage, home, interrupted>>
        /\ integration' = "absent" => integration = "absent"
        /\ job[p].step \in {"integrate", "messages", "head", "pick", "abort", "reset"}
    BY <1>8 DEF Integrate, ReadMessages, ReadHead, CherryPick, Picked, AbortPick, ResetHard, Does
  <2>2. PICK t \in Tasks : t = job[p].task
    BY <2>1, DoesIs
  <2>3. home[t] = p /\ status[t] \in {"running", "cancelled"} /\ fork[t] # NoBranch
    BY <2>1, <2>2, DoesIs DEF RowsAgree, JobAgrees
  <2>4. \/ \E o \in Outcomes, sha \in BOOLEAN : Reports(p, t, o, sha)
        \/ /\ \A q \in Homes \ {p} : job'[q] = job[q]
           /\ job'[p].task = t /\ job'[p].step \in {"messages", "head", "pick", "abort", "reset"}
    <3>1. job \in [Homes -> Jobs] /\ job[p] \in Jobs
      BY DEF GitTypeOK
    <3>2. CASE Integrate(p)
      <4>1. \/ job' = [job EXCEPT ![p] = [step |-> "messages", task |-> t, commits |-> TaskCommits(t)]]
            \/ Reports(p, t, "failed", TRUE)
        BY <2>2, <3>2 DEF Integrate
      <4>2. CASE Reports(p, t, "failed", TRUE)
        BY <4>2 DEF Outcomes
      <4>3. CASE job' = [job EXCEPT ![p] = [step |-> "messages", task |-> t,
                                            commits |-> TaskCommits(t)]]
        BY <3>1, <4>3
      <4>. QED
        BY <4>1, <4>2, <4>3
    <3>3. CASE ReadMessages(p)
      <4>1. \/ job' = [job EXCEPT ![p] = [step |-> "head", task |-> t,
                                          commits |-> Pending(job[p].commits, branch)]]
            \/ Reports(p, t, "succeeded", TRUE)
        BY <2>2, <3>3 DEF ReadMessages
      <4>2. CASE Reports(p, t, "succeeded", TRUE)
        BY <4>2 DEF Outcomes
      <4>3. CASE job' = [job EXCEPT ![p] = [step |-> "head", task |-> t,
                                            commits |-> Pending(job[p].commits, branch)]]
        BY <3>1, <4>3
      <4>. QED
        BY <4>1, <4>2, <4>3
    <3>4. CASE ReadHead(p)
      <4>1. job' = [job EXCEPT ![p] = [step |-> "pick", task |-> t,
                                       commits |-> job[p].commits, original |-> branch]]
        BY <2>2, <3>4 DEF ReadHead
      <4>. QED
        BY <3>1, <4>1
    <3>5. CASE CherryPick(p)
      <4>1. job[p].step = "pick" /\ job[p].commits \in CommitLists
        BY <3>5, DoesIs DEF CherryPick, Does
      <4>2. \/ Reports(p, t, "succeeded", TRUE)
            \/ job' = [job EXCEPT ![p].step = "abort"]
            \/ Len(job[p].commits) # 1 /\ job' = [job EXCEPT ![p].commits = Tail(@)]
        BY <2>2, <3>5 DEF CherryPick, Picked, GoTo
      <4>3. CASE Len(job[p].commits) # 1 /\ job' = [job EXCEPT ![p].commits = Tail(@)]
        <5>1. PICK s \in CommitLists : s = Tail(job[p].commits)
          BY <4>1, <4>3, TailIs
        <5>2. PICK j : j = [job[p] EXCEPT !.commits = s]
          OBVIOUS
        <5>3. j.task = t /\ j.step = "pick"
          BY <2>2, <3>1, <4>1, <5>1, <5>2, NextStep
        <5>4. job' = [job EXCEPT ![p] = j]
          BY <4>3, <5>1, <5>2
        <5>. QED
          BY <3>1, <5>3, <5>4
      <4>4. CASE job' = [job EXCEPT ![p].step = "abort"]
        <5>1. PICK j : j = [job[p] EXCEPT !.step = "abort"]
          OBVIOUS
        <5>2. j.task = t /\ j.step = "abort"
          BY <2>2, <3>1, <4>1, <5>1, NextStep
        <5>3. job' = [job EXCEPT ![p] = j]
          BY <4>4, <5>1
        <5>. QED
          BY <3>1, <5>2, <5>3
      <4>. QED
        BY <4>2, <4>3, <4>4 DEF Outcomes
    <3>6. CASE AbortPick(p)
      <4>1. job[p].step = "abort" /\ job[p].commits \in CommitLists
            /\ job' = [job EXCEPT ![p].step = "reset"]
        BY <3>6, DoesIs DEF AbortPick, Does, GoTo
      <4>2. PICK j : j = [job[p] EXCEPT !.step = "reset"]
        OBVIOUS
      <4>3. j.task = t /\ j.step = "reset"
        BY <2>2, <3>1, <4>1, <4>2, NextStep
      <4>4. job' = [job EXCEPT ![p] = j]
        BY <4>1, <4>2
      <4>. QED
        BY <3>1, <4>3, <4>4
    <3>7. CASE ResetHard(p)
      BY <2>2, <3>7 DEF ResetHard, Outcomes
    <3>. QED
      BY <1>8, <3>2, <3>3, <3>4, <3>5, <3>6, <3>7
  <2>5. JobAgrees(p)' /\ \A q \in Homes \ {p} : job'[q] = job[q]
    <3>1. ASSUME NEW o \in Outcomes, NEW sha \in BOOLEAN, Reports(p, t, o, sha)
          PROVE  JobAgrees(p)' /\ \A q \in Homes \ {p} : job'[q] = job[q]
      BY <2>1, <2>3, <3>1, ReportIs, ReportAgrees DEF vars
    <3>2. CASE /\ \A q \in Homes \ {p} : job'[q] = job[q]
               /\ job'[p].task = t /\ job'[p].step \in {"messages", "head", "pick", "abort", "reset"}
      BY <2>1, <2>3, <3>2 DEF JobAgrees, Does, vars
    <3>. QED
      BY <2>4, <3>1, <3>2
  <2>. QED
    BY <2>1, <2>5, JobMoves
<1>9. ASSUME NEW p \in Homes, Submit(p) PROVE RowsAgree'
  <2>1. /\ job[p].step = "submit"
        /\ UNCHANGED <<branch, integration, fork, own, edited, primary, home, interrupted, overlapped>>
        /\ job' = [job EXCEPT ![p] = NoJob]
    BY <1>9 DEF Submit, Does
  <2>2. PICK t \in Tasks : t = job[p].task
    BY <2>1, DoesIs
  <2>3. stage' = [stage EXCEPT ![t] = "none"]
    BY <1>9, <2>2 DEF Submit
  <2>4. /\ stage'[t] = "none" /\ \A u \in Tasks \ {t} : stage'[u] = stage[u]
        /\ Idle(p)' /\ \A q \in Homes \ {p} : job'[q] = job[q]
    BY <2>1, <2>3 DEF GitTypeOK, Idle
  <2>5. /\ plan' = plan /\ (run = "cancelled" => run' = "cancelled")
        /\ status'[t] = "cancelled" => status[t] = "cancelled"
        /\ \A u \in Tasks \ {t} :
             /\ status[u] \in {"running", "cancelled"} => status'[u] = status[u]
             /\ status'[u] = "cancelled" => status[u] = "cancelled"
    <3>1. CASE UNCHANGED vars
      BY <3>1 DEF vars
    <3>2. CASE SubmitTaskResult(t, claimant[t], job[p].outcome, job[p].sha, worktree[t])
      <4>1. job[p].outcome \in Outcomes
        BY <2>1, DoesIs
      <4>. QED
        BY <3>2, <4>1, SubmitSeen DEF Decided
    <3>. QED
      BY <1>9, <2>2, <3>1, <3>2 DEF Submit
  <2>6. ASSUME NEW u \in Tasks PROVE TaskAgrees(u)'
    <3>1. CASE u = t
      BY <2>1, <2>4, <2>5, <3>1 DEF RowsAgree, TaskAgrees
    <3>2. CASE u # t
      BY <2>1, <2>4, <2>5, <3>2 DEF RowsAgree, TaskAgrees
    <3>. QED
      BY <3>1, <3>2
  <2>7. ASSUME NEW q \in Homes \ {p} PROVE JobAgrees(q)'
    <3>1. ~Idle(q) => job[q].task \in Tasks \ {t}
      <4>. SUFFICES ASSUME ~Idle(q) PROVE job[q].task \in Tasks \ {t}
        OBVIOUS
      <4>1. ~Idle(p) /\ job[q].task \in Tasks
        BY <2>1, DoesIs, JobIs DEF GitTypeOK, Idle
      <4>. QED
        BY <2>2, <4>1, OneJobEach
    <3>2. ~Idle(q) => status'[job[q].task] = status[job[q].task]
      BY <2>5, <3>1 DEF RowsAgree, JobAgrees
    <3>. QED
      BY <2>1, <2>4, <3>2 DEF RowsAgree, JobAgrees, Idle, Does
  <2>8. JobAgrees(p)'
    BY <2>4 DEF JobAgrees
  <2>. QED
    BY <2>1, <2>5, <2>6, <2>7, <2>8 DEF RowsAgree
<1>10. ASSUME NEW p \in Homes, Cancel(p) PROVE RowsAgree'
  <2>1. UNCHANGED gitVars /\ CancelRun
    BY <1>10 DEF Cancel
  <2>2. /\ run' = "cancelled" /\ plan' = plan
        /\ \A u \in Tasks : /\ status[u] \in {"running", "cancelled"} => status'[u] = "cancelled"
                            /\ status'[u] # "cancelled" => status'[u] = status[u]
    BY <2>1, CancelSeen DEF Active
  <2>3. \A u \in Tasks : TaskAgrees(u)'
    BY <2>1, <2>2 DEF RowsAgree, TaskAgrees, gitVars
  <2>4. ASSUME NEW q \in Homes PROVE JobAgrees(q)'
    <3>1. ~Idle(q) => job[q].task \in Tasks
      BY JobIs DEF GitTypeOK, Idle
    <3>. QED
      BY <2>1, <2>2, <3>1 DEF RowsAgree, JobAgrees, Idle, Does, gitVars
  <2>. QED
    BY <2>1, <2>2, <2>3, <2>4 DEF RowsAgree, gitVars
<1>11. ASSUME NEW p \in Homes, Crash(p) PROVE RowsAgree'
  <2>1. /\ UNCHANGED <<vars, branch, integration, fork, own, edited, primary, home, overlapped>>
        /\ job' = [job EXCEPT ![p] = NoJob]
        /\ \A u \in Tasks : stage'[u] \in {stage[u], "none"}
    BY <1>11 DEF Crash
  <2>2. Idle(p)' /\ \A q \in Homes \ {p} : job'[q] = job[q]
    BY <2>1 DEF GitTypeOK, Idle
  <2>3. JobAgrees(p)'
    BY <2>2 DEF JobAgrees
  <2>. QED
    BY <2>1, <2>2, <2>3, JobMoves
<1>12. ASSUME NEW t \in Tasks, Edit(t) PROVE RowsAgree'
  <2>1. /\ UNCHANGED <<vars, branch, integration, fork, primary, stage, home, job, interrupted, overlapped>>
        /\ stage[t] = "working" /\ t \notin InJobs
        /\ \/ UNCHANGED own
           \/ own' = [own EXCEPT ![t] = Append(@, <<t, Len(@) + 1, 0>>)]
    BY <1>12 DEF Edit
  <2>2. \A u \in Tasks \ {t} : own'[u] = own[u]
    BY <2>1, OwnGrows
  <2>3. fork[t] # NoBranch
    BY <2>1 DEF RowsAgree, TaskAgrees
  <2>4. \A u \in Tasks : TaskAgrees(u)'
    BY <2>1, <2>2, <2>3 DEF RowsAgree, TaskAgrees, vars
  <2>5. ASSUME NEW q \in Homes PROVE JobAgrees(q)'
    <3>1. ~Idle(q) => job[q].task \in Tasks \ {t}
      BY <2>1, JobIs DEF GitTypeOK, Idle, InJobs
    <3>2. ~Idle(q) => own'[job[q].task] = own[job[q].task]
      BY <2>2, <3>1
    <3>. QED
      BY <2>1, <3>2 DEF RowsAgree, JobAgrees, Idle, Does, vars
  <2>. QED
    BY <2>1, <2>4, <2>5 DEF RowsAgree, vars
<1>13. CASE EditPrimary
  BY <1>13 DEF EditPrimary, RowsAgree, TaskAgrees, JobAgrees, Idle, Does, vars
<1>. QED
  BY <1>1, <1>2, <1>3, <1>4, <1>5, <1>6, <1>7, <1>8, <1>9, <1>10, <1>11, <1>12, <1>13 DEF GitNext

-----------------------------------------------------------------------------
(* The integration branch *)

\* A job goes on by an action of its process.
LEMMA JobActor ==
  ASSUME GitTypeOK, GitNext, NEW p \in Homes
  PROVE  \/ job'[p] = job[p]
         \/ Idle(p)
         \/ CommitTask(p) \/ Integrate(p) \/ ReadMessages(p) \/ ReadHead(p) \/ CherryPick(p)
         \/ AbortPick(p) \/ ResetHard(p) \/ Submit(p) \/ Crash(p)
<1>1. job \in [Homes -> Jobs]
  BY DEF GitTypeOK
<1>2. ASSUME NEW q \in Homes, q # p, NEW j, job' = [job EXCEPT ![q] = j]
      PROVE  job'[p] = job[p]
  BY <1>1, <1>2
<1>3. ASSUME NEW q \in Homes, q # p, NEW t \in Tasks,
             PrepareTask(q, t) \/ WorkerAnswers(q, t) \/ HostSubmits(q, t)
      PROVE  job'[p] = job[p]
  BY <1>1, <1>3 DEF PrepareTask, WorkerAnswers, HostSubmits, Reports
<1>4. ASSUME NEW q \in Homes, q # p,
             \/ CommitTask(q) \/ Integrate(q) \/ ReadMessages(q) \/ ReadHead(q)
             \/ AbortPick(q) \/ ResetHard(q) \/ Submit(q) \/ Crash(q)
      PROVE  job'[p] = job[p]
  BY <1>1, <1>4 DEF CommitTask, Integrate, ReadMessages, ReadHead, AbortPick, ResetHard, Submit,
                    Crash, Reports, GoTo
<1>5. ASSUME NEW q \in Homes, q # p, CherryPick(q)
      PROVE  job'[p] = job[p]
  BY <1>1, <1>5 DEF CherryPick, Picked, Reports, GoTo
<1>6. ASSUME NEW t \in Tasks, PrepareTask(p, t) \/ WorkerAnswers(p, t) \/ HostSubmits(p, t)
      PROVE  Idle(p)
  BY <1>6 DEF PrepareTask, WorkerAnswers, HostSubmits
<1>7. ASSUME (\E mode \in Deliveries : Open(mode)) \/ (\E r \in Plans : Publish(r))
               \/ (\E q \in Homes, e \in Executors : Claim(q, e))
               \/ (\E q \in Homes : Cancel(q)) \/ (\E t \in Tasks : Edit(t)) \/ EditPrimary
      PROVE  job' = job
  BY <1>7 DEF Open, Publish, Claim, Cancel, Edit, EditPrimary, gitVars
<1>. QED
  BY <1>3, <1>4, <1>5, <1>6, <1>7 DEF GitNext

\* What made a step unsafe stays.
LEMMA SafeBefore ==
  ASSUME Consistent, GitTypeOK, RowsAgree, GitNext
  PROVE  /\ overlapped => overlapped'
         /\ interrupted \subseteq interrupted'
         /\ Clean' => Clean
         /\ Safe' => Safe
<1>1. overlapped => overlapped'
  BY DEF GitNext, Open, Publish, Claim, PrepareTask, WorkerAnswers, HostSubmits, CommitTask, Integrate,
         ReadMessages, ReadHead, CherryPick, AbortPick, ResetHard, Submit, Cancel, Crash, Edit,
         EditPrimary, gitVars
<1>2. interrupted \subseteq interrupted'
  BY DEF GitNext, Open, Publish, Claim, PrepareTask, WorkerAnswers, HostSubmits, CommitTask, Integrate,
         ReadMessages, ReadHead, CherryPick, AbortPick, ResetHard, Submit, Cancel, Crash, Edit,
         EditPrimary, gitVars
<1>3. \A t \in Tasks : status[t] \in {"blocked", "cancelled"} => status'[t] = status[t]
  BY StepStores DEF Decided
<1>4. ASSUME NEW p \in Homes, Undone(p) PROVE ~Clean'
  <2>1. /\ job[p].step \in {"abort", "reset", "submit"}
        /\ job[p].step = "submit" => job[p].outcome = "blocked"
    BY <1>4 DEF Undone, Does
  <2>2. PICK t \in Tasks : t = job[p].task
    BY <2>1, DoesIs
  <2>3. CASE job'[p] = job[p]
    BY <1>4, <2>3 DEF Clean, Undone, Does
  <2>4. CASE AbortPick(p)
    <3>1. job'[p].step = "reset"
      BY <2>4 DEF AbortPick, GoTo, GitTypeOK
    <3>. QED
      BY <3>1 DEF Clean, Undone
  <2>5. CASE ResetHard(p)
    <3>1. Reports(p, t, "blocked", TRUE)
      BY <2>2, <2>5 DEF ResetHard
    <3>2. job'[p].step = "submit" /\ job'[p].outcome = "blocked"
      BY <3>1, ReportIs DEF Outcomes
    <3>. QED
      BY <3>2 DEF Clean, Undone, Does
  <2>6. CASE Submit(p)
    <3>1. job[p].step = "submit" /\ job[p].outcome = "blocked"
      BY <2>1, <2>6 DEF Submit, Does
    <3>2. status[t] \in {"running", "cancelled"}
      BY <2>1, <2>2, DoesIs DEF RowsAgree, JobAgrees
    <3>3. CASE status[t] # "running" /\ UNCHANGED vars
      BY <3>2, <3>3 DEF Clean, vars
    <3>4. CASE SubmitTaskResult(t, claimant[t], "blocked", job[p].sha, worktree[t])
      <4>1. status'[t] = "blocked"
        BY <3>4, SubmitSeen DEF Outcomes
      <4>. QED
        BY <4>1 DEF Clean
    <3>. QED
      BY <2>2, <2>6, <3>1, <3>3, <3>4 DEF Submit
  <2>7. CASE Crash(p)
    <3>1. ~Idle(p)
      BY <2>1, DoesIs
    <3>2. job[p].task \in interrupted'
      BY <2>7, <3>1 DEF Crash
    <3>. QED
      BY <3>2 DEF Clean
  <2>8. job'[p] = job[p] \/ AbortPick(p) \/ ResetHard(p) \/ Submit(p) \/ Crash(p)
    <3>1. ~Idle(p) /\ ~Does(p, "commit") /\ ~Does(p, "integrate") /\ ~Does(p, "messages")
          /\ ~Does(p, "head") /\ ~Does(p, "pick")
      BY <2>1, DoesIs DEF Does
    <3>. QED
      BY <3>1, JobActor DEF CommitTask, Integrate, ReadMessages, ReadHead, CherryPick
  <2>. QED
    BY <2>3, <2>4, <2>5, <2>6, <2>7, <2>8
<1>5. Clean' => Clean
  BY <1>2, <1>3, <1>4 DEF Clean
<1>. QED
  BY <1>1, <1>2, <1>5 DEF Safe

\* What a step has to see to when it leaves the integration branch as it is, and the
\* jobs of the other processes.
LEMMA BranchStays ==
  ASSUME IntegrationConsistent, GitNext, GitTypeOK', NEW p \in Homes,
         UNCHANGED <<branch, plan>>,
         \A u \in Tasks : fork'[u] \in {fork[u], branch},
         fork' = fork \/ overlapped' \/ \A q \in Homes : ~Integrating(q),
         \A u \in Tasks :
           \/ own'[u] = own[u]
           \/ /\ DOMAIN own[u] \subseteq DOMAIN own'[u] /\ status'[u] # "succeeded"
              /\ \A q \in Homes \ {p} : ~Idle(q) => job[q].task # u,
         \A q \in Homes \ {p} : job'[q] = job[q],
         integration' = integration \/ Integrating(p),
         \A u \in Tasks :
           Safe' /\ status'[u] = "succeeded" => status[u] = "succeeded" \/ Missing(u) = {},
         Safe' => PicksAgree(p)',
         ~overlapped' => /\ JobAlone(p)'
                         /\ Integrating(p)' => \A q \in Homes \ {p} : ~Integrating(q),
         \A u \in Tasks \ (interrupted' \cup InJobs') :
           ~overlapped' /\ Unfinished(u)'
             => (u \notin interrupted \cup InJobs /\ Unfinished(u)) \/ ~On(branch, u),
         integration' \in {integration, "clean"} \/ Undone(p)'
  PROVE  BranchAgrees' /\ SerialAgrees' /\ OrderAgrees'
<1>1. /\ overlapped => overlapped'
      /\ interrupted \subseteq interrupted'
      /\ Clean' => Clean
      /\ Safe' => Safe
  BY SafeBefore DEF IntegrationConsistent
<1>2. \A u \in Tasks : status[u] = "succeeded" => status'[u] = "succeeded"
  BY StepStores DEF IntegrationConsistent, Decided
<1>3. branch \in Seq(Picks) /\ \A i \in DOMAIN branch : branch[i] \in Picks /\ branch[i][1] \in Tasks
  <2>1. branch \in Seq(Picks)
    BY DEF IntegrationConsistent, GitTypeOK
  <2>2. \A i \in DOMAIN branch : branch[i] \in Picks
    BY <2>1, SeqIs
  <2>. QED
    BY <2>1, <2>2, CommitIs
<1>4. ASSUME Safe' PROVE BranchOfOwn' /\ ForksBegin'
  <2>1. BranchOfOwn /\ ForksBegin
    BY <1>1, <1>4 DEF IntegrationConsistent, BranchAgrees
  <2>2. BranchOfOwn'
    <3>1. \A u \in Tasks : DOMAIN own[u] \subseteq DOMAIN own'[u]
      OBVIOUS
    <3>. QED
      BY <1>3, <2>1, <3>1 DEF BranchOfOwn
  <2>3. Begins(branch, branch)
    BY <1>3, SeqIs DEF Begins
  <2>4. ForksBegin'
    <3>. SUFFICES ASSUME NEW u \in Tasks, fork'[u] # NoBranch PROVE Begins(fork'[u], branch)
      BY DEF ForksBegin, Begins
    <3>. QED
      BY <2>1, <2>3 DEF ForksBegin
  <2>. QED
    BY <2>2, <2>4
<1>5. \A u \in Tasks : own'[u] = own[u] => Missing(u)' = Missing(u)
  BY DEF Missing, Range
<1>6. ASSUME Safe' PROVE SucceededAreWhole'
  <2>1. SucceededAreWhole
    BY <1>1, <1>6 DEF IntegrationConsistent, BranchAgrees
  <2>2. ASSUME NEW u \in Tasks, status'[u] = "succeeded" PROVE Missing(u)' = {}
    <3>1. own'[u] = own[u]
      BY <2>2
    <3>2. Missing(u) = {}
      BY <1>6, <2>1, <2>2 DEF SucceededAreWhole
    <3>. QED
      BY <1>5, <3>1, <3>2
  <2>. QED
    BY <2>2 DEF SucceededAreWhole
<1>7. ASSUME NEW q \in Homes \ {p}, ~Idle(q)
      PROVE  job[q].task \in Tasks /\ own'[job[q].task] = own[job[q].task]
  <2>1. job[q].task \in Tasks
    BY <1>7, JobIs DEF IntegrationConsistent, GitTypeOK, Idle
  <2>. QED
    BY <1>7, <2>1
<1>8. ASSUME Safe', NEW q \in Homes \ {p} PROVE PicksAgree(q)'
  <2>1. PicksAgree(q)
    BY <1>1, <1>8 DEF IntegrationConsistent, BranchAgrees
  <2>2. CASE Idle(q)
    <3>1. job'[q].step = "none"
      BY <2>2 DEF Idle, NoJob
    <3>. QED
      BY <3>1 DEF PicksAgree, Does
  <2>3. CASE ~Idle(q)
    <3>1. PICK t \in Tasks : t = job[q].task /\ own'[t] = own[t]
      BY <1>7, <2>3
    <3>2. Missing(t)' = Missing(t)
      BY <1>5, <3>1
    <3>3. PICK m : m = Missing(t)
      OBVIOUS
    <3>4. StillToPick(q)' <=> StillToPick(q)
      BY <3>1, <3>2, <3>3 DEF StillToPick
    <3>. QED
      BY <2>1, <3>1, <3>2, <3>3, <3>4 DEF PicksAgree, Does
  <2>. QED
    BY <2>2, <2>3
<1>9. BranchAgrees'
  BY <1>4, <1>6, <1>8 DEF BranchAgrees
<1>10. ASSUME ~overlapped' PROVE OneIntegrates' /\ \A q \in Homes : JobAlone(q)'
  <2>1. OneIntegrates /\ \A q \in Homes : JobAlone(q)
    BY <1>1, <1>10 DEF IntegrationConsistent, SerialAgrees
  <2>2. \A q \in Homes \ {p} : Integrating(q)' <=> Integrating(q)
    BY DEF Integrating
  <2>3. OneIntegrates'
    BY <1>10, <2>1, <2>2 DEF OneIntegrates
  <2>4. ASSUME NEW q \in Homes \ {p} PROVE JobAlone(q)'
    <3>1. Integrating(q) => integration' = integration /\ fork' = fork
      BY <1>10, <2>1 DEF OneIntegrates
    <3>2. JobAlone(q)
      BY <2>1
    <3>3. Integrating(q)' /\ ~Does(q, "abort")' => integration' = "clean"
      BY <2>2, <3>1, <3>2 DEF JobAlone, Does
    <3>4. job'[q].step \in {"pick", "abort", "reset"} => Resettable(q)'
      <4>. SUFFICES ASSUME job[q].step \in {"pick", "abort", "reset"} PROVE Resettable(q)'
        OBVIOUS
      <4>1. fork' = fork
        BY <3>1 DEF Integrating
      <4>2. Resettable(q)
        BY <3>2 DEF JobAlone
      <4>. QED
        BY <1>1, <4>1, <4>2 DEF Resettable, Begins, On
    <3>5. Does(q, "abort")' => Clash(q)'
      BY <3>2 DEF JobAlone, Does, Clash
    <3>6. Unpicked(q)' /\ job'[q].task \notin interrupted' => ~On(branch, job[q].task)'
      BY <1>1, <3>2 DEF JobAlone, Unpicked, Does, On
    <3>. QED
      BY <3>3, <3>4, <3>5, <3>6 DEF JobAlone, On
  <2>. QED
    BY <1>10, <2>3, <2>4
<1>11. ASSUME ~overlapped', NEW u \in Tasks \ (interrupted' \cup InJobs'), Unfinished(u)'
       PROVE  ~On(branch, u)'
  <2>1. \A v \in Tasks \ (interrupted \cup InJobs) : Unfinished(v) => ~On(branch, v)
    BY <1>1, <1>11 DEF IntegrationConsistent, SerialAgrees
  <2>2. ~On(branch, u)
    BY <1>11, <2>1
  <2>. QED
    BY <2>2 DEF On
<1>12. SerialAgrees'
  BY <1>10, <1>11 DEF SerialAgrees
<1>13. OrderAgrees'
  <2>. SUFFICES ASSUME Clean'
                PROVE  /\ integration' # "picking"
                       /\ \A i \in DOMAIN branch :
                            /\ branch[i][1] \in plan.tasks
                            /\ \A d \in plan.deps[branch[i][1]] : status'[d] = "succeeded"
                       /\ InDependencyOrder
    BY DEF OrderAgrees, InDependencyOrder
  <2>1. /\ integration # "picking"
        /\ \A i \in DOMAIN branch :
             /\ branch[i][1] \in plan.tasks
             /\ \A d \in plan.deps[branch[i][1]] : status[d] = "succeeded"
        /\ InDependencyOrder
    BY <1>1 DEF IntegrationConsistent, OrderAgrees
  <2>2. \A i \in DOMAIN branch : plan.deps[branch[i][1]] \subseteq Tasks
    BY <2>1, PlanFacts DEF IntegrationConsistent, Consistent, RowsTyped
  <2>3. integration' # "picking"
    BY <2>1 DEF Clean
  <2>. QED
    BY <1>2, <2>1, <2>2, <2>3
<1>. QED
  BY <1>9, <1>12, <1>13

\* A process without a job has nothing to see to.
LEMMA NothingToDo ==
  ASSUME NEW p \in Homes, job'[p].step = "none"
  PROVE  PicksAgree(p)' /\ JobAlone(p)' /\ ~Integrating(p)'
  BY DEF PicksAgree, JobAlone, Unpicked, Integrating, Does

\* What a result to submit says of the branch.
LEMMA ReportDone ==
  ASSUME NEW p \in Homes, NEW t, NEW o,
         job'[p].step = "submit", job'[p].task = t, job'[p].outcome = o,
         o = "succeeded" /\ Safe' => Missing(t)' = {},
         o # "succeeded" /\ ~overlapped' => t \in interrupted' \/ ~On(branch, t)'
  PROVE  /\ Safe' => PicksAgree(p)'
         /\ ~overlapped' => JobAlone(p)'
         /\ ~Integrating(p)'
<1>1. ASSUME Safe' PROVE PicksAgree(p)'
  BY <1>1 DEF PicksAgree, Does
<1>2. ASSUME ~overlapped' PROVE JobAlone(p)'
  BY <1>2 DEF JobAlone, Unpicked, Does, Integrating
<1>. QED
  BY <1>1, <1>2 DEF Integrating

\* A process begins a job, or goes on with it, and leaves the branches as they are.
LEMMA JobGoesOn ==
  ASSUME IntegrationConsistent, GitNext, GitTypeOK', NEW p \in Homes, NEW t \in Tasks,
         UNCHANGED <<vars, branch, fork, own>>,
         \A u \in Tasks : stage'[u] \in {stage[u], "none"},
         \A q \in Homes \ {p} : job'[q] = job[q],
         integration' = integration \/ Integrating(p),
         integration' \in {integration, "clean"} \/ Undone(p)',
         Idle(p) \/ job[p].task = t,
         job'[p].step # "none" /\ job'[p].task = t,
         Safe' => PicksAgree(p)',
         ~overlapped' => JobAlone(p)',
         ~overlapped' /\ Integrating(p)' => Integrating(p) \/ \A q \in Homes \ {p} : ~Integrating(q)
  PROVE  BranchAgrees' /\ SerialAgrees' /\ OrderAgrees'
<1>1. /\ ~overlapped' => ~overlapped
      /\ interrupted \subseteq interrupted'
  BY SafeBefore DEF IntegrationConsistent
<1>2. ASSUME ~overlapped', Integrating(p)' PROVE \A q \in Homes \ {p} : ~Integrating(q)
  <2>1. OneIntegrates
    BY <1>1, <1>2 DEF IntegrationConsistent, SerialAgrees
  <2>. QED
    BY <1>2, <2>1 DEF OneIntegrates
<1>3. InJobs \subseteq InJobs'
  <2>. SUFFICES ASSUME NEW q \in Homes, ~Idle(q) PROVE job[q].task \in InJobs'
    BY DEF InJobs
  <2>1. CASE q = p
    <3>1. ~Idle(p)' /\ job'[p].task = job[p].task
      BY <2>1 DEF Idle, NoJob
    <3>. QED
      BY <2>1, <3>1 DEF InJobs
  <2>2. CASE q # p
    <3>1. ~Idle(q)' /\ job'[q].task = job[q].task
      BY <2>2 DEF Idle
    <3>. QED
      BY <3>1 DEF InJobs
  <2>. QED
    BY <2>1, <2>2
<1>4. ASSUME NEW u \in Tasks \ (interrupted' \cup InJobs'), Unfinished(u)'
      PROVE  u \notin interrupted \cup InJobs /\ Unfinished(u)
  BY <1>1, <1>3, <1>4 DEF Unfinished, vars
<1>5. UNCHANGED <<branch, plan, fork, own, status>>
  BY DEF vars
<1>. QED
  BY <1>2, <1>4, <1>5, BranchStays

-----------------------------------------------------------------------------
(* The steps that leave the integration branch as it is *)

\* Nothing of what the branches are compared with changed.
LEMMA NothingMoves ==
  ASSUME IntegrationConsistent,
         UNCHANGED <<branch, integration, fork, own, stage, job, interrupted, overlapped, status, plan>>
  PROVE  BranchAgrees' /\ SerialAgrees' /\ OrderAgrees'
<1>1. (Clean' <=> Clean) /\ (Safe' <=> Safe)
  BY DEF Safe, Clean, Undone, Does
<1>2. \A u \in Tasks : Missing(u)' = Missing(u)
  BY DEF Missing, Range
<1>3. ASSUME NEW q \in Homes, PicksAgree(q) PROVE PicksAgree(q)'
  <2>1. job[q].step # "none" => job[q].task \in Tasks
    BY DoesIs DEF IntegrationConsistent
  <2>2. CASE job[q].step = "none"
    BY <2>2, NothingToDo
  <2>3. CASE job[q].step # "none"
    <3>1. PICK m : m = Missing(job[q].task) /\ m = Missing(job[q].task)'
      BY <1>2, <2>1, <2>3
    <3>2. StillToPick(q)' <=> StillToPick(q)
      BY <3>1 DEF StillToPick
    <3>. QED
      BY <1>3, <3>1, <3>2 DEF PicksAgree, Does
  <2>. QED
    BY <2>2, <2>3
<1>4. BranchAgrees'
  <2>. SUFFICES ASSUME Safe' PROVE BranchOfOwn' /\ ForksBegin' /\ SucceededAreWhole'
                                   /\ \A q \in Homes : PicksAgree(q)'
    BY DEF BranchAgrees
  <2>1. BranchOfOwn /\ ForksBegin /\ SucceededAreWhole /\ \A q \in Homes : PicksAgree(q)
    BY <1>1 DEF IntegrationConsistent, BranchAgrees
  <2>2. BranchOfOwn' /\ ForksBegin'
    BY <2>1 DEF BranchOfOwn, ForksBegin, Begins
  <2>3. SucceededAreWhole'
    BY <1>2, <2>1 DEF SucceededAreWhole
  <2>. QED
    BY <1>3, <2>1, <2>2, <2>3
<1>5. SerialAgrees'
  <2>. SUFFICES ASSUME ~overlapped'
                PROVE  /\ OneIntegrates' /\ \A q \in Homes : JobAlone(q)'
                       /\ \A u \in Tasks \ (interrupted \cup InJobs)' : Unfinished(u)' => ~On(branch, u)'
    BY DEF SerialAgrees
  <2>1. /\ OneIntegrates /\ \A q \in Homes : JobAlone(q)
        /\ \A u \in Tasks \ (interrupted \cup InJobs) : Unfinished(u) => ~On(branch, u)
    BY DEF IntegrationConsistent, SerialAgrees
  <2>2. OneIntegrates'
    BY <2>1 DEF OneIntegrates, Integrating
  <2>3. \A q \in Homes : Resettable(q) => Resettable(q)'
    BY DEF Resettable, Begins, On
  <2>4. \A q \in Homes : JobAlone(q)'
    BY <2>1, <2>3 DEF JobAlone, Integrating, Clash, Unpicked, On, Does
  <2>5. InJobs' = InJobs
    BY DEF InJobs, Idle
  <2>6. ASSUME NEW u \in Tasks, u \notin (interrupted \cup InJobs)', Unfinished(u)' PROVE ~On(branch, u)'
    <3>1. u \notin interrupted \cup InJobs /\ Unfinished(u)
      BY <2>5, <2>6 DEF Unfinished
    <3>2. ~On(branch, u)
      BY <2>1, <3>1
    <3>. QED
      BY <3>2 DEF On
  <2>. QED
    BY <2>2, <2>4, <2>6
<1>6. OrderAgrees'
  BY <1>1 DEF IntegrationConsistent, OrderAgrees, InDependencyOrder
<1>. QED
  BY <1>4, <1>5, <1>6

\* A plan is saved before there are commits.
LEMMA PublishBranch ==
  ASSUME IntegrationConsistent, GitNext, NEW r \in Plans, Publish(r)
  PROVE  BranchAgrees' /\ SerialAgrees' /\ OrderAgrees'
<1>1. /\ UNCHANGED <<branch, fork, own, edited, primary, stage, home, job, interrupted, overlapped>>
      /\ integration' = "clean" /\ SavePlan(r)
  BY DEF Publish
<1>2. /\ plan = NoPlan
      /\ \A t \in Tasks : status[t] = "absent" /\ status'[t] \notin {"succeeded", "cancelled"}
  BY <1>1, PublishSeen DEF IntegrationConsistent
<1>3. Clean' => Clean
  BY SafeBefore DEF IntegrationConsistent
<1>4. ASSUME NEW q \in Homes PROVE Idle(q) /\ job'[q].step = "none"
  <2>1. Idle(q)
    <3>. SUFFICES ASSUME ~Idle(q) PROVE FALSE
      OBVIOUS
    <3>1. job[q].task \in Tasks
      BY JobIs DEF IntegrationConsistent, GitTypeOK, Idle
    <3>. QED
      BY <1>2, <3>1 DEF IntegrationConsistent, RowsAgree, JobAgrees
  <2>. QED
    BY <1>1, <2>1 DEF Idle, NoJob
<1>5. \A q \in Homes : PicksAgree(q)' /\ JobAlone(q)' /\ ~Integrating(q)'
  BY <1>4, NothingToDo
<1>6. BranchAgrees'
  <2>. SUFFICES ASSUME Safe' PROVE BranchOfOwn' /\ ForksBegin' /\ SucceededAreWhole'
    BY <1>5 DEF BranchAgrees
  <2>1. BranchOfOwn /\ ForksBegin
    BY <1>1, <1>3 DEF IntegrationConsistent, BranchAgrees, Safe
  <2>. QED
    BY <1>1, <1>2, <2>1 DEF BranchOfOwn, ForksBegin, Begins, SucceededAreWhole
<1>7. SerialAgrees'
  <2>1. OneIntegrates'
    BY <1>5 DEF OneIntegrates
  <2>2. ASSUME ~overlapped', NEW t \in Tasks \ (interrupted' \cup InJobs') PROVE ~On(branch, t)'
    <3>1. t \notin interrupted \cup InJobs /\ Unfinished(t)
      BY <1>1, <1>2, <2>2 DEF InJobs, Idle, Unfinished
    <3>2. ~On(branch, t)
      BY <1>1, <2>2, <3>1 DEF IntegrationConsistent, SerialAgrees
    <3>. QED
      BY <1>1, <3>2 DEF On
  <2>. QED
    BY <1>5, <2>1, <2>2 DEF SerialAgrees
<1>8. OrderAgrees'
  <2>. SUFFICES ASSUME Clean' PROVE DOMAIN branch = {}
    BY <1>1 DEF OrderAgrees, InDependencyOrder
  <2>. QED
    BY <1>2, <1>3 DEF IntegrationConsistent, OrderAgrees, NoPlan
<1>. QED
  BY <1>6, <1>7, <1>8

\* A claim leaves the branches alone.
LEMMA ClaimBranch ==
  ASSUME IntegrationConsistent, GitNext, GitTypeOK', NEW p \in Homes, NEW e \in Executors, Claim(p, e)
  PROVE  BranchAgrees' /\ SerialAgrees' /\ OrderAgrees'
<1>1. /\ UNCHANGED <<branch, integration, fork, own, edited, primary, job, interrupted, overlapped>>
      /\ Idle(p)
  BY DEF Claim
<1>2. PICK w \in Claimants : ClaimTask(e, w, Tasks)
  BY DEF Claim
<1>3. PICK t \in Tasks : /\ status[t] = "ready"
                         /\ status' = [status EXCEPT ![t] = "running"]
                         /\ {u \in Tasks : attempt'[u] # attempt[u]} = {t}
                         /\ run' = run /\ plan' = plan
  BY <1>2, ClaimSeen DEF IntegrationConsistent
<1>4. stage' = [u \in Tasks |-> IF u \in {t} THEN "claimed" ELSE stage[u]]
  BY <1>3 DEF Claim
<1>5. /\ status'[t] = "running"
      /\ \A u \in Tasks \ {t} : stage'[u] = stage[u] /\ status'[u] = status[u]
  BY <1>3, <1>4 DEF IntegrationConsistent, Consistent, RowsTyped
<1>6. job'[p].step = "none"
  BY <1>1 DEF Idle, NoJob
<1>7. ASSUME NEW u \in Tasks \ (interrupted' \cup InJobs'), Unfinished(u)'
      PROVE  u \notin interrupted \cup InJobs /\ Unfinished(u)
  BY <1>1, <1>3, <1>5, <1>7 DEF Unfinished, InJobs, Idle
<1>8. \A u \in Tasks : status'[u] = "succeeded" => status[u] = "succeeded"
  BY <1>5
<1>. QED
  BY <1>1, <1>3, <1>6, <1>7, <1>8, NothingToDo, BranchStays

\* A new branch starts from what is integrated.
LEMMA PrepareTaskBranch ==
  ASSUME IntegrationConsistent, GitNext, GitTypeOK', NEW p \in Homes, NEW t \in Tasks, PrepareTask(p, t)
  PROVE  BranchAgrees' /\ SerialAgrees' /\ OrderAgrees'
<1>1. /\ Idle(p) /\ stage[t] = "claimed" /\ home[t] = p
      /\ UNCHANGED <<branch, integration, own, edited, primary, home, interrupted>>
      /\ overlapped' = (overlapped \/ \E q \in Homes \ {p} : Integrating(q))
  BY DEF PrepareTask
<1>2. t \notin InJobs /\ Unfinished(t)
  BY <1>1, OneJobEach DEF IntegrationConsistent, Unfinished
<1>3. CASE Ready
  <2>1. /\ fork' = [fork EXCEPT ![t] = IF @ = NoBranch THEN branch ELSE @]
        /\ UNCHANGED <<job, plan, status>>
        /\ stage' \in {[stage EXCEPT ![t] = "working"], [stage EXCEPT ![t] = "none"]}
    BY <1>3 DEF PrepareTask, SetTaskWorktree, vars
  <2>2. job'[p].step = "none" /\ job[p].step = "none"
    BY <1>1, <2>1 DEF Idle, NoJob
  <2>3. overlapped' \/ \A q \in Homes : ~Integrating(q)
    BY <1>1, <2>2 DEF Integrating
  <2>4. \A u \in Tasks : fork'[u] \in {fork[u], branch}
    BY <2>1 DEF IntegrationConsistent, GitTypeOK
  <2>5. ASSUME NEW u \in Tasks \ (interrupted' \cup InJobs'), Unfinished(u)'
        PROVE  u \notin interrupted \cup InJobs /\ Unfinished(u)
    <3>1. u \notin interrupted \cup InJobs
      BY <1>1, <2>1, <2>5 DEF InJobs, Idle
    <3>2. u # t => stage'[u] = stage[u]
      BY <2>1 DEF IntegrationConsistent, GitTypeOK
    <3>. QED
      BY <1>2, <2>1, <2>5, <3>1, <3>2 DEF Unfinished
  <2>. QED
    BY <1>1, <2>1, <2>2, <2>3, <2>4, <2>5, NothingToDo, BranchStays
<1>4. CASE ~Ready
  <2>1. Reports(p, t, "failed", FALSE) /\ UNCHANGED <<vars, fork, stage>>
    BY <1>4 DEF PrepareTask
  <2>2. /\ \A q \in Homes \ {p} : job'[q] = job[q]
        /\ job'[p].step = "submit" /\ job'[p].task = t /\ job'[p].outcome = "failed"
    BY <2>1, ReportIs DEF IntegrationConsistent, Outcomes
  <2>3. ~overlapped' => t \in interrupted' \/ ~On(branch, t)'
    <3>1. ~overlapped /\ t \notin interrupted => ~On(branch, t)
      BY <1>2 DEF IntegrationConsistent, SerialAgrees
    <3>. QED
      BY <1>1, <3>1 DEF On
  <2>4. /\ Safe' => PicksAgree(p)'
        /\ ~overlapped' => JobAlone(p)'
        /\ ~Integrating(p)'
    BY <2>2, <2>3, ReportDone
  <2>. QED
    BY <1>1, <2>1, <2>2, <2>4, JobGoesOn
<1>. QED
  BY <1>3, <1>4

\* A worker's answer makes a job, and no commit.
LEMMA WorkerAnswersBranch ==
  ASSUME IntegrationConsistent, GitNext, GitTypeOK', NEW p \in Homes, NEW t \in Tasks,
         WorkerAnswers(p, t)
  PROVE  BranchAgrees' /\ SerialAgrees' /\ OrderAgrees'
<1>1. /\ UNCHANGED <<vars, branch, integration, fork, own, edited, primary, home, interrupted,
                     overlapped>>
      /\ stage[t] = "working" /\ home[t] = p /\ Idle(p)
  BY DEF WorkerAnswers
<1>2. t \notin InJobs /\ Unfinished(t)
  BY <1>1, OneJobEach DEF IntegrationConsistent, Unfinished
<1>3. ~overlapped' => t \in interrupted' \/ ~On(branch, t)'
  <2>1. ~overlapped /\ t \notin interrupted => ~On(branch, t)
    BY <1>2 DEF IntegrationConsistent, SerialAgrees
  <2>. QED
    BY <1>1, <2>1 DEF On
<1>4. \A u \in Tasks : stage'[u] \in {stage[u], "none"}
  BY DEF WorkerAnswers, IntegrationConsistent, GitTypeOK
<1>5. CASE UNCHANGED job
  <2>1. job'[p].step = "none"
    BY <1>1, <1>5 DEF Idle, NoJob
  <2>2. ASSUME NEW u \in Tasks \ (interrupted' \cup InJobs'), Unfinished(u)'
        PROVE  u \notin interrupted \cup InJobs /\ Unfinished(u)
    BY <1>1, <1>4, <1>5, <2>2 DEF Unfinished, InJobs, Idle, vars
  <2>3. UNCHANGED <<plan, status>>
    BY <1>1 DEF vars
  <2>. QED
    BY <1>1, <1>5, <2>1, <2>2, <2>3, NothingToDo, BranchStays
<1>6. ASSUME NEW o \in {"failed", "blocked"}, Reports(p, t, o, FALSE)
      PROVE  BranchAgrees' /\ SerialAgrees' /\ OrderAgrees'
  <2>1. /\ \A q \in Homes \ {p} : job'[q] = job[q]
        /\ job'[p].step = "submit" /\ job'[p].task = t /\ job'[p].outcome = o
    BY <1>6, ReportIs DEF IntegrationConsistent, Outcomes
  <2>2. /\ Safe' => PicksAgree(p)'
        /\ ~overlapped' => JobAlone(p)'
        /\ ~Integrating(p)'
    BY <1>3, <1>6, <2>1, ReportDone
  <2>. QED
    BY <1>1, <1>4, <2>1, <2>2, JobGoesOn
<1>7. CASE job' = [job EXCEPT ![p] = [step |-> "commit", task |-> t]]
  <2>1. /\ \A q \in Homes \ {p} : job'[q] = job[q]
        /\ job'[p].step = "commit" /\ job'[p].task = t
    BY <1>7 DEF IntegrationConsistent, GitTypeOK
  <2>2. PicksAgree(p)' /\ ~Integrating(p)'
    BY <2>1 DEF PicksAgree, Integrating, Does
  <2>3. ~overlapped' => JobAlone(p)'
    BY <1>3, <2>1 DEF JobAlone, Integrating, Does
  <2>. QED
    BY <1>1, <1>4, <2>1, <2>2, <2>3, JobGoesOn
<1>. QED
  BY <1>5, <1>6, <1>7 DEF WorkerAnswers

\* A host's submission makes a job, and no commit.
LEMMA HostSubmitsBranch ==
  ASSUME IntegrationConsistent, GitNext, GitTypeOK', NEW p \in Homes, NEW t \in Tasks,
         HostSubmits(p, t)
  PROVE  BranchAgrees' /\ SerialAgrees' /\ OrderAgrees'
<1>1. /\ UNCHANGED <<vars, branch, integration, fork, own, edited, primary, stage, home, interrupted,
                     overlapped>>
      /\ status[t] = "running" /\ home[t] = p /\ Idle(p)
  BY DEF HostSubmits
<1>2. t \notin InJobs /\ Unfinished(t)
  BY <1>1, OneJobEach DEF IntegrationConsistent, Unfinished
<1>3. ~overlapped' => t \in interrupted' \/ ~On(branch, t)'
  <2>1. ~overlapped /\ t \notin interrupted => ~On(branch, t)
    BY <1>2 DEF IntegrationConsistent, SerialAgrees
  <2>. QED
    BY <1>1, <2>1 DEF On
<1>4. ASSUME NEW o \in {"failed", "blocked"}, Reports(p, t, o, FALSE)
      PROVE  BranchAgrees' /\ SerialAgrees' /\ OrderAgrees'
  <2>1. /\ \A q \in Homes \ {p} : job'[q] = job[q]
        /\ job'[p].step = "submit" /\ job'[p].task = t /\ job'[p].outcome = o
    BY <1>4, ReportIs DEF IntegrationConsistent, Outcomes
  <2>2. /\ Safe' => PicksAgree(p)'
        /\ ~overlapped' => JobAlone(p)'
        /\ ~Integrating(p)'
    BY <1>3, <1>4, <2>1, ReportDone
  <2>. QED
    BY <1>1, <2>1, <2>2, JobGoesOn
<1>5. ASSUME NEW n, job' = [job EXCEPT ![p] = [step |-> "integrate", task |-> t, upto |-> n]]
      PROVE  BranchAgrees' /\ SerialAgrees' /\ OrderAgrees'
  <2>1. /\ \A q \in Homes \ {p} : job'[q] = job[q]
        /\ job'[p].step = "integrate" /\ job'[p].task = t
    BY <1>5 DEF IntegrationConsistent, GitTypeOK
  <2>2. PicksAgree(p)' /\ ~Integrating(p)'
    BY <2>1 DEF PicksAgree, Integrating, Does
  <2>3. ~overlapped' => JobAlone(p)'
    BY <1>3, <2>1 DEF JobAlone, Integrating, Does
  <2>. QED
    BY <1>1, <2>1, <2>2, <2>3, JobGoesOn
<1>. QED
  BY <1>4, <1>5 DEF HostSubmits

\* A host's or a worker's commit, of a task that no job is about.
LEMMA EditBranch ==
  ASSUME IntegrationConsistent, GitNext, GitTypeOK', NEW t \in Tasks, Edit(t)
  PROVE  BranchAgrees' /\ SerialAgrees' /\ OrderAgrees'
<1>1. /\ UNCHANGED <<vars, branch, integration, fork, primary, stage, home, job, interrupted, overlapped>>
      /\ stage[t] = "working" /\ t \notin InJobs
      /\ UNCHANGED own \/ own' = [own EXCEPT ![t] = Append(@, <<t, Len(@) + 1, 0>>)]
  BY DEF Edit
<1>2. PICK p \in Homes : p = home[t]
  BY DEF IntegrationConsistent, GitTypeOK
<1>3. ~overlapped' => ~overlapped /\ JobAlone(p) /\ OneIntegrates
  BY SafeBefore DEF IntegrationConsistent, SerialAgrees
<1>4. \A u \in Tasks \ {t} : own'[u] = own[u]
  BY <1>1, OwnGrows DEF IntegrationConsistent
<1>5. UNCHANGED own \/ DOMAIN own[t] \subseteq DOMAIN own'[t]
  BY <1>1, OwnGrows DEF IntegrationConsistent
<1>6. status'[t] # "succeeded"
  BY <1>1 DEF IntegrationConsistent, RowsAgree, TaskAgrees, vars
<1>7. \A q \in Homes : ~Idle(q) => job[q].task # t
  BY <1>1 DEF InJobs
<1>8. ~Idle(p) => /\ job[p].task \in Tasks
                  /\ own'[job[p].task] = own[job[p].task]
                  /\ Missing(job[p].task)' = Missing(job[p].task)
  <2>. SUFFICES ASSUME ~Idle(p)
                PROVE  /\ job[p].task \in Tasks
                       /\ own'[job[p].task] = own[job[p].task]
                       /\ Missing(job[p].task)' = Missing(job[p].task)
    OBVIOUS
  <2>1. job[p].task \in Tasks /\ own'[job[p].task] = own[job[p].task]
    BY <1>4, <1>7, JobIs DEF IntegrationConsistent, GitTypeOK, Idle
  <2>. QED
    BY <1>1, <2>1 DEF Missing, Range
<1>9. ASSUME Safe' PROVE PicksAgree(p)'
  <2>1. PicksAgree(p)
    BY <1>9, SafeBefore DEF IntegrationConsistent, BranchAgrees
  <2>2. CASE Idle(p)
    <3>1. job'[p].step = "none"
      BY <1>1, <2>2 DEF Idle, NoJob
    <3>. QED
      BY <3>1, NothingToDo
  <2>3. CASE ~Idle(p)
    <3>1. PICK m : m = Missing(job[p].task) /\ m = Missing(job[p].task)'
      BY <1>8, <2>3
    <3>2. StillToPick(p)' <=> StillToPick(p)
      BY <1>1, <3>1 DEF StillToPick
    <3>. QED
      BY <1>1, <1>8, <2>1, <2>3, <3>1, <3>2 DEF PicksAgree, Does
  <2>. QED
    BY <2>2, <2>3
<1>10. ASSUME ~overlapped' PROVE JobAlone(p)'
  <2>1. Resettable(p) => Resettable(p)'
    BY <1>1 DEF Resettable, Begins, On
  <2>. QED
    BY <1>1, <1>3, <1>10, <2>1 DEF JobAlone, Integrating, Clash, Unpicked, On, Does
<1>11. ASSUME ~overlapped', Integrating(p)' PROVE \A q \in Homes \ {p} : ~Integrating(q)
  BY <1>1, <1>3, <1>11 DEF OneIntegrates, Integrating
<1>12. \A u \in Tasks \ (interrupted' \cup InJobs') :
         Unfinished(u)' => u \notin interrupted \cup InJobs /\ Unfinished(u)
  BY <1>1 DEF InJobs, Idle, Unfinished, vars
<1>13. UNCHANGED <<plan, status>>
  BY <1>1 DEF vars
<1>. QED
  BY <1>1, <1>4, <1>5, <1>6, <1>7, <1>9, <1>10, <1>11, <1>12, <1>13, BranchStays

\* A commit goes on top of its task's branch, with its task's job still to pick it.
LEMMA CommitTaskBranch ==
  ASSUME IntegrationConsistent, GitNext, GitTypeOK', NEW p \in Homes, CommitTask(p)
  PROVE  BranchAgrees' /\ SerialAgrees' /\ OrderAgrees'
<1>1. /\ UNCHANGED <<vars, branch, integration, fork, primary, stage, home, interrupted, overlapped>>
      /\ job[p].step = "commit"
  BY DEF CommitTask, Does
<1>2. PICK t \in Tasks : t = job[p].task
  BY <1>1, DoesIs DEF IntegrationConsistent
<1>3. ~Idle(p) /\ status[t] \in {"running", "cancelled"}
  BY <1>1, <1>2, DoesIs DEF IntegrationConsistent, RowsAgree, JobAgrees
<1>4. ~overlapped' => t \in interrupted' \/ ~On(branch, t)'
  <2>1. ~overlapped => JobAlone(p)
    BY DEF IntegrationConsistent, SerialAgrees
  <2>. QED
    BY <1>1, <1>2, <2>1 DEF JobAlone, Unpicked, On
<1>5. CASE ~edited[t]
  <2>1. Reports(p, t, "failed", FALSE) /\ UNCHANGED <<own, edited>>
    BY <1>2, <1>5 DEF CommitTask
  <2>2. /\ \A q \in Homes \ {p} : job'[q] = job[q]
        /\ job'[p].step = "submit" /\ job'[p].task = t /\ job'[p].outcome = "failed"
    BY <2>1, ReportIs DEF IntegrationConsistent, Outcomes
  <2>3. /\ Safe' => PicksAgree(p)'
        /\ ~overlapped' => JobAlone(p)'
        /\ ~Integrating(p)'
    BY <1>4, <2>2, ReportDone
  <2>. QED
    BY <1>1, <1>2, <2>1, <2>2, <2>3, JobGoesOn
<1>6. CASE edited[t]
  <2>1. /\ own' = [own EXCEPT ![t] = Append(@, <<t, Len(@) + 1, 0>>)]
        /\ job' = [job EXCEPT ![p] = [step |-> "integrate", task |-> t, upto |-> Len(own[t]) + 1]]
    BY <1>2, <1>6 DEF CommitTask
  <2>2. /\ \A u \in Tasks \ {t} : own'[u] = own[u]
        /\ DOMAIN own[t] \subseteq DOMAIN own'[t]
    BY <2>1, OwnGrows DEF IntegrationConsistent
  <2>3. /\ \A q \in Homes \ {p} : job'[q] = job[q]
        /\ job'[p].step = "integrate" /\ job'[p].task = t
    BY <2>1 DEF IntegrationConsistent, GitTypeOK
  <2>4. PicksAgree(p)' /\ ~Integrating(p)'
    BY <2>3 DEF PicksAgree, Integrating, Does
  <2>5. ~overlapped' => JobAlone(p)'
    BY <1>4, <2>3 DEF JobAlone, Integrating, Does
  <2>6. \A q \in Homes \ {p} : ~Idle(q) => job[q].task # t
    BY <1>2, <1>3, OneJobEach DEF IntegrationConsistent
  <2>7. InJobs' = InJobs
    <3>1. \A q \in Homes : (~Idle(q) <=> ~Idle(q)') /\ job'[q].task = job[q].task
      BY <1>2, <1>3, <2>3 DEF Idle, NoJob
    <3>. QED
      BY <3>1 DEF InJobs
  <2>8. \A u \in Tasks \ (interrupted' \cup InJobs') :
          Unfinished(u)' => u \notin interrupted \cup InJobs /\ Unfinished(u)
    BY <1>1, <2>7 DEF Unfinished, vars
  <2>9. UNCHANGED <<plan, status>>
    BY <1>1 DEF vars
  <2>. QED
    BY <1>1, <1>3, <2>2, <2>3, <2>4, <2>5, <2>6, <2>8, <2>9, BranchStays
<1>. QED
  BY <1>5, <1>6

\* An integration begins with the commits of its task's branch.
LEMMA IntegrateBranch ==
  ASSUME IntegrationConsistent, GitNext, GitTypeOK', NEW p \in Homes, Integrate(p)
  PROVE  BranchAgrees' /\ SerialAgrees' /\ OrderAgrees'
<1>1. /\ UNCHANGED <<vars, branch, integration, fork, own, edited, primary, stage, home, interrupted>>
      /\ job[p].step = "integrate"
      /\ overlapped' = (overlapped \/ \E q \in Homes \ {p} : Integrating(q))
  BY DEF Integrate, Does
<1>2. PICK t \in Tasks : t = job[p].task
  BY <1>1, DoesIs DEF IntegrationConsistent
<1>3. fork[t] # NoBranch
  BY <1>1, <1>2, DoesIs DEF IntegrationConsistent, RowsAgree, JobAgrees
<1>4. ~overlapped' => t \in interrupted' \/ ~On(branch, t)'
  <2>1. ~overlapped => JobAlone(p)
    BY DEF IntegrationConsistent, SerialAgrees
  <2>. QED
    BY <1>1, <1>2, <2>1 DEF JobAlone, Unpicked, On
<1>5. CASE Reports(p, t, "failed", TRUE)
  <2>1. /\ \A q \in Homes \ {p} : job'[q] = job[q]
        /\ job'[p].step = "submit" /\ job'[p].task = t /\ job'[p].outcome = "failed"
    BY <1>5, ReportIs DEF IntegrationConsistent, Outcomes
  <2>2. /\ Safe' => PicksAgree(p)'
        /\ ~overlapped' => JobAlone(p)'
        /\ ~Integrating(p)'
    BY <1>4, <2>1, ReportDone
  <2>. QED
    BY <1>1, <1>2, <2>1, <2>2, JobGoesOn
<1>6. ASSUME Ready, job' = [job EXCEPT ![p] = [step |-> "messages", task |-> t,
                                               commits |-> TaskCommits(t)]]
      PROVE  BranchAgrees' /\ SerialAgrees' /\ OrderAgrees'
  <2>1. /\ \A q \in Homes \ {p} : job'[q] = job[q]
        /\ job'[p].step = "messages" /\ job'[p].task = t /\ job'[p].commits = TaskCommits(t)
    BY <1>6 DEF IntegrationConsistent, GitTypeOK
  <2>2. ASSUME Safe' PROVE PicksAgree(p)'
    <3>1. Begins(fork[t], branch)
      BY <1>3, <2>2, SafeBefore DEF IntegrationConsistent, BranchAgrees, ForksBegin
    <3>2. TaskCommits(t) = own[t]
      BY <1>3, <3>1, TaskCommitsAre DEF IntegrationConsistent, GitTypeOK
    <3>. QED
      BY <1>1, <2>1, <3>2 DEF PicksAgree, Does
  <2>3. ~overlapped' => JobAlone(p)'
    BY <1>1, <1>4, <1>6, <2>1 DEF JobAlone, Integrating, Does, Ready
  <2>4. ~overlapped' => \A q \in Homes \ {p} : ~Integrating(q)
    BY <1>1
  <2>. QED
    BY <1>1, <1>2, <2>1, <2>2, <2>3, <2>4, JobGoesOn
<1>. QED
  BY <1>2, <1>5, <1>6 DEF Integrate

\* The messages on the branch name what is not missing.
LEMMA NamedIs ==
  ASSUME GitTypeOK, BranchOfOwn, NEW t \in Tasks, NEW n \in DOMAIN own[t]
  PROVE  NamedIn(<<t, n, 0>>, branch) <=> n \notin Missing(t)
<1>1. \A i \in DOMAIN branch : branch[i] = <<branch[i][1], branch[i][2], 1>>
  <2>1. \A i \in DOMAIN branch : branch[i] \in Picks
    BY SeqIs DEF GitTypeOK
  <2>. QED
    BY <2>1, CommitIs DEF BranchOfOwn
<1>2. \A i \in DOMAIN branch : Content(branch[i]) = <<t, n>> <=> branch[i] = <<t, n, 1>>
  BY <1>1 DEF Content
<1>3. Content(<<t, n, 0>>) = <<t, n>> /\ \A i \in DOMAIN branch : branch[i][3] > 0
  BY DEF Content, BranchOfOwn
<1>4. NamedIn(<<t, n, 0>>, branch) <=> \E i \in DOMAIN branch : branch[i] = <<t, n, 1>>
  BY <1>2, <1>3 DEF NamedIn
<1>. QED
  BY <1>4 DEF Missing, Range

\* What the messages do not name is what is missing.
LEMMA ReadMessagesBranch ==
  ASSUME IntegrationConsistent, GitNext, GitTypeOK', NEW p \in Homes, ReadMessages(p)
  PROVE  BranchAgrees' /\ SerialAgrees' /\ OrderAgrees'
<1>1. /\ UNCHANGED <<vars, branch, integration, fork, own, edited, primary, stage, home, interrupted,
                     overlapped>>
      /\ job[p].step = "messages"
  BY DEF ReadMessages, Does
<1>2. PICK t \in Tasks : t = job[p].task
  BY <1>1, DoesIs DEF IntegrationConsistent
<1>3. PICK s \in Seq(Commits) : s = Pending(job[p].commits, branch)
  BY <1>1, DoesIs, PendingIs DEF IntegrationConsistent, CommitLists
<1>4. ~overlapped' => t \in interrupted' \/ ~On(branch, t)'
  <2>1. ~overlapped => JobAlone(p)
    BY DEF IntegrationConsistent, SerialAgrees
  <2>. QED
    BY <1>1, <1>2, <2>1 DEF JobAlone, Unpicked, On
<1>5. Missing(t)' = Missing(t)
  BY <1>1 DEF Missing, Range
<1>6. ASSUME Safe'
      PROVE  /\ \A k \in DOMAIN s : \E n \in Missing(t) : s[k] = <<t, n, 0>>
             /\ \A n \in Missing(t) : \E k \in DOMAIN s : s[k] = <<t, n, 0>>
             /\ \A i, j \in DOMAIN s : s[i] = s[j] => i = j
  <2>1. BranchOfOwn /\ job[p].commits = own[t]
    BY <1>1, <1>2, <1>6, SafeBefore DEF IntegrationConsistent, BranchAgrees, PicksAgree, Does
  <2>2. own[t] \in Seq(Commits) /\ \A n \in DOMAIN own[t] : own[t][n] = <<t, n, 0>>
    BY SeqMonotonic DEF IntegrationConsistent, GitTypeOK, Commits
  <2>3. \A n \in DOMAIN own[t] : NamedIn(own[t][n], branch) <=> n \notin Missing(t)
    BY <2>1, <2>2, NamedIs DEF IntegrationConsistent
  <2>4. Missing(t) \subseteq DOMAIN own[t]
    BY DEF Missing
  <2>5. \A i, j \in DOMAIN own[t] : own[t][i] = own[t][j] => i = j
    BY <2>2
  <2>6. s = Pending(own[t], branch)
    BY <1>3, <2>1
  <2>7. /\ \A k \in DOMAIN s : \E i \in DOMAIN own[t] :
             s[k] = own[t][i] /\ ~NamedIn(own[t][i], branch)
        /\ \A i \in DOMAIN own[t] :
             ~NamedIn(own[t][i], branch) => \E k \in DOMAIN s : s[k] = own[t][i]
        /\ \A i, j \in DOMAIN s : s[i] = s[j] => i = j
    BY <2>2, <2>5, <2>6, PendingIs
  <2>8. ASSUME NEW k \in DOMAIN s PROVE \E n \in Missing(t) : s[k] = <<t, n, 0>>
    <3>1. PICK i \in DOMAIN own[t] : s[k] = own[t][i] /\ ~NamedIn(own[t][i], branch)
      BY <2>7
    <3>. QED
      BY <2>2, <2>3, <3>1
  <2>9. ASSUME NEW n \in Missing(t) PROVE \E k \in DOMAIN s : s[k] = <<t, n, 0>>
    <3>1. n \in DOMAIN own[t] /\ ~NamedIn(own[t][n], branch) /\ own[t][n] = <<t, n, 0>>
      BY <2>2, <2>3, <2>4
    <3>. QED
      BY <2>7, <3>1
  <2>. QED
    BY <2>7, <2>8, <2>9
<1>7. CASE s = <<>>
  <2>1. Reports(p, t, "succeeded", TRUE)
    BY <1>2, <1>3, <1>7 DEF ReadMessages
  <2>2. /\ \A q \in Homes \ {p} : job'[q] = job[q]
        /\ job'[p].step = "submit" /\ job'[p].task = t /\ job'[p].outcome = "succeeded"
    BY <2>1, ReportIs DEF IntegrationConsistent, Outcomes
  <2>3. Safe' => Missing(t)' = {}
    BY <1>5, <1>6, <1>7, SeqIs
  <2>4. /\ Safe' => PicksAgree(p)'
        /\ ~overlapped' => JobAlone(p)'
        /\ ~Integrating(p)'
    BY <2>2, <2>3, ReportDone
  <2>. QED
    BY <1>1, <1>2, <2>2, <2>4, JobGoesOn
<1>8. CASE s # <<>>
  <2>1. job' = [job EXCEPT ![p] = [step |-> "head", task |-> t, commits |-> s]]
    BY <1>2, <1>3, <1>8 DEF ReadMessages
  <2>2. /\ \A q \in Homes \ {p} : job'[q] = job[q]
        /\ job'[p].step = "head" /\ job'[p].task = t /\ job'[p].commits = s
    BY <2>1 DEF IntegrationConsistent, GitTypeOK
  <2>3. Integrating(p)
    BY <1>1 DEF Integrating
  <2>4. ASSUME Safe' PROVE PicksAgree(p)'
    <3>1. PICK m : m = Missing(t) /\ m = Missing(t)'
      BY <1>5
    <3>2. StillToPick(p)'
      BY <1>6, <2>2, <2>4, <3>1 DEF StillToPick
    <3>. QED
      BY <2>2, <3>2 DEF PicksAgree, Does
  <2>5. ~overlapped' => JobAlone(p)'
    <3>1. ~overlapped' => integration = "clean"
      BY <1>1, <2>3 DEF IntegrationConsistent, SerialAgrees, JobAlone, Does
    <3>. QED
      BY <1>1, <1>4, <2>2, <3>1 DEF JobAlone, Does
  <2>. QED
    BY <1>1, <1>2, <2>2, <2>3, <2>4, <2>5, JobGoesOn
<1>. QED
  BY <1>7, <1>8

\* The head that is read is the branch before the picks.
LEMMA ReadHeadBranch ==
  ASSUME IntegrationConsistent, GitNext, GitTypeOK', NEW p \in Homes, ReadHead(p)
  PROVE  BranchAgrees' /\ SerialAgrees' /\ OrderAgrees'
<1>1. /\ UNCHANGED <<vars, branch, integration, fork, own, edited, primary, stage, home, interrupted,
                     overlapped>>
      /\ job[p].step = "head"
  BY DEF ReadHead, Does
<1>2. PICK t \in Tasks : t = job[p].task
  BY <1>1, DoesIs DEF IntegrationConsistent
<1>3. /\ \A q \in Homes \ {p} : job'[q] = job[q]
      /\ job'[p].step = "pick" /\ job'[p].task = t
      /\ job'[p].commits = job[p].commits /\ job'[p].original = branch
  BY <1>2 DEF ReadHead, IntegrationConsistent, GitTypeOK
<1>4. Integrating(p)
  BY <1>1 DEF Integrating
<1>5. Missing(t)' = Missing(t)
  BY <1>1 DEF Missing, Range
<1>6. ASSUME Safe' PROVE PicksAgree(p)'
  <2>1. StillToPick(p)
    BY <1>1, <1>6, SafeBefore DEF IntegrationConsistent, BranchAgrees, PicksAgree
  <2>2. PICK m : m = Missing(t) /\ m = Missing(t)'
    BY <1>5
  <2>3. StillToPick(p)'
    BY <1>2, <1>3, <2>1, <2>2 DEF StillToPick
  <2>. QED
    BY <1>3, <2>3 DEF PicksAgree, Does
<1>7. ASSUME ~overlapped' PROVE JobAlone(p)'
  <2>1. ~overlapped /\ ForksBegin /\ JobAlone(p)
    BY <1>7, SafeBefore DEF IntegrationConsistent, BranchAgrees, SerialAgrees, Safe
  <2>2. Len(branch) \in Nat /\ DOMAIN branch = 1..Len(branch)
    BY SeqIs DEF IntegrationConsistent, GitTypeOK
  <2>3. t \notin interrupted => ~On(branch, t)
    BY <1>1, <1>2, <2>1 DEF JobAlone, Unpicked
  <2>4. Resettable(p)'
    BY <1>1, <1>3, <2>1, <2>2, <2>3 DEF Resettable, Begins, ForksBegin, On
  <2>5. integration' = "clean"
    BY <1>1, <1>4, <2>1 DEF JobAlone, Does
  <2>. QED
    BY <1>3, <2>4, <2>5 DEF JobAlone, Unpicked, Does
<1>. QED
  BY <1>1, <1>2, <1>3, <1>4, <1>6, <1>7, JobGoesOn

\* A commit that does not apply clashes with one that is on the branch: it is not there
\* itself, and no conflict is open.
LEMMA ConflictBranch ==
  ASSUME IntegrationConsistent, GitNext, GitTypeOK', NEW p \in Homes, CherryPick(p),
         ~Applies(Head(job[p].commits))
  PROVE  BranchAgrees' /\ SerialAgrees' /\ OrderAgrees'
<1>1. /\ UNCHANGED <<vars, branch, fork, own, edited, primary, stage, home, interrupted, overlapped>>
      /\ job[p].step = "pick" /\ integration' = "picking"
      /\ job' = [job EXCEPT ![p].step = "abort"]
  BY DEF CherryPick, Does, GoTo
<1>2. PICK t \in Tasks : t = job[p].task
  BY <1>1, DoesIs DEF IntegrationConsistent
<1>3. /\ job[p] \in Jobs /\ job[p].commits \in CommitLists /\ job[p].original \in Seq(Picks)
  BY <1>1, DoesIs DEF IntegrationConsistent
<1>4. PICK j : j = [job[p] EXCEPT !.step = "abort"]
  OBVIOUS
<1>5. j = [step |-> "abort", task |-> t, commits |-> job[p].commits, original |-> job[p].original]
  BY <1>1, <1>2, <1>3, <1>4, NextStep
<1>6. /\ \A q \in Homes \ {p} : job'[q] = job[q]
      /\ job'[p] = j
  BY <1>1, <1>4 DEF IntegrationConsistent, GitTypeOK
<1>7. /\ job'[p].step = "abort" /\ job'[p].task = t
      /\ job'[p].commits = job[p].commits /\ job'[p].original = job[p].original
  BY <1>5, <1>6
<1>8. Integrating(p)
  BY <1>1 DEF Integrating
<1>9. Safe' => StillToPick(p)
  BY <1>1, SafeBefore DEF IntegrationConsistent, BranchAgrees, PicksAgree
<1>10. ASSUME Safe' PROVE PicksAgree(p)'
  <2>1. PICK m : m = Missing(t) /\ m = Missing(t)'
    BY <1>1 DEF Missing, Range
  <2>2. StillToPick(p)'
    BY <1>2, <1>7, <1>9, <1>10, <2>1 DEF StillToPick
  <2>. QED
    BY <1>7, <2>2 DEF PicksAgree, Does
<1>11. ASSUME ~overlapped' PROVE JobAlone(p)'
  <2>1. /\ ~overlapped /\ JobAlone(p) /\ BranchOfOwn /\ StillToPick(p)
    BY <1>9, <1>11, SafeBefore DEF IntegrationConsistent, BranchAgrees, SerialAgrees, Safe
  <2>2. integration = "clean" /\ Resettable(p)
    BY <1>1, <1>8, <2>1 DEF JobAlone, Does
  <2>3. PICK c : c = Head(job[p].commits)
    OBVIOUS
  <2>4. PICK n \in Missing(t) : c = <<t, n, 0>>
    <3>1. PICK s \in CommitLists : s = job[p].commits
      BY <1>3
    <3>2. c = s[1] /\ 1 \in DOMAIN s
      BY <2>3, <3>1, TailIs
    <3>. QED
      BY <1>2, <2>1, <3>1, <3>2 DEF StillToPick
  <2>5. PICK i \in DOMAIN branch :
          \/ Content(branch[i]) = Content(c)
          \/ {Content(branch[i]), Content(c)} \in Clashes
    BY <2>2, <2>3 DEF Applies
  <2>6. Content(branch[i]) # Content(c)
    <3>. SUFFICES ASSUME Content(branch[i]) = Content(c) PROVE FALSE
      OBVIOUS
    <3>1. branch[i] \in Picks
      BY SeqIs DEF IntegrationConsistent, GitTypeOK
    <3>2. branch[i] = <<branch[i][1], branch[i][2], 1>>
      BY <2>1, <3>1, CommitIs DEF BranchOfOwn
    <3>3. branch[i] = <<t, n, 1>>
      BY <2>4, <3>2 DEF Content
    <3>. QED
      BY <2>4, <3>3 DEF Missing, Range
  <2>7. Clash(p)
    BY <2>3, <2>5, <2>6 DEF Clash
  <2>8. Clash(p)'
    BY <1>1, <1>7, <2>7 DEF Clash
  <2>9. Resettable(p)'
    BY <1>1, <1>2, <1>7, <2>2 DEF Resettable, Begins, On
  <2>. QED
    BY <1>7, <2>8, <2>9 DEF JobAlone, Unpicked, Does
<1>12. Undone(p)'
  BY <1>7 DEF Undone
<1>. QED
  BY <1>1, <1>2, <1>7, <1>6, <1>8, <1>10, <1>11, <1>12, JobGoesOn

\* An aborted pick leaves the branch as the picks before it made it.
LEMMA AbortPickBranch ==
  ASSUME IntegrationConsistent, GitNext, GitTypeOK', NEW p \in Homes, AbortPick(p)
  PROVE  BranchAgrees' /\ SerialAgrees' /\ OrderAgrees'
<1>1. /\ UNCHANGED <<vars, branch, fork, own, edited, primary, stage, home, interrupted, overlapped>>
      /\ job[p].step = "abort" /\ integration' = "clean"
      /\ job' = [job EXCEPT ![p].step = "reset"]
  BY DEF AbortPick, Does, GoTo
<1>2. PICK t \in Tasks : t = job[p].task
  BY <1>1, DoesIs DEF IntegrationConsistent
<1>3. /\ job[p] \in Jobs /\ job[p].commits \in CommitLists /\ job[p].original \in Seq(Picks)
  BY <1>1, DoesIs DEF IntegrationConsistent
<1>4. PICK j : j = [job[p] EXCEPT !.step = "reset"]
  OBVIOUS
<1>5. j = [step |-> "reset", task |-> t, commits |-> job[p].commits, original |-> job[p].original]
  BY <1>1, <1>2, <1>3, <1>4, NextStep
<1>6. /\ \A q \in Homes \ {p} : job'[q] = job[q]
      /\ job'[p] = j
  BY <1>1, <1>4 DEF IntegrationConsistent, GitTypeOK
<1>7. job'[p].step = "reset" /\ job'[p].task = t /\ job'[p].original = job[p].original
  BY <1>5, <1>6
<1>8. Integrating(p)
  BY <1>1 DEF Integrating
<1>9. PicksAgree(p)'
  BY <1>7 DEF PicksAgree, Does
<1>10. ASSUME ~overlapped' PROVE JobAlone(p)'
  <2>1. ~overlapped /\ Resettable(p)
    BY <1>1, <1>10, SafeBefore DEF IntegrationConsistent, SerialAgrees, JobAlone
  <2>2. Resettable(p)'
    BY <1>1, <1>2, <1>7, <2>1 DEF Resettable, Begins, On
  <2>. QED
    BY <1>1, <1>7, <2>2 DEF JobAlone, Unpicked, Does
<1>. QED
  BY <1>1, <1>2, <1>7, <1>6, <1>8, <1>9, <1>10, JobGoesOn

\* A result is submitted when nothing is missing, or nothing is left.
LEMMA SubmitBranch ==
  ASSUME IntegrationConsistent, GitNext, GitTypeOK', NEW p \in Homes, Submit(p)
  PROVE  BranchAgrees' /\ SerialAgrees' /\ OrderAgrees'
<1>1. /\ job[p].step = "submit"
      /\ UNCHANGED <<branch, integration, fork, own, edited, primary, home, interrupted, overlapped>>
      /\ job' = [job EXCEPT ![p] = NoJob]
  BY DEF Submit, Does
<1>2. PICK t \in Tasks : t = job[p].task
  BY <1>1, DoesIs DEF IntegrationConsistent
<1>3. PICK o \in Outcomes : o = job[p].outcome
  BY <1>1, DoesIs DEF IntegrationConsistent
<1>4. stage' = [stage EXCEPT ![t] = "none"]
  BY <1>2 DEF Submit
<1>5. /\ stage'[t] = "none" /\ \A u \in Tasks \ {t} : stage'[u] = stage[u]
      /\ job'[p].step = "none" /\ Idle(p)' /\ \A q \in Homes \ {p} : job'[q] = job[q]
  BY <1>1, <1>4 DEF IntegrationConsistent, GitTypeOK, Idle, NoJob
<1>6. status[t] \in {"running", "cancelled"}
  BY <1>1, <1>2, DoesIs DEF IntegrationConsistent, RowsAgree, JobAgrees
<1>7. \/ status[t] # "running" /\ UNCHANGED vars
      \/ SubmitTaskResult(t, claimant[t], o, job[p].sha, worktree[t])
  BY <1>2, <1>3 DEF Submit
<1>8. /\ plan' = plan
      /\ \A u \in Tasks \ {t} :
           status[u] \in {"succeeded", "cancelled"} <=> status'[u] \in {"succeeded", "cancelled"}
      /\ \A u \in Tasks \ {t} : status'[u] = "succeeded" => status[u] = "succeeded"
      /\ status'[t] = "succeeded" => o = "succeeded"
      /\ o = "succeeded" => status'[t] \in {"succeeded", "cancelled"}
      /\ status[t] # "running" => status'[t] \in {"succeeded", "cancelled"}
  <2>1. CASE status[t] # "running" /\ UNCHANGED vars
    BY <1>6, <2>1 DEF vars
  <2>2. CASE SubmitTaskResult(t, claimant[t], o, job[p].sha, worktree[t])
    <3>1. /\ status[t] = "running"
          /\ status'[t] = "succeeded" <=> o = "succeeded"
          /\ \A u \in Tasks \ {t} :
               /\ status[u] \in Decided \cup {"running"} => status'[u] = status[u]
               /\ status'[u] \in {"succeeded", "cancelled", "running"} => status'[u] = status[u]
          /\ plan' = plan
      BY <2>2, SubmitSeen DEF IntegrationConsistent
    <3>. QED
      BY <3>1 DEF Decided
  <2>. QED
    BY <1>7, <2>1, <2>2
<1>9. ASSUME Safe', NEW u \in Tasks, status'[u] = "succeeded", status[u] # "succeeded"
      PROVE  Missing(u) = {}
  <2>1. u = t /\ o = "succeeded"
    BY <1>8, <1>9
  <2>2. PicksAgree(p)
    BY <1>9, SafeBefore DEF IntegrationConsistent, BranchAgrees
  <2>. QED
    BY <1>1, <1>2, <1>3, <2>1, <2>2 DEF PicksAgree, Does
<1>10. ASSUME ~overlapped', NEW u \in Tasks \ (interrupted' \cup InJobs'), Unfinished(u)'
       PROVE  (u \notin interrupted \cup InJobs /\ Unfinished(u)) \/ ~On(branch, u)
  <2>1. CASE u = t
    <3>1. status'[t] \notin {"succeeded", "cancelled"}
      BY <1>5, <1>10, <2>1 DEF Unfinished
    <3>2. o # "succeeded" /\ t \notin interrupted
      BY <1>1, <1>8, <1>10, <2>1, <3>1
    <3>3. JobAlone(p)
      BY <1>1, <1>10 DEF IntegrationConsistent, SerialAgrees
    <3>. QED
      BY <1>1, <1>2, <1>3, <2>1, <3>2, <3>3 DEF JobAlone, Unpicked, Does
  <2>2. CASE u # t
    <3>1. u \notin InJobs
      <4>. SUFFICES ASSUME NEW q \in Homes, ~Idle(q), u = job[q].task PROVE u \in InJobs'
        BY <1>10 DEF InJobs
      <4>1. ~Idle(q)' /\ job'[q].task = u
        BY <1>2, <1>5, <2>2 DEF Idle
      <4>. QED
        BY <4>1 DEF InJobs
    <3>2. Unfinished(u)
      BY <1>5, <1>8, <1>10, <2>2 DEF Unfinished
    <3>. QED
      BY <1>1, <1>10, <3>1, <3>2
  <2>. QED
    BY <2>1, <2>2
<1>. QED
  BY <1>1, <1>5, <1>8, <1>9, <1>10, NothingToDo, BranchStays

\* A cancelled run takes its tasks from what is claimed of them.
LEMMA CancelBranch ==
  ASSUME IntegrationConsistent, GitNext, GitTypeOK', NEW p \in Homes, Cancel(p)
  PROVE  BranchAgrees' /\ SerialAgrees' /\ OrderAgrees'
<1>1. UNCHANGED gitVars /\ CancelRun /\ Idle(p)
  BY DEF Cancel
<1>2. /\ plan' = plan
      /\ \A u \in Tasks : /\ status'[u] = "succeeded" => status[u] = "succeeded"
                          /\ status'[u] \in {"succeeded", "cancelled"}
                               \/ status[u] \notin {"succeeded", "cancelled"}
  BY <1>1, CancelSeen
<1>3. job'[p].step = "none"
  BY <1>1 DEF Idle, NoJob, gitVars
<1>4. \A u \in Tasks \ (interrupted' \cup InJobs') :
        Unfinished(u)' => u \notin interrupted \cup InJobs /\ Unfinished(u)
  BY <1>1, <1>2 DEF Unfinished, InJobs, Idle, gitVars
<1>5. UNCHANGED <<branch, integration, fork, own, job, overlapped>>
  BY <1>1 DEF gitVars
<1>. QED
  BY <1>2, <1>3, <1>4, <1>5, NothingToDo, BranchStays

\* A process that ends leaves what it picked, and its task among the interrupted.
LEMMA CrashBranch ==
  ASSUME IntegrationConsistent, GitNext, GitTypeOK', NEW p \in Homes, Crash(p)
  PROVE  BranchAgrees' /\ SerialAgrees' /\ OrderAgrees'
<1>1. /\ UNCHANGED <<vars, branch, integration, fork, own, edited, primary, home, overlapped>>
      /\ job' = [job EXCEPT ![p] = NoJob]
      /\ interrupted' = interrupted \cup {job[q].task : q \in {p} \ {q \in Homes : Idle(q)}}
      /\ \A u \in Tasks : stage'[u] \in {stage[u], "none"}
  BY DEF Crash
<1>2. /\ job'[p].step = "none" /\ \A q \in Homes \ {p} : job'[q] = job[q]
  BY <1>1 DEF IntegrationConsistent, GitTypeOK, NoJob
<1>3. ASSUME NEW u \in Tasks \ (interrupted' \cup InJobs'), Unfinished(u)'
      PROVE  u \notin interrupted \cup InJobs /\ Unfinished(u)
  <2>1. u \notin InJobs
    <3>. SUFFICES ASSUME NEW q \in Homes, ~Idle(q), u = job[q].task PROVE u \in interrupted' \cup InJobs'
      BY <1>3 DEF InJobs
    <3>1. CASE q = p
      BY <1>1, <3>1
    <3>2. CASE q # p
      BY <1>2, <3>2 DEF InJobs, Idle
    <3>. QED
      BY <3>1, <3>2
  <2>. QED
    BY <1>1, <1>3, <2>1 DEF Unfinished, vars
<1>4. UNCHANGED <<plan, status>>
  BY <1>1 DEF vars
<1>. QED
  BY <1>1, <1>2, <1>3, <1>4, NothingToDo, BranchStays

-----------------------------------------------------------------------------
(* The steps that change the integration branch *)

\* What is on the branch once one more commit of a task is picked.
LEMMA PickGrows ==
  ASSUME branch \in Seq(Picks), NEW t \in Tasks, NEW n \in Nat \ {0},
         branch' = Append(branch, <<t, n, 1>>)
  PROVE  /\ \A u \in Tasks : u # t => (On(branch, u)' <=> On(branch, u))
         /\ \A f \in Seq(Picks) : Begins(f, branch) => Begins(f, branch')
         /\ UNCHANGED own =>
              /\ Missing(t)' = Missing(t) \ {n}
              /\ \A u \in Tasks : u # t => Missing(u)' = Missing(u)
<1>1. PICK c \in Picks : c = <<t, n, 1>>
  BY CommitIs
<1>2. c[1] = t /\ \A u, m : <<u, m, 1>> = c <=> u = t /\ m = n
  BY <1>1
<1>3. /\ Len(branch') = Len(branch) + 1
      /\ \A i \in DOMAIN branch : i \in DOMAIN branch' /\ branch'[i] = branch[i]
      /\ \A i \in DOMAIN branch' : i \in DOMAIN branch \/ (i > Len(branch) /\ branch'[i] = c)
      /\ Range(branch') = Range(branch) \cup {c}
  BY <1>1, BranchGrows
<1>4. \A u \in Tasks : u # t => (On(branch, u)' <=> On(branch, u))
  BY <1>2, <1>3 DEF On
<1>5. ASSUME NEW f \in Seq(Picks), Begins(f, branch) PROVE Begins(f, branch')
  <2>1. /\ Len(f) \in Nat /\ DOMAIN f = 1..Len(f)
        /\ Len(branch) \in Nat /\ DOMAIN branch = 1..Len(branch)
    BY SeqIs
  <2>. QED
    BY <1>3, <1>5, <2>1 DEF Begins
<1>6. ASSUME UNCHANGED own PROVE Missing(t)' = Missing(t) \ {n}
  <2>1. \A m : <<t, m, 1>> \notin Range(branch') <=> <<t, m, 1>> \notin Range(branch) /\ m # n
    BY <1>2, <1>3
  <2>2. Range(branch)' = Range(branch')
    BY DEF Range
  <2>. QED
    BY <1>6, <2>1, <2>2 DEF Missing
<1>7. ASSUME UNCHANGED own, NEW u \in Tasks, u # t PROVE Missing(u)' = Missing(u)
  <2>1. \A m : <<u, m, 1>> \notin Range(branch') <=> <<u, m, 1>> \notin Range(branch)
    BY <1>2, <1>3, <1>7
  <2>2. Range(branch)' = Range(branch')
    BY DEF Range
  <2>. QED
    BY <1>7, <2>1, <2>2 DEF Missing
<1>. QED
  BY <1>4, <1>5, <1>6, <1>7

\* A pick puts one missing commit at the end of the branch.
LEMMA PickedBranch ==
  ASSUME IntegrationConsistent, GitNext, GitTypeOK', NEW p \in Homes, CherryPick(p),
         Applies(Head(job[p].commits))
  PROVE  BranchAgrees' /\ SerialAgrees' /\ OrderAgrees'
<1>1. /\ UNCHANGED <<vars, fork, own, edited, primary, stage, home, interrupted, overlapped>>
      /\ job[p].step = "pick" /\ Picked(p)
  BY DEF CherryPick, Does
<1>2. PICK t \in Tasks : t = job[p].task
  BY <1>1, DoesIs DEF IntegrationConsistent
<1>3. PICK s \in CommitLists : s = job[p].commits
  BY <1>1, DoesIs DEF IntegrationConsistent
<1>4. job[p] \in Jobs /\ ~Idle(p) /\ job[p].original \in Seq(Picks)
  BY <1>1, DoesIs DEF IntegrationConsistent
<1>5. PICK c \in Commits : c = Head(s) /\ c = s[1] /\ 1 \in DOMAIN s
  BY TailIs
<1>6. /\ branch' = Append(branch, <<c[1], c[2], c[3] + 1>>)
      /\ UNCHANGED integration
  BY <1>1, <1>3, <1>5 DEF Picked
<1>7. \/ Len(s) = 1 /\ Reports(p, t, "succeeded", TRUE)
      \/ Len(s) # 1 /\ job' = [job EXCEPT ![p].commits = Tail(@)]
  BY <1>1, <1>2, <1>3 DEF Picked
<1>8. /\ \A q \in Homes \ {p} : job'[q] = job[q]
      /\ job'[p].task = t
      /\ \/ Len(s) = 1 /\ job'[p].step = "submit" /\ job'[p].outcome = "succeeded"
         \/ /\ Len(s) # 1 /\ job'[p].step = "pick"
            /\ job'[p].commits = Tail(s) /\ job'[p].original = job[p].original
  <2>1. CASE Len(s) = 1 /\ Reports(p, t, "succeeded", TRUE)
    BY <2>1, ReportIs DEF IntegrationConsistent, Outcomes
  <2>2. CASE Len(s) # 1 /\ job' = [job EXCEPT ![p].commits = Tail(@)]
    <3>1. PICK r \in CommitLists : r = Tail(s)
      BY <2>2, TailIs
    <3>2. PICK j : j = [job[p] EXCEPT !.commits = r]
      OBVIOUS
    <3>3. j = [step |-> "pick", task |-> t, commits |-> r, original |-> job[p].original]
      BY <1>1, <1>2, <1>4, <3>1, <3>2, NextStep
    <3>4. /\ \A q \in Homes \ {p} : job'[q] = job[q]
          /\ job'[p] = j
      BY <1>3, <2>2, <3>1, <3>2 DEF IntegrationConsistent, GitTypeOK
    <3>5. j.step = "pick" /\ j.task = t /\ j.commits = r /\ j.original = job[p].original
      BY <3>3
    <3>. QED
      BY <2>2, <3>1, <3>4, <3>5
  <2>. QED
    BY <1>7, <2>1, <2>2
<1>9. \A q \in Homes \ {p} : ~Idle(q) => job[q].task \in Tasks /\ job[q].task # t
  BY <1>2, <1>4, OneJobEach, JobIs DEF IntegrationConsistent, GitTypeOK, Idle
<1>10. Integrating(p)
  BY <1>1 DEF Integrating
<1>11. status[t] \in {"running", "cancelled"}
  BY <1>1, <1>2, <1>4 DEF IntegrationConsistent, RowsAgree, JobAgrees
<1>12. branch \in Seq(Picks) /\ fork \in [Tasks -> Seq(Picks) \cup {NoBranch}]
  BY DEF IntegrationConsistent, GitTypeOK
<1>13. CASE ~Safe'
  BY <1>13 DEF Safe, BranchAgrees, SerialAgrees, OrderAgrees
<1>14. CASE Safe'
  <2>1. Safe /\ (~overlapped' => ~overlapped) /\ (Clean' => Clean)
    BY <1>14, SafeBefore DEF IntegrationConsistent
  <2>2. /\ BranchOfOwn /\ ForksBegin /\ SucceededAreWhole
        /\ \A q \in Homes : PicksAgree(q)
    BY <2>1 DEF IntegrationConsistent, BranchAgrees
  <2>3. /\ \A i \in DOMAIN s : \E m \in Missing(t) : s[i] = <<t, m, 0>>
        /\ \A m \in Missing(t) : \E i \in DOMAIN s : s[i] = <<t, m, 0>>
        /\ \A i, j \in DOMAIN s : s[i] = s[j] => i = j
    BY <1>1, <1>2, <1>3, <2>2 DEF PicksAgree, StillToPick
  <2>4. PICK n \in Missing(t) : c = <<t, n, 0>>
    BY <1>5, <2>3
  <2>5. n \in DOMAIN own[t] /\ n \in Nat \ {0}
    <3>1. n \in DOMAIN own[t]
      BY DEF Missing
    <3>. QED
      BY <3>1, SeqIs DEF IntegrationConsistent, GitTypeOK
  <2>6. branch' = Append(branch, <<t, n, 1>>)
    BY <1>6, <2>4
  <2>7. PICK new \in Picks : new = <<t, n, 1>>
    BY <2>5, CommitIs
  <2>8. /\ Len(branch') = Len(branch) + 1
        /\ \A i \in DOMAIN branch : i \in DOMAIN branch' /\ branch'[i] = branch[i]
        /\ \A i \in DOMAIN branch' : i \in DOMAIN branch \/ (i > Len(branch) /\ branch'[i] = new)
    BY <1>12, <2>6, <2>7, BranchGrows
  <2>9. new[1] = t /\ new[2] = n /\ new[3] = 1
    BY <2>7
  <2>10. /\ \A u \in Tasks : u # t => (On(branch, u)' <=> On(branch, u))
         /\ \A f \in Seq(Picks) : Begins(f, branch) => Begins(f, branch')
         /\ Missing(t)' = Missing(t) \ {n}
         /\ \A u \in Tasks : u # t => Missing(u)' = Missing(u)
    BY <1>1, <1>12, <2>5, <2>6, PickGrows
  <2>11. BranchOfOwn'
    <3>. SUFFICES ASSUME NEW i \in DOMAIN branch'
                  PROVE  branch'[i][3] = 1 /\ branch'[i][2] \in DOMAIN own[branch'[i][1]]
      BY <1>1 DEF BranchOfOwn
    <3>. QED
      BY <2>2, <2>5, <2>8, <2>9 DEF BranchOfOwn
  <2>12. ForksBegin'
    <3>. SUFFICES ASSUME NEW u \in Tasks, fork[u] # NoBranch PROVE Begins(fork[u], branch')
      BY <1>1 DEF ForksBegin, Begins
    <3>1. fork[u] \in Seq(Picks) /\ Begins(fork[u], branch)
      BY <1>12, <2>2 DEF ForksBegin
    <3>. QED
      BY <2>10, <3>1
  <2>13. SucceededAreWhole'
    <3>1. \A u \in Tasks : Missing(u) = {} => Missing(u)' = {}
      BY <2>10
    <3>. QED
      BY <1>1, <2>2, <3>1 DEF SucceededAreWhole, vars
  <2>14. ASSUME NEW q \in Homes \ {p} PROVE PicksAgree(q)'
    <3>1. CASE Idle(q)
      <4>1. job'[q].step = "none"
        BY <1>8, <3>1 DEF Idle, NoJob
      <4>. QED
        BY <4>1, NothingToDo
    <3>2. CASE ~Idle(q)
      <4>1. PICK m : m = Missing(job[q].task) /\ m = Missing(job[q].task)'
        BY <1>8, <1>9, <2>10, <3>2
      <4>2. PicksAgree(q) /\ job'[q] = job[q]
        BY <1>8, <2>2
      <4>3. StillToPick(q)' <=> StillToPick(q)
        BY <4>1, <4>2 DEF StillToPick
      <4>. QED
        BY <1>1, <4>1, <4>2, <4>3 DEF PicksAgree, Does
    <3>. QED
      BY <3>1, <3>2
  <2>15. PicksAgree(p)'
    <3>1. PICK m : m = Missing(t)' /\ m = Missing(t) \ {n}
      BY <2>10
    <3>2. CASE Len(s) = 1
      <4>1. \A k \in Missing(t) : <<t, k, 0>> = s[1]
        BY <2>3, <3>2, TailIs
      <4>2. m = {}
        BY <1>5, <2>4, <3>1, <4>1
      <4>. QED
        BY <1>8, <3>1, <3>2, <4>2 DEF PicksAgree, Does
    <3>3. CASE Len(s) # 1
      <4>1. PICK r : r = Tail(s)
        OBVIOUS
      <4>2. /\ \A i \in DOMAIN r : i + 1 \in DOMAIN s /\ i + 1 # 1 /\ r[i] = s[i + 1]
            /\ \A i \in DOMAIN s : i # 1 => \E k \in DOMAIN r : k + 1 = i
        BY <4>1, TailIs
      <4>3. ASSUME NEW i \in DOMAIN r PROVE \E k \in m : r[i] = <<t, k, 0>>
        <5>1. PICK k \in Missing(t) : s[i + 1] = <<t, k, 0>>
          BY <2>3, <4>2
        <5>2. s[i + 1] # s[1]
          BY <1>5, <2>3, <4>2
        <5>3. k # n
          BY <1>5, <2>4, <5>1, <5>2
        <5>. QED
          BY <3>1, <4>2, <5>1, <5>3
      <4>4. ASSUME NEW k \in m PROVE \E i \in DOMAIN r : r[i] = <<t, k, 0>>
        <5>1. PICK i \in DOMAIN s : s[i] = <<t, k, 0>>
          BY <2>3, <3>1
        <5>2. <<t, k, 0>> # <<t, n, 0>>
          BY <3>1
        <5>3. i # 1
          BY <1>5, <2>4, <5>1, <5>2
        <5>4. PICK l \in DOMAIN r : l + 1 = i
          BY <4>2, <5>3
        <5>. QED
          BY <4>2, <5>1, <5>4
      <4>5. ASSUME NEW i \in DOMAIN r, NEW j \in DOMAIN r, r[i] = r[j] PROVE i = j
        <5>1. Tail(s) \in CommitLists
          BY <3>3, TailIs
        <5>2. r \in Seq(Commits)
          BY <4>1, <5>1 DEF CommitLists
        <5>3. i \in Int /\ j \in Int
          BY <5>2, SeqIs
        <5>4. i + 1 = j + 1
          BY <2>3, <4>2, <4>5
        <5>. QED
          BY <5>3, <5>4
      <4>6. job'[p].commits = r /\ job'[p].step = "pick"
        BY <1>8, <3>3, <4>1
      <4>7. StillToPick(p)'
        BY <1>8, <3>1, <4>3, <4>4, <4>5, <4>6 DEF StillToPick
      <4>. QED
        BY <4>6, <4>7 DEF PicksAgree, Does
    <3>. QED
      BY <3>2, <3>3
  <2>16. BranchAgrees'
    BY <2>11, <2>12, <2>13, <2>14, <2>15 DEF BranchAgrees
  <2>17. SerialAgrees'
    <3>. SUFFICES ASSUME ~overlapped'
                  PROVE  /\ OneIntegrates' /\ \A q \in Homes : JobAlone(q)'
                         /\ \A u \in Tasks \ (interrupted \cup InJobs)' : Unfinished(u)' => ~On(branch, u)'
      BY DEF SerialAgrees
    <3>1. /\ OneIntegrates /\ \A q \in Homes : JobAlone(q)
          /\ \A u \in Tasks \ (interrupted \cup InJobs) : Unfinished(u) => ~On(branch, u)
      BY <2>1 DEF IntegrationConsistent, SerialAgrees
    <3>2. \A q \in Homes \ {p} : ~Integrating(q) /\ ~Integrating(q)'
      BY <1>8, <1>10, <3>1 DEF OneIntegrates, Integrating
    <3>3. OneIntegrates'
      BY <3>2 DEF OneIntegrates
    <3>4. ASSUME NEW q \in Homes \ {p} PROVE JobAlone(q)'
      <4>1. Unpicked(q)' /\ job'[q].task \notin interrupted' => ~On(branch, job[q].task)'
        <5>. SUFFICES ASSUME Unpicked(q), job[q].task \notin interrupted
                      PROVE  ~On(branch, job[q].task)'
          BY <1>1, <1>8 DEF Unpicked, Does
        <5>1. job[q].step # "none"
          BY DEF Unpicked, Does
        <5>2. ~Idle(q)
          BY <5>1, DoesIs DEF IntegrationConsistent
        <5>3. ~On(branch, job[q].task)
          BY <3>1 DEF JobAlone
        <5>. QED
          BY <1>8, <1>9, <2>10, <5>2, <5>3
      <4>2. job'[q].step \notin {"pick", "abort", "reset"}
        BY <3>2 DEF Integrating
      <4>. QED
        BY <1>8, <3>2, <4>1, <4>2 DEF JobAlone, Does
    <3>5. JobAlone(p)'
      <4>1. integration' = "clean"
        BY <1>1, <1>6, <1>10, <3>1 DEF JobAlone, Does
      <4>2. ~Does(p, "abort")' /\ ~Unpicked(p)'
        BY <1>8 DEF Unpicked, Does
      <4>3. ASSUME job'[p].step \in {"pick", "abort", "reset"} PROVE Resettable(p)'
        <5>1. PICK old \in Seq(Picks) : old = job[p].original /\ old = job'[p].original
          BY <1>4, <1>8, <4>3
        <5>2. Resettable(p)
          BY <1>1, <3>1 DEF JobAlone
        <5>3. Begins(old, branch')
          BY <2>10, <5>1, <5>2 DEF Resettable
        <5>4. \A i \in DOMAIN branch' : i > Len(old) => branch'[i][1] = t
          BY <1>2, <2>8, <2>9, <5>1, <5>2 DEF Resettable
        <5>. QED
          BY <1>1, <1>2, <1>8, <5>1, <5>2, <5>3, <5>4 DEF Resettable, Begins, On
      <4>. QED
        BY <4>1, <4>2, <4>3 DEF JobAlone
    <3>6. ASSUME NEW u \in Tasks, u \notin (interrupted \cup InJobs)', Unfinished(u)' PROVE ~On(branch, u)'
      <4>1. \A q \in Homes : (~Idle(q) <=> ~Idle(q)') /\ job'[q].task = job[q].task
        BY <1>2, <1>4, <1>8 DEF Idle, NoJob
      <4>2. InJobs' = InJobs /\ t \in InJobs
        BY <1>2, <1>4, <4>1 DEF InJobs
      <4>3. u \notin interrupted \cup InJobs /\ Unfinished(u) /\ u # t
        BY <1>1, <3>6, <4>2 DEF Unfinished, vars
      <4>. QED
        BY <2>10, <3>1, <4>3
    <3>. QED
      BY <3>3, <3>4, <3>5, <3>6
  <2>18. OrderAgrees'
    <3>. SUFFICES ASSUME Clean'
                  PROVE  /\ integration' # "picking"
                         /\ \A i \in DOMAIN branch' :
                              /\ branch'[i][1] \in plan.tasks
                              /\ \A d \in plan.deps[branch'[i][1]] : status[d] = "succeeded"
                         /\ \A i, j \in DOMAIN branch' :
                              i < j => branch'[j][1] \notin plan.deps[branch'[i][1]]
      BY <1>1 DEF OrderAgrees, InDependencyOrder, vars
    <3>1. /\ integration # "picking"
          /\ \A i \in DOMAIN branch :
               /\ branch[i][1] \in plan.tasks
               /\ \A d \in plan.deps[branch[i][1]] : status[d] = "succeeded"
          /\ \A i, j \in DOMAIN branch : i < j => branch[j][1] \notin plan.deps[branch[i][1]]
          /\ \A u \in Tasks : status[u] # "cancelled"
      BY <2>1 DEF IntegrationConsistent, OrderAgrees, InDependencyOrder, Clean
    <3>2. status[t] = "running" /\ t \in plan.tasks
      BY <1>11, <3>1 DEF IntegrationConsistent, Consistent, RowsTyped
    <3>3. \A d \in plan.deps[t] : status[d] = "succeeded"
      BY <3>2 DEF IntegrationConsistent, Consistent, DependenciesFirst
    <3>4. ASSUME NEW i \in DOMAIN branch'
          PROVE  /\ branch'[i][1] \in plan.tasks
                 /\ \A d \in plan.deps[branch'[i][1]] : status[d] = "succeeded"
      BY <2>8, <2>9, <3>1, <3>2, <3>3
    <3>5. ASSUME NEW i \in DOMAIN branch', NEW j \in DOMAIN branch', i < j
          PROVE  branch'[j][1] \notin plan.deps[branch'[i][1]]
      <4>1. CASE j \notin DOMAIN branch
        BY <2>8, <2>9, <3>2, <3>4, <4>1
      <4>2. CASE j \in DOMAIN branch
        <5>1. i \in DOMAIN branch
          <6>1. Len(branch) \in Nat /\ DOMAIN branch = 1..Len(branch)
            BY <1>12, SeqIs
          <6>2. DOMAIN branch' = 1..(Len(branch) + 1)
            BY <2>8, SeqIs DEF GitTypeOK
          <6>. QED
            BY <3>5, <4>2, <6>1, <6>2
        <5>. QED
          BY <2>8, <3>1, <3>5, <4>2, <5>1
      <4>. QED
        BY <4>1, <4>2
    <3>. QED
      BY <1>6, <3>1, <3>4, <3>5
  <2>. QED
    BY <2>16, <2>17, <2>18
<1>. QED
  BY <1>13, <1>14

\* A conflict takes back what was picked since the job read the branch's head, and that is
\* the job's own as long as no other process integrates.
LEMMA ResetHardBranch ==
  ASSUME IntegrationConsistent, GitNext, GitTypeOK', NEW p \in Homes, ResetHard(p)
  PROVE  BranchAgrees' /\ SerialAgrees' /\ OrderAgrees'
<1>1. /\ UNCHANGED <<vars, fork, own, edited, primary, stage, home, interrupted, overlapped>>
      /\ job[p].step = "reset" /\ integration' = "clean"
  BY DEF ResetHard, Does
<1>2. PICK t \in Tasks : t = job[p].task
  BY <1>1, DoesIs DEF IntegrationConsistent
<1>3. PICK old \in Seq(Picks) : old = job[p].original /\ branch' = old
  BY <1>1, DoesIs DEF IntegrationConsistent, ResetHard
<1>4. Reports(p, t, "blocked", TRUE)
  BY <1>2 DEF ResetHard
<1>5. /\ \A q \in Homes \ {p} : job'[q] = job[q]
      /\ job'[p].step = "submit" /\ job'[p].task = t /\ job'[p].outcome = "blocked"
  BY <1>4, ReportIs DEF IntegrationConsistent, Outcomes
<1>6. ~Clean'
  BY <1>5 DEF Clean, Undone, Does
<1>7. OrderAgrees'
  BY <1>6 DEF OrderAgrees
<1>8. CASE overlapped'
  BY <1>6, <1>7, <1>8 DEF Safe, BranchAgrees, SerialAgrees
<1>9. CASE ~overlapped'
  <2>1. ~overlapped
    BY <1>9, SafeBefore DEF IntegrationConsistent
  <2>2. /\ BranchOfOwn /\ SucceededAreWhole
        /\ \A q \in Homes : PicksAgree(q)
        /\ OneIntegrates /\ \A q \in Homes : JobAlone(q)
        /\ \A u \in Tasks \ (interrupted \cup InJobs) : Unfinished(u) => ~On(branch, u)
    BY <2>1 DEF IntegrationConsistent, BranchAgrees, SerialAgrees, Safe
  <2>3. /\ Begins(old, branch)
        /\ \A i \in DOMAIN branch : i > Len(old) => branch[i][1] = t
        /\ \A u \in Tasks : fork[u] # NoBranch => Begins(fork[u], old)
        /\ t \notin interrupted => ~On(old, t)
    BY <1>1, <1>2, <1>3, <2>2 DEF JobAlone, Resettable
  <2>4. ~Idle(p) /\ status[t] \in {"running", "cancelled"} /\ Integrating(p)
    BY <1>1, <1>2, DoesIs DEF IntegrationConsistent, RowsAgree, JobAgrees, Integrating
  <2>5. /\ \A i \in DOMAIN old : i \in DOMAIN branch /\ old[i] = branch[i]
        /\ \A i \in DOMAIN branch : i \in DOMAIN old \/ branch[i][1] = t
    <3>1. /\ Len(old) \in Nat /\ DOMAIN old = 1..Len(old)
          /\ Len(branch) \in Nat /\ DOMAIN branch = 1..Len(branch)
      BY SeqIs DEF IntegrationConsistent, GitTypeOK
    <3>. QED
      BY <2>3, <3>1 DEF Begins
  <2>6. ASSUME NEW u \in Tasks, ~On(branch, u) PROVE ~On(branch, u)'
    BY <1>3, <2>5, <2>6 DEF On
  <2>7. ASSUME NEW u \in Tasks, u # t PROVE Missing(u)' = Missing(u)
    <3>1. ASSUME NEW n PROVE <<u, n, 1>> \in Range(old) <=> <<u, n, 1>> \in Range(branch)
      <4>1. <<u, n, 1>>[1] # t
        BY <2>7
      <4>2. \A i \in DOMAIN branch : branch[i] = <<u, n, 1>> => i \in DOMAIN old
        BY <2>5, <4>1
      <4>. QED
        BY <2>5, <4>2 DEF Range
    <3>2. Range(branch)' = Range(old)
      BY <1>3 DEF Range
    <3>. QED
      BY <1>1, <3>1, <3>2 DEF Missing
  <2>8. BranchOfOwn'
    BY <1>1, <1>3, <2>2, <2>5 DEF BranchOfOwn
  <2>9. ForksBegin'
    BY <1>1, <1>3, <2>3 DEF ForksBegin, Begins
  <2>10. SucceededAreWhole'
    <3>. SUFFICES ASSUME NEW u \in Tasks, status[u] = "succeeded" PROVE Missing(u)' = {}
      BY <1>1 DEF SucceededAreWhole, vars
    <3>1. Missing(u) = {} /\ u # t
      BY <2>2, <2>4 DEF SucceededAreWhole
    <3>. QED
      BY <2>7, <3>1
  <2>11. \A q \in Homes \ {p} : ~Idle(q) => job[q].task \in Tasks /\ job[q].task # t
    BY <1>2, <2>4, OneJobEach, JobIs DEF IntegrationConsistent, GitTypeOK, Idle
  <2>12. \A q \in Homes \ {p} : ~Integrating(q)
    BY <2>2, <2>4 DEF OneIntegrates
  <2>13. ASSUME NEW q \in Homes \ {p} PROVE PicksAgree(q)' /\ JobAlone(q)'
    <3>1. CASE Idle(q)
      <4>1. job'[q].step = "none"
        BY <1>5, <3>1 DEF Idle, NoJob
      <4>. QED
        BY <4>1, NothingToDo
    <3>2. CASE ~Idle(q)
      <4>1. PICK u \in Tasks : u = job[q].task /\ u # t
        BY <2>11, <3>2
      <4>2. job'[q].task = u /\ Missing(u)' = Missing(u)
        BY <1>5, <2>7, <4>1
      <4>3. job'[q].step \notin {"messages", "head", "pick", "abort", "reset"}
        BY <1>5, <2>12 DEF Integrating
      <4>4. Does(q, "submit")' /\ job'[q].outcome = "succeeded" => Missing(u) = {}
        BY <1>5, <2>2, <4>1 DEF PicksAgree, Does
      <4>5. PicksAgree(q)'
        BY <4>2, <4>3, <4>4 DEF PicksAgree, Does
      <4>6. Unpicked(q)' /\ u \notin interrupted => ~On(branch, u)'
        BY <1>5, <2>2, <2>6, <4>1 DEF JobAlone, Unpicked, Does
      <4>7. JobAlone(q)'
        BY <1>1, <4>2, <4>3, <4>6 DEF JobAlone, Integrating, Does
      <4>. QED
        BY <4>5, <4>7
    <3>. QED
      BY <3>1, <3>2
  <2>14. PicksAgree(p)' /\ JobAlone(p)' /\ ~Integrating(p)'
    <3>1. t \notin interrupted => ~On(branch, t)'
      BY <1>3, <2>3 DEF On
    <3>. QED
      BY <1>1, <1>5, <3>1, ReportDone, <1>9 DEF Safe
  <2>15. OneIntegrates'
    <3>1. \A q \in Homes \ {p} : ~Integrating(q)'
      BY <1>5, <2>12 DEF Integrating
    <3>. QED
      BY <2>14, <3>1 DEF OneIntegrates
  <2>16. ASSUME NEW u \in Tasks, u \notin (interrupted \cup InJobs)', Unfinished(u)' PROVE ~On(branch, u)'
    <3>1. \A q \in Homes : (~Idle(q) <=> ~Idle(q)') /\ job'[q].task = job[q].task
      BY <1>2, <1>5, <2>4 DEF Idle, NoJob
    <3>2. InJobs' = InJobs
      BY <3>1 DEF InJobs
    <3>3. u \notin interrupted \cup InJobs /\ Unfinished(u)
      BY <1>1, <2>16, <3>2 DEF Unfinished, vars
    <3>. QED
      BY <2>2, <2>6, <3>3
  <2>17. BranchAgrees'
    BY <2>8, <2>9, <2>10, <2>13, <2>14 DEF BranchAgrees
  <2>18. SerialAgrees'
    BY <2>13, <2>14, <2>15, <2>16 DEF SerialAgrees
  <2>. QED
    BY <1>7, <2>17, <2>18
<1>. QED
  BY <1>8, <1>9

-----------------------------------------------------------------------------
(* The invariant *)

\* At first there are no branches and no jobs.
LEMMA GitInitConsistent == GitInit => IntegrationConsistent
<1>. SUFFICES ASSUME GitInit PROVE IntegrationConsistent
  OBVIOUS
<1>1. Consistent /\ plan = NoPlan /\ \A t \in Tasks : status[t] = "absent"
  BY InitConsistent DEF GitInit, Init, Absent
<1>2. /\ branch = <<>> /\ <<>> \in Seq(Picks) /\ <<>> \in Seq(Made) /\ DOMAIN branch = {}
      /\ \A t \in Tasks : own[t] = <<>> /\ DOMAIN own[t] = {}
  <2>1. branch = <<>> /\ <<>> \in Seq(Picks) /\ <<>> \in Seq(Made)
    BY EmptySeq DEF GitInit
  <2>2. \A t \in Tasks : own[t] = <<>>
    BY DEF GitInit
  <2>3. DOMAIN branch = {} /\ \A t \in Tasks : DOMAIN own[t] = {}
    BY <2>1, <2>2, SeqIs
  <2>. QED
    BY <2>1, <2>2, <2>3
<1>3. GitTypeOK
  <2>1. own \in [Tasks -> Seq(Made)] /\ job \in [Homes -> Jobs]
    BY <1>2, NewJobs DEF GitInit
  <2>2. home \in [Tasks -> Homes]
    <3>1. (CHOOSE p \in Homes : TRUE) \in Homes
      BY IntegrationAssumption
    <3>. QED
      BY <3>1 DEF GitInit
  <2>3. \A t \in Tasks : \A n \in DOMAIN own[t] : own[t][n] = <<t, n, 0>>
    BY <1>2
  <2>4. /\ fork \in [Tasks -> Seq(Picks) \cup {NoBranch}]
        /\ edited \in [Tasks -> BOOLEAN]
        /\ stage \in [Tasks -> {"none", "claimed", "working"}]
    BY DEF GitInit
  <2>5. /\ integration = "absent" /\ primary = "clean"
        /\ interrupted \in SUBSET Tasks /\ overlapped \in BOOLEAN
    BY DEF GitInit
  <2>. QED
    BY <1>2, <2>1, <2>2, <2>3, <2>4, <2>5 DEF GitTypeOK
<1>4. \A p \in Homes : Idle(p) /\ job[p].step = "none"
  BY DEF GitInit, Idle, NoJob
<1>5. RowsAgree
  BY <1>1, <1>2, <1>4 DEF GitInit, RowsAgree, TaskAgrees, JobAgrees
<1>6. BranchAgrees
  <2>1. BranchOfOwn /\ ForksBegin
    BY <1>2 DEF GitInit, BranchOfOwn, ForksBegin
  <2>2. SucceededAreWhole
    BY <1>1 DEF SucceededAreWhole
  <2>3. \A p \in Homes : PicksAgree(p)
    BY <1>4 DEF PicksAgree, Does
  <2>. QED
    BY <2>1, <2>2, <2>3 DEF BranchAgrees
<1>7. SerialAgrees
  <2>1. OneIntegrates /\ \A p \in Homes : JobAlone(p)
    BY <1>4 DEF OneIntegrates, Integrating, JobAlone, Unpicked, Does
  <2>2. \A t \in Tasks : ~On(branch, t)
    BY <1>2 DEF On
  <2>. QED
    BY <2>1, <2>2 DEF SerialAgrees
<1>8. OrderAgrees
  BY <1>2 DEF GitInit, OrderAgrees, InDependencyOrder
<1>. QED
  BY <1>1, <1>3, <1>5, <1>6, <1>7, <1>8 DEF IntegrationConsistent

\* Each step keeps the inductive invariant.
LEMMA GitStepConsistent == IntegrationConsistent /\ [GitNext]_allVars => IntegrationConsistent'
<1>. SUFFICES ASSUME IntegrationConsistent, [GitNext]_allVars PROVE IntegrationConsistent'
  OBVIOUS
<1>1. CASE UNCHANGED allVars
  <2>1. UNCHANGED vars /\ UNCHANGED gitVars
    BY <1>1 DEF allVars
  <2>2. Consistent'
    BY <2>1, StepConsistent DEF IntegrationConsistent
  <2>3. GitTypeOK'
    BY <2>1 DEF gitVars, IntegrationConsistent, GitTypeOK
  <2>4. RowsAgree'
    BY <2>1 DEF gitVars, vars, IntegrationConsistent, RowsAgree, TaskAgrees, JobAgrees, Idle, Does
  <2>5. UNCHANGED <<branch, integration, fork, own, stage, job, interrupted, overlapped, status, plan>>
    BY <2>1 DEF gitVars, vars
  <2>. QED
    BY <2>2, <2>3, <2>4, <2>5, NothingMoves DEF IntegrationConsistent
<1>2. CASE GitNext
  <2>1. Consistent' /\ GitTypeOK' /\ RowsAgree'
    BY <1>2, StepStores, StepTypes, StepRows DEF IntegrationConsistent
  <2>2. ASSUME NEW mode \in Deliveries, Open(mode) PROVE BranchAgrees' /\ SerialAgrees' /\ OrderAgrees'
    <3>1. UNCHANGED <<branch, integration, fork, own, stage, job, interrupted, overlapped, status, plan>>
      BY <2>2 DEF Open, CreateRun, gitVars
    <3>. QED
      BY <3>1, NothingMoves
  <2>3. ASSUME EditPrimary PROVE BranchAgrees' /\ SerialAgrees' /\ OrderAgrees'
    <3>1. UNCHANGED <<branch, integration, fork, own, stage, job, interrupted, overlapped, status, plan>>
      BY <2>3 DEF EditPrimary, vars
    <3>. QED
      BY <3>1, NothingMoves
  <2>4. ASSUME NEW r \in Plans, Publish(r) PROVE BranchAgrees' /\ SerialAgrees' /\ OrderAgrees'
    BY <1>2, <2>4, PublishBranch
  <2>5. ASSUME NEW p \in Homes, NEW e \in Executors, Claim(p, e)
        PROVE  BranchAgrees' /\ SerialAgrees' /\ OrderAgrees'
    BY <1>2, <2>1, <2>5, ClaimBranch
  <2>6. ASSUME NEW p \in Homes, NEW t \in Tasks,
               PrepareTask(p, t) \/ WorkerAnswers(p, t) \/ HostSubmits(p, t)
        PROVE  BranchAgrees' /\ SerialAgrees' /\ OrderAgrees'
    BY <1>2, <2>1, <2>6, PrepareTaskBranch, WorkerAnswersBranch, HostSubmitsBranch
  <2>7. ASSUME NEW t \in Tasks, Edit(t) PROVE BranchAgrees' /\ SerialAgrees' /\ OrderAgrees'
    BY <1>2, <2>1, <2>7, EditBranch
  <2>8. ASSUME NEW p \in Homes,
               CommitTask(p) \/ Integrate(p) \/ ReadMessages(p) \/ ReadHead(p)
        PROVE  BranchAgrees' /\ SerialAgrees' /\ OrderAgrees'
    BY <1>2, <2>1, <2>8, CommitTaskBranch, IntegrateBranch, ReadMessagesBranch, ReadHeadBranch
  <2>9. ASSUME NEW p \in Homes, CherryPick(p)
        PROVE  BranchAgrees' /\ SerialAgrees' /\ OrderAgrees'
    BY <1>2, <2>1, <2>9, PickedBranch, ConflictBranch
  <2>10. ASSUME NEW p \in Homes, AbortPick(p) \/ ResetHard(p) \/ Submit(p)
         PROVE  BranchAgrees' /\ SerialAgrees' /\ OrderAgrees'
    BY <1>2, <2>1, <2>10, AbortPickBranch, ResetHardBranch, SubmitBranch
  <2>11. ASSUME NEW p \in Homes, Cancel(p) \/ Crash(p)
         PROVE  BranchAgrees' /\ SerialAgrees' /\ OrderAgrees'
    BY <1>2, <2>1, <2>11, CancelBranch, CrashBranch
  <2>12. BranchAgrees' /\ SerialAgrees' /\ OrderAgrees'
    <3>1. \/ EditPrimary
          \/ \E mode \in Deliveries : Open(mode)
          \/ \E r \in Plans : Publish(r)
          \/ \E t \in Tasks : Edit(t)
          \/ \E p \in Homes, e \in Executors : Claim(p, e)
          \/ \E p \in Homes, t \in Tasks : PrepareTask(p, t) \/ WorkerAnswers(p, t) \/ HostSubmits(p, t)
          \/ \E p \in Homes : CommitTask(p) \/ Integrate(p) \/ ReadMessages(p) \/ ReadHead(p)
          \/ \E p \in Homes : CherryPick(p)
          \/ \E p \in Homes : AbortPick(p) \/ ResetHard(p) \/ Submit(p)
          \/ \E p \in Homes : Cancel(p) \/ Crash(p)
      BY <1>2 DEF GitNext
    <3>. QED
      BY <2>2, <2>3, <2>4, <2>5, <2>6, <2>7, <2>8, <2>9, <2>10, <2>11, <3>1
  <2>. QED
    BY <2>1, <2>12 DEF IntegrationConsistent
<1>. QED
  BY <1>1, <1>2

-----------------------------------------------------------------------------
(* What holds of every run of the processes *)

\* In every state the branches agree with the rows and with the jobs of the processes: all
\* of it as long as no process takes the locked section while another is integrating or
\* nothing had to be taken back, and the rows and the types whatever the processes do.
THEOREM BranchesConsistent == GitSpec => []IntegrationConsistent
<1>. QED
  BY GitInitConsistent, GitStepConsistent, PTL DEF GitSpec

\* What the missing commits of a task say of the branch.
LEMMA IntegratedIs ==
  ASSUME NEW t \in Tasks, Missing(t) = {}
  PROVE  Integrated(t)
<1>. SUFFICES ASSUME NEW n \in DOMAIN own[t]
              PROVE  \E i \in DOMAIN branch : Content(branch[i]) = <<t, n>>
  BY DEF Integrated
<1>1. <<t, n, 1>> \in Range(branch)
  BY DEF Missing
<1>2. PICK i \in DOMAIN branch : branch[i] = <<t, n, 1>>
  BY <1>1 DEF Range
<1>. QED
  BY <1>2 DEF Content

\* As long as integrations come one after the other, the work of every task that succeeded
\* is on the integration branch and stays there, through crashes between any two Git
\* commands, retries and conflicts of other tasks (integrate_task and its reset --hard).
THEOREM SucceededWorkIsKept == GitSpec => []SerializedKeepsSucceeded
<1>1. IntegrationConsistent => SerializedKeepsSucceeded
  <2>. SUFFICES ASSUME IntegrationConsistent, ~overlapped, NEW t \in Tasks, status[t] = "succeeded"
                PROVE  Integrated(t)
    BY DEF SerializedKeepsSucceeded, SucceededStaysIntegrated
  <2>1. Missing(t) = {}
    BY DEF IntegrationConsistent, BranchAgrees, Safe, SucceededAreWhole
  <2>. QED
    BY <2>1, IntegratedIs
<1>. QED
  BY <1>1, BranchesConsistent, PTL

\* A conflict is one of two tasks' changes, never of a task's own commits with what an
\* earlier integrate_task of it had picked.
THEOREM NoConflictWithItself == GitSpec => []ConflictsAreReal
<1>1. IntegrationConsistent => ConflictsAreReal
  BY DEF IntegrationConsistent, SerialAgrees, JobAlone, Clash, ConflictsAreReal
<1>. QED
  BY <1>1, BranchesConsistent, PTL

\* A task that failed, is blocked or is to be tried again has nothing on the integration
\* branch once its process is done with it.
THEOREM ConflictsTakeBack == GitSpec => []UnfinishedLeavesNothing
<1>1. IntegrationConsistent => UnfinishedLeavesNothing
  <2>. SUFFICES ASSUME IntegrationConsistent, ~overlapped, NEW t \in Tasks \ interrupted,
                       status[t] \notin {"succeeded", "cancelled"}, t \notin InJobs
                PROVE  \A i \in DOMAIN branch : branch[i][1] # t
    BY DEF UnfinishedLeavesNothing
  <2>1. ~On(branch, t)
    BY DEF IntegrationConsistent, SerialAgrees, Unfinished
  <2>. QED
    BY <2>1 DEF On
<1>. QED
  BY <1>1, BranchesConsistent, PTL

\* What is reviewed and applied has every task's commits, in dependency order, and no open
\* conflict, even if integrations of several processes overlap.
THEOREM DeliveryIsWhole == GitSpec => []DeliveredIsWhole
<1>1. IntegrationConsistent => DeliveredIsWhole
  <2>. SUFFICES ASSUME IntegrationConsistent, interrupted = {},
                       run \in {"integrating", "reviewing", "completed"}
                PROVE  /\ integration = "clean"
                       /\ \A t \in plan.tasks : Integrated(t)
                       /\ InDependencyOrder
    BY DEF DeliveredIsWhole
  <2>1. plan.tasks # {} /\ \A t \in plan.tasks : status[t] = "succeeded"
    BY DEF IntegrationConsistent, Consistent, DeliversWholePlan
  <2>2. \A t \in Tasks : status[t] \in {"succeeded", "absent"}
    BY <2>1 DEF IntegrationConsistent, Consistent, RowsTyped
  <2>3. \A p \in Homes : ~Undone(p)
    <3>. SUFFICES ASSUME NEW p \in Homes, Undone(p) PROVE FALSE
      OBVIOUS
    <3>1. job[p].step # "none"
      BY DEF Undone, Does
    <3>2. ~Idle(p) /\ job[p].task \in Tasks
      BY <3>1, DoesIs DEF IntegrationConsistent
    <3>3. status[job[p].task] \in {"running", "cancelled"}
      BY <3>2 DEF IntegrationConsistent, RowsAgree, JobAgrees
    <3>. QED
      BY <2>2, <3>2, <3>3
  <2>4. Clean
    BY <2>2, <2>3 DEF Clean
  <2>5. integration = "clean" /\ InDependencyOrder
    <3>1. plan # NoPlan
      BY <2>1 DEF NoPlan
    <3>. QED
      BY <2>4, <3>1 DEF IntegrationConsistent, GitTypeOK, RowsAgree, OrderAgrees
  <2>6. \A t \in plan.tasks : Integrated(t)
    <3>1. plan.tasks \subseteq Tasks
      BY PlanFacts DEF IntegrationConsistent, Consistent, RowsTyped
    <3>2. \A t \in plan.tasks : Missing(t) = {}
      BY <2>1, <2>4, <3>1 DEF IntegrationConsistent, BranchAgrees, Safe, SucceededAreWhole
    <3>. QED
      BY <3>1, <3>2, IntegratedIs
  <2>. QED
    BY <2>5, <2>6
<1>. QED
  BY <1>1, BranchesConsistent, PTL
=============================================================================
