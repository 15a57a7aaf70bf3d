---------------------------- MODULE DatabaseProofs ----------------------------
(***************************************************************************)
(* The state database: whoever opens it, ends where, and begins again, its *)
(* version says what it holds, and no two processes migrate it; no result  *)
(* of an executor is forgotten, and a routing fails for a cause.  For any  *)
(* processes, jobs, rows, tasks and durations.                             *)
(***************************************************************************)
EXTENDS Capabilities, FiniteSetTheorems, TLAPS

-----------------------------------------------------------------------------
(* The inductive invariant of the migration *)

Places == {"closed", "migrating", "failed", "refused", "open"}
Versions == 0..(SchemaVersion - 1)

SchemaTypeOK ==
  /\ version \in 0..(SchemaVersion + 1)
  /\ filled \in SUBSET Rows
  /\ opening \in [Processes -> Places]
  /\ from \in [Processes -> Versions]
  /\ step \in [Processes -> Nat \ {0}]
  /\ todo \in [Processes -> SUBSET Rows]
  /\ interrupted \in BOOLEAN

\* What the first n - 1 statements of a script create, and its first one, the lock.
Done(v, n) == UNION {Script(v)[i].creates : i \in 1..(n - 1)}
Lock(v) == Script(v)[1].creates

\* A process that has executed the lock migrates the version there is, from what that
\* provides, as far as it has come; it is the only one.
Busy(p) == Migrating(p) /\ step[p] > 1

BusyOK(p) ==
  /\ step[p] <= Len(Script(from[p])) + 1
  /\ version = from[p]
  /\ objects = Provided(version) \cup Done(from[p], step[p])

\* A process that migrates does so from a version of the past, or the present one,
\* and has still to fill what is not.
MigratingOK(p) ==
  /\ from[p] <= version /\ version <= SchemaVersion
  /\ step[p] > 1 => BusyOK(p)
  /\ from[p] \in {1, 2} => filled \cup todo[p] = Rows

\* Where nobody is busy, the objects are those of the version, or include the lock
\* of a migration that was interrupted and keep everybody from another.
AtRest ==
  \/ objects = Provided(IF version > SchemaVersion THEN SchemaVersion ELSE version)
  \/ interrupted /\ version < SchemaVersion /\ Lock(version) \subseteq objects
                 /\ Provided(version) \subseteq objects

SchemaConsistent ==
  /\ SchemaTypeOK
  /\ \A p \in Processes : ~Migrating(p) => step[p] = 1
  /\ \A p \in Processes : Migrating(p) => MigratingOK(p)
  /\ \A p, q \in Processes : Busy(p) /\ Busy(q) => p = q
  /\ (\A p \in Processes : ~Busy(p)) => AtRest
  /\ version \in {0, 3, 4, 5} => filled = Rows
  /\ \A p \in Processes : opening[p] = "open" => version = SchemaVersion

-----------------------------------------------------------------------------
(* The inductive invariant of the capability rows *)

Stations == {"idle", "touching", "submitting", "invoking", "answered", "erring", "counted",
             "merging", "routing", "blocked", "done"}

CapabilityTypeOK ==
  /\ rows \in [Executors -> RowType]
  /\ at \in [Jobs -> Stations]
  /\ kind = [j \in Jobs |-> kind[j]]
  /\ duration \in [Jobs -> Nat]
  /\ seen \in [Jobs -> RowType]
  /\ codexMay \in [Jobs -> BOOLEAN]
  /\ made \in [Executors -> Nat \X Nat]
  /\ overtaken \in Nat \X Nat
  /\ spoiled \in SUBSET Jobs

\* A row of the host that lacks nothing but what was overtaken.
Remembered(row) ==
  /\ row.successes \in (made["host"][1] - overtaken[1])..made["host"][1]
  /\ row.failures \in (made["host"][2] - overtaken[2])..made["host"][2]

\* What a touch of the host is about to write lacks no more than the row does, and Codex
\* is as available as the planning that is to be routed has recorded it.
MergesKept == \A j \in Jobs : at[j] = "merging" => Remembered(seen[j])
PlannedHealthy ==
  \A j \in Jobs : at[j] = "routing"
    => j \in spoiled \/ rows["codex"].status \notin {"cooling", "unavailable"}

RowsConsistent ==
  CapabilityTypeOK /\ NothingForgotten /\ MergesKept /\ PlannedHealthy /\ RoutingFailsForCause

-----------------------------------------------------------------------------
(* The scripts *)

\* How many statements each script has.
LEMMA ScriptLengths ==
  ASSUME NEW v \in Versions
  PROVE  Len(Script(v)) \in Nat \ {0} /\ DOMAIN Script(v) = 1..Len(Script(v))
<1>1. Len(Script(0)) = 12 /\ DOMAIN Script(0) = 1..12
  BY DEF Script, CreateAll
<1>2. Len(Script(1)) = 4 /\ DOMAIN Script(1) = 1..4
  BY DEF Script, From1
<1>3. Len(Script(2)) = 4 /\ DOMAIN Script(2) = 1..4
  BY DEF Script, From2
<1>4. Len(Script(3)) = 3 /\ DOMAIN Script(3) = 1..3
  BY DEF Script, From3
<1> QED
  <2>1. CASE v = 0 BY <2>1, <1>1
  <2>2. CASE v = 1 BY <2>2, <1>2
  <2>3. CASE v = 2 BY <2>3, <1>3
  <2>4. CASE v = 3 BY <2>4, <1>4
  <2> QED BY <2>1, <2>2, <2>3, <2>4 DEF Versions, SchemaVersion

\* The statements of each script, spelled out.
LEMMA Statements0 ==
  LET s == Script(0)
  IN /\ s[1].creates = {"runs", "base_branch", "base_commit", "workspace", "display_names",
                        "settings"}
     /\ s[2].creates = {"tasks"} /\ s[3].creates = {"task_dependencies"}
     /\ s[4].creates = {"events"} /\ s[5].creates = {"capabilities"}
     /\ s[6].creates = {"provider_usage", "attempt", "outcome"}
     /\ s[7].creates = {"workspace_settings"} /\ s[8].creates = {"tasks_claim_idx"}
     /\ s[9].creates = {"task_dependencies_reverse_idx"}
     /\ s[10].creates = {"events_run_idx"} /\ s[11].creates = {"provider_usage_run_idx"}
     /\ s[12].creates = {"runs_workspace_updated_idx"}
     /\ \A i \in 1..7 : s[i].needs = {}
     /\ s[8].needs = {"tasks"} /\ s[9].needs = {"task_dependencies"}
     /\ s[10].needs = {"events"} /\ s[11].needs = {"provider_usage"}
     /\ s[12].needs = {"runs", "workspace"}
<1> DEFINE s == Script(0)
<1>1. /\ s[1] = Create("runs", RunColumns) /\ s[2] = Create("tasks", {})
      /\ s[3] = Create("task_dependencies", {}) /\ s[4] = Create("events", {})
      /\ s[5] = Create("capabilities", {}) /\ s[6] = Create("provider_usage", UsageColumns)
      /\ s[7] = Create("workspace_settings", {})
  BY DEF Script, CreateAll
<1>2. /\ s[8] = Index("tasks_claim_idx", {"tasks"})
      /\ s[9] = Index("task_dependencies_reverse_idx", {"task_dependencies"})
      /\ s[10] = Index("events_run_idx", {"events"})
      /\ s[11] = Index("provider_usage_run_idx", {"provider_usage"})
      /\ s[12] = Index("runs_workspace_updated_idx", {"runs", "workspace"})
  BY DEF Script, CreateAll
<1> HIDE DEF s
<1>3. /\ s[1].creates = {"runs", "base_branch", "base_commit", "workspace", "display_names",
                         "settings"}
      /\ s[2].creates = {"tasks"} /\ s[3].creates = {"task_dependencies"}
      /\ s[4].creates = {"events"} /\ s[5].creates = {"capabilities"}
      /\ s[6].creates = {"provider_usage", "attempt", "outcome"}
      /\ s[7].creates = {"workspace_settings"}
  BY <1>1 DEF Create, RunColumns, UsageColumns
<1>4. \A i \in 1..7 : s[i].needs = {}
  <2>1. \A i \in 1..7 : i \in {1, 2, 3, 4, 5, 6, 7}
    OBVIOUS
  <2> QED BY <2>1, <1>1 DEF Create
<1>5. /\ s[8].creates = {"tasks_claim_idx"} /\ s[9].creates = {"task_dependencies_reverse_idx"}
      /\ s[10].creates = {"events_run_idx"} /\ s[11].creates = {"provider_usage_run_idx"}
      /\ s[12].creates = {"runs_workspace_updated_idx"}
      /\ s[8].needs = {"tasks"} /\ s[9].needs = {"task_dependencies"}
      /\ s[10].needs = {"events"} /\ s[11].needs = {"provider_usage"}
      /\ s[12].needs = {"runs", "workspace"}
  BY <1>2 DEF Index
<1> QED BY <1>3, <1>4, <1>5 DEF s

\* The statements of the migration from version 1.
LEMMA Statements1 ==
  LET s == Script(1)
  IN /\ s[1].creates = {"base_branch"} /\ s[2].creates = {"base_commit"}
     /\ s[3].creates = {"provider_usage"} /\ s[4].creates = {"provider_usage_run_idx"}
     /\ s[1].needs = {"runs"} /\ s[2].needs = {"runs"} /\ s[3].needs = {}
     /\ s[4].needs = {"provider_usage"}
  BY DEF Script, From1, Create, Index, AddColumn

\* The statements of the migration from version 2.
LEMMA Statements2 ==
  LET s == Script(2)
  IN /\ s[1].creates = {"workspace"} /\ s[2].creates = {"attempt"}
     /\ s[3].creates = {"outcome"} /\ s[4].creates = {"runs_workspace_updated_idx"}
     /\ s[1].needs = {"runs"} /\ s[2].needs = {"provider_usage"}
     /\ s[3].needs = {"provider_usage"} /\ s[4].needs = {"runs", "workspace"}
  BY DEF Script, From2, Index, AddColumn

\* The statements of the migration from version 3.
LEMMA Statements3 ==
  LET s == Script(3)
  IN /\ s[1].creates = {"display_names"} /\ s[2].creates = {"settings"}
     /\ s[3].creates = {"workspace_settings"}
     /\ s[1].needs = {"runs"} /\ s[2].needs = {"runs"} /\ s[3].needs = {}
  BY DEF Script, From3, Create, AddColumn

\* What the creation of a database creates in all.
LEMMA Creates0 ==
  Creates(Script(0)) =
    {"runs", "base_branch", "base_commit", "workspace", "display_names", "settings", "tasks",
     "task_dependencies", "events", "capabilities", "provider_usage", "attempt", "outcome",
     "workspace_settings", "tasks_claim_idx", "task_dependencies_reverse_idx",
     "events_run_idx", "provider_usage_run_idx", "runs_workspace_updated_idx"}
<1> DEFINE s == Script(0)
<1>1. DOMAIN s = 1..12
  BY DEF Script, CreateAll
<1>2. Creates(s) = s[1].creates \cup s[2].creates \cup s[3].creates \cup s[4].creates
                     \cup s[5].creates \cup s[6].creates \cup s[7].creates \cup s[8].creates
                     \cup s[9].creates \cup s[10].creates \cup s[11].creates \cup s[12].creates
  <2> HIDE DEF s
  <2> QED BY <1>1 DEF Creates
<1> QED BY <1>2, Statements0

\* What the migration from version 1 creates in all.
LEMMA Creates1 ==
  Creates(Script(1)) = {"base_branch", "base_commit", "provider_usage", "provider_usage_run_idx"}
<1>1. DOMAIN Script(1) = 1..4
  BY DEF Script, From1
<1> QED BY <1>1, Statements1 DEF Creates

\* What the migration from version 2 creates in all.
LEMMA Creates2 ==
  Creates(Script(2)) = {"workspace", "attempt", "outcome", "runs_workspace_updated_idx"}
<1>1. DOMAIN Script(2) = 1..4
  BY DEF Script, From2
<1> QED BY <1>1, Statements2 DEF Creates

\* What the migration from version 3 creates in all.
LEMMA Creates3 ==
  Creates(Script(3)) = {"display_names", "settings", "workspace_settings"}
<1>1. DOMAIN Script(3) = 1..3
  BY DEF Script, From3
<1> QED BY <1>1, Statements3 DEF Creates

\* What a version provides is what the versions after it did not add.
LEMMA ProvidedBy ==
  /\ Provided(0) = {}
  /\ Provided(4) = Creates(Script(0))
  /\ Provided(3) = Creates(Script(0)) \ Creates(Script(3))
  /\ Provided(2) = Creates(Script(0)) \ (Creates(Script(2)) \cup Creates(Script(3)))
  /\ Provided(1) = Creates(Script(0)) \
                     (Creates(Script(1)) \cup Creates(Script(2)) \cup Creates(Script(3)))
<1> DEFINE added(u) == UNION {Creates(Script(w)) : w \in u..3}
<1>1. /\ added(4) = {} /\ added(3) = Creates(Script(3))
      /\ added(2) = Creates(Script(2)) \cup Creates(Script(3))
      /\ added(1) = Creates(Script(1)) \cup Creates(Script(2)) \cup Creates(Script(3))
  <2> DEFINE C(w) == Creates(Script(w))
  <2>1. /\ 4..3 = {} /\ 3..3 = {3} /\ 2..3 = {2, 3} /\ 1..3 = {1, 2, 3}
    OBVIOUS
  <2>2. /\ UNION {C(w) : w \in {}} = {} /\ UNION {C(w) : w \in {3}} = C(3)
        /\ UNION {C(w) : w \in {2, 3}} = C(2) \cup C(3)
        /\ UNION {C(w) : w \in {1, 2, 3}} = C(1) \cup C(2) \cup C(3)
    <3> HIDE DEF C
    <3> QED OBVIOUS
  <2> QED BY <2>1, <2>2
<1>2. \A v \in 1..4 : Provided(v) = Creates(Script(0)) \ added(v)
  BY DEF Provided
<1>3. Provided(0) = {}
  BY DEF Provided
<1> HIDE DEF added
<1> QED BY <1>1, <1>2, <1>3

\* Each script brings what its version lacks, and nothing that is there.
LEMMA ScriptsComplete ==
  ASSUME NEW v \in Versions
  PROVE  Provided(v) \cup Creates(Script(v)) = Provided(IF v = 0 THEN 4 ELSE v + 1)
<1>1. CASE v = 0
  BY <1>1, ProvidedBy
<1>2. CASE v = 1
  BY <1>2, ProvidedBy, Creates0, Creates1, Creates2, Creates3
<1>3. CASE v = 2
  BY <1>3, ProvidedBy, Creates0, Creates2, Creates3
<1>4. CASE v = 3
  BY <1>4, ProvidedBy, Creates0, Creates3
<1> QED BY <1>1, <1>2, <1>3, <1>4 DEF Versions, SchemaVersion

\* What the first statement of each script creates.
LEMMA LocksAre ==
  /\ Lock(0) = {"runs", "base_branch", "base_commit", "workspace", "display_names", "settings"}
  /\ Lock(1) = {"base_branch"} /\ Lock(2) = {"workspace"} /\ Lock(3) = {"display_names"}
  BY Statements0, Statements1, Statements2, Statements3 DEF Lock

\* Every later version has something of the lock of a script.
LEMMA LocksStay ==
  ASSUME NEW v \in Versions, NEW w \in 1..4, v < w
  PROVE  Lock(v) \cap Provided(w) # {}
<1>1. Provided(w) \in {Provided(1), Provided(2), Provided(3), Provided(4)}
  OBVIOUS
<1>2. CASE v = 0
  <2>1. "runs" \in Provided(w)
    BY <1>1, ProvidedBy, Creates0, Creates1, Creates2, Creates3
  <2> QED BY <1>2, <2>1, LocksAre
<1>3. CASE v = 1
  <2>1. "base_branch" \in Provided(2) /\ "base_branch" \in Provided(3)
          /\ "base_branch" \in Provided(4)
    BY ProvidedBy, Creates0, Creates2, Creates3
  <2>2. w \in {2, 3, 4}
    BY <1>3
  <2> QED BY <1>3, <2>1, <2>2, LocksAre
<1>4. CASE v = 2
  <2>1. "workspace" \in Provided(3) /\ "workspace" \in Provided(4)
    BY ProvidedBy, Creates0, Creates3
  <2>2. w \in {3, 4}
    BY <1>4
  <2> QED BY <1>4, <2>1, <2>2, LocksAre
<1>5. CASE v = 3
  <2>1. "display_names" \in Provided(4) /\ w = 4
    BY <1>5, ProvidedBy, Creates0
  <2> QED BY <1>5, <2>1, LocksAre
<1> QED BY <1>2, <1>3, <1>4, <1>5 DEF Versions, SchemaVersion

\* Each first statement creates something, so it fails when it is executed again.
LEMMA LocksCreate ==
  ASSUME NEW v \in Versions
  PROVE  Lock(v) # {}
<1>1. v \in {0, 1, 2, 3}
  BY DEF Versions, SchemaVersion
<1>2. "runs" \in Lock(0)
  BY LocksAre
<1> QED BY <1>1, <1>2, LocksAre

\* What is done grows by what the next statement creates, from nothing to all, and
\* has the lock once it is more than nothing.
LEMMA DoneGrows ==
  ASSUME NEW v \in Versions, NEW n \in Nat \ {0}
  PROVE  /\ Done(v, 1) = {}
         /\ Done(v, n + 1) = Done(v, n) \cup Script(v)[n].creates
         /\ n > 1 => Lock(v) \subseteq Done(v, n)
         /\ n = Len(Script(v)) + 1 => Done(v, n) = Creates(Script(v))
<1> DEFINE C(i) == Script(v)[i].creates
<1>1. 1..(1 - 1) = {} /\ 1..((n + 1) - 1) = (1..(n - 1)) \cup {n}
  OBVIOUS
<1>2. Done(v, 1) = {}
  BY <1>1 DEF Done
<1>3. Done(v, n + 1) = Done(v, n) \cup C(n)
  <2>1. Done(v, n + 1) = UNION {C(i) : i \in (1..(n - 1)) \cup {n}}
    BY <1>1 DEF Done
  <2>2. Done(v, n) = UNION {C(i) : i \in 1..(n - 1)}
    BY DEF Done
  <2> HIDE DEF C
  <2> QED BY <2>1, <2>2
<1>4. n > 1 => Lock(v) \subseteq Done(v, n)
  <2>1. Lock(v) = C(1) /\ Done(v, n) = UNION {C(i) : i \in 1..(n - 1)}
    BY DEF Lock, Done
  <2>2. n > 1 => 1 \in 1..(n - 1)
    OBVIOUS
  <2> HIDE DEF C
  <2> QED BY <2>1, <2>2
<1>5. ASSUME n = Len(Script(v)) + 1
      PROVE  Done(v, n) = Creates(Script(v))
  <2>1. DOMAIN Script(v) = 1..(n - 1)
    BY <1>5, ScriptLengths
  <2> QED BY <2>1 DEF Done, Creates
<1> QED BY <1>2, <1>3, <1>4, <1>5

\* A script that finds what its version provides runs through: each statement finds
\* what it needs, and nothing of what it creates.
LEMMA ScriptsRun ==
  ASSUME NEW v \in Versions, NEW n \in 1..Len(Script(v))
  PROVE  /\ Script(v)[n].needs \subseteq Provided(v) \cup Done(v, n)
         /\ Script(v)[n].creates \cap (Provided(v) \cup Done(v, n)) = {}
<1> DEFINE C(i) == Script(v)[i].creates
<1>1. Done(v, n) = UNION {C(i) : i \in 1..(n - 1)}
  BY DEF Done
<1>2. n \in 1..Len(Script(v)) /\ Len(Script(v)) \in Nat /\ DOMAIN Script(v) = 1..Len(Script(v))
  BY ScriptLengths
<1>3. C(n) \cap Provided(v) = {}
  <2>1. C(n) \subseteq Creates(Script(v))
    BY <1>2 DEF Creates
  <2> HIDE DEF C
  <2> QED BY <2>1, ProvidedBy DEF Versions, SchemaVersion
<1>4. ASSUME NEW i \in 1..(n - 1)
      PROVE  C(n) \cap C(i) = {}
  <2>1. n \in Nat /\ i \in Nat /\ 1 <= i /\ i < n /\ n <= Len(Script(v))
    BY <1>2
  <2>2. CASE v = 0
    <3>1. Len(Script(v)) = 12
      BY <2>2 DEF Script, CreateAll
    <3>2. n \in {1, 2, 3, 4, 5, 6, 7, 8, 9, 10, 11, 12} /\ i < n
            /\ i \in {1, 2, 3, 4, 5, 6, 7, 8, 9, 10, 11, 12}
      BY <3>1, <2>1
    <3> QED BY <3>2, <2>2, Statements0
  <2>3. CASE v = 1
    <3>1. Len(Script(v)) = 4
      BY <2>3 DEF Script, From1
    <3>2. n \in {1, 2, 3, 4} /\ i \in {1, 2, 3, 4} /\ i < n
      BY <3>1, <2>1
    <3> QED BY <3>2, <2>3, Statements1
  <2>4. CASE v = 2
    <3>1. Len(Script(v)) = 4
      BY <2>4 DEF Script, From2
    <3>2. n \in {1, 2, 3, 4} /\ i \in {1, 2, 3, 4} /\ i < n
      BY <3>1, <2>1
    <3> QED BY <3>2, <2>4, Statements2
  <2>5. CASE v = 3
    <3>1. Len(Script(v)) = 3
      BY <2>5 DEF Script, From3
    <3>2. n \in {1, 2, 3} /\ i \in {1, 2, 3} /\ i < n
      BY <3>1, <2>1
    <3> QED BY <3>2, <2>5, Statements3
  <2> QED BY <2>2, <2>3, <2>4, <2>5 DEF Versions, SchemaVersion
<1>5. Script(v)[n].needs \subseteq Provided(v) \cup Done(v, n)
  <2>1. \A i \in 1..(n - 1) : C(i) \subseteq Done(v, n)
    BY <1>1
  <2>2. CASE v = 0
    <3>1. Len(Script(0)) = 12
      BY DEF Script, CreateAll
    <3>2. CASE n \in 1..7
      BY <3>2, <2>2, Statements0
    <3>3. CASE n \in {8, 9, 10, 11, 12}
      <4>1. C(1) \cup C(2) \cup C(3) \cup C(4) \cup C(6) \subseteq Done(v, n)
        BY <3>3, <2>1
      <4>2. {"runs", "workspace", "tasks", "task_dependencies", "events", "provider_usage"}
              \subseteq Done(v, n)
        BY <4>1, <2>2, Statements0
      <4> HIDE DEF C
      <4> QED BY <4>2, <3>3, <2>2, Statements0
    <3> QED BY <3>1, <3>2, <3>3, <2>2
  <2>3. CASE v = 1
    <3>1. Len(Script(1)) = 4 /\ "runs" \in Provided(1)
      BY ProvidedBy, Creates0, Creates1, Creates2, Creates3 DEF Script, From1
    <3>2. n = 4 => "provider_usage" \in Done(v, n)
      BY <2>1, <2>3, Statements1
    <3> QED BY <3>1, <3>2, <2>3, Statements1
  <2>4. CASE v = 2
    <3>1. Len(Script(2)) = 4 /\ "runs" \in Provided(2) /\ "provider_usage" \in Provided(2)
      BY ProvidedBy, Creates0, Creates2, Creates3 DEF Script, From2
    <3>2. n = 4 => "workspace" \in Done(v, n)
      BY <2>1, <2>4, Statements2
    <3> QED BY <3>1, <3>2, <2>4, Statements2
  <2>5. CASE v = 3
    <3>1. Len(Script(3)) = 3 /\ "runs" \in Provided(3)
      BY ProvidedBy, Creates0, Creates3 DEF Script, From3
    <3> QED BY <3>1, <2>5, Statements3
  <2> QED BY <2>2, <2>3, <2>4, <2>5 DEF Versions, SchemaVersion
<1>6. C(n) \cap Done(v, n) = {}
  <2> HIDE DEF C
  <2> QED BY <1>1, <1>4
<1> QED BY <1>3, <1>5, <1>6

-----------------------------------------------------------------------------
(* The migration, step by step *)

\* A database that nobody has open is whole, of whatever version.
LEMMA SchemaInit == InitSchema => SchemaConsistent
<1> SUFFICES ASSUME InitSchema PROVE SchemaConsistent
  OBVIOUS
<1>1. SchemaTypeOK
  <2>1. filled \in SUBSET Rows /\ interrupted \in BOOLEAN
    BY DEF InitSchema
  <2>2. 0 \in Versions /\ 1 \in Nat \ {0} /\ "closed" \in Places
    BY DEF Versions, SchemaVersion, Places
  <2>3. /\ opening \in [Processes -> Places] /\ from \in [Processes -> Versions]
        /\ step \in [Processes -> Nat \ {0}] /\ todo \in [Processes -> SUBSET Rows]
    BY <2>2 DEF InitSchema
  <2> QED BY <2>1, <2>3 DEF SchemaTypeOK, InitSchema
<1>2. \A p \in Processes : step[p] = 1 /\ opening[p] = "closed"
  BY DEF InitSchema
<1>3. AtRest
  BY DEF InitSchema, AtRest
<1>4. version \in {0, 3, 4, 5} => filled = Rows
  BY DEF InitSchema
<1> QED BY <1>1, <1>2, <1>3, <1>4 DEF SchemaConsistent, Migrating, Busy

\* A process that leaves leaves the others as they were, and the database at rest if
\* it was busy and is noted as interrupted.
LEMMA LeaveConsistent ==
  ASSUME SchemaConsistent, NEW p \in Processes, NEW place \in Places \ {"migrating"},
         Leave(p, place), UNCHANGED <<version, objects, filled>>,
         interrupted' \in BOOLEAN, interrupted \/ Busy(p) => interrupted',
         place = "open" => version = SchemaVersion
  PROVE  SchemaConsistent'
<1> USE DEF SchemaConsistent
<1>1. SchemaTypeOK'
  BY DEF SchemaTypeOK, Leave, Become, Versions, SchemaVersion, Places
<1>2. /\ opening'[p] = place /\ step'[p] = 1 /\ ~Migrating(p)' /\ ~Busy(p)'
      /\ \A q \in Processes \ {p} :
           opening'[q] = opening[q] /\ from'[q] = from[q] /\ step'[q] = step[q] /\ todo'[q] = todo[q]
  BY DEF SchemaTypeOK, Leave, Become, Migrating, Busy
<1>3. \A q \in Processes \ {p} : Migrating(q)' = Migrating(q) /\ Busy(q)' = Busy(q)
  BY <1>2 DEF Migrating, Busy
<1>4. \A q \in Processes : ~Migrating(q)' => step'[q] = 1
  BY <1>2, <1>3
<1>5. \A q \in Processes : Migrating(q)' => MigratingOK(q)'
  <2> SUFFICES ASSUME NEW q \in Processes \ {p}, Migrating(q)'
               PROVE  MigratingOK(q)'
    BY <1>2
  <2>1. MigratingOK(q)
    BY <1>3
  <2> QED BY <2>1, <1>2 DEF MigratingOK, BusyOK
<1>6. \A q, r \in Processes : Busy(q)' /\ Busy(r)' => q = r
  BY <1>2, <1>3
<1>7. (\A q \in Processes : ~Busy(q)') => AtRest'
  <2> SUFFICES ASSUME \A q \in Processes : ~Busy(q)' PROVE AtRest'
    OBVIOUS
  <2>1. CASE Busy(p)
    <3>1. MigratingOK(p) /\ BusyOK(p) /\ from[p] \in Versions /\ step[p] \in Nat \ {0}
      BY <2>1 DEF SchemaTypeOK, Busy, MigratingOK
    <3>2. Lock(version) \subseteq objects /\ Provided(version) \subseteq objects
      BY <3>1, <2>1, DoneGrows DEF BusyOK, Busy
    <3>3. version < SchemaVersion
      BY <3>1 DEF BusyOK, Versions, SchemaVersion
    <3> QED BY <3>2, <3>3, <2>1 DEF AtRest
  <2>2. CASE ~Busy(p)
    <3>1. AtRest
      BY <2>2, <1>3
    <3> QED BY <3>1 DEF AtRest
  <2> QED BY <2>1, <2>2
<1>8. \A q \in Processes : opening'[q] = "open" => version' = SchemaVersion
  BY <1>2
<1> QED BY <1>1, <1>4, <1>5, <1>6, <1>7, <1>8

\* Who opens a database and finds its version does nothing yet.
LEMMA OpenConsistent ==
  ASSUME SchemaConsistent, NEW p \in Processes, Open(p)
  PROVE  SchemaConsistent'
<1>1. CASE version > SchemaVersion /\ Leave(p, "refused")
  <2>1. ~Busy(p) /\ interrupted \in BOOLEAN
    BY DEF Open, Busy, Migrating, SchemaConsistent, SchemaTypeOK
  <2> QED BY <1>1, <2>1, LeaveConsistent DEF Open, Places
<1>2. CASE version = SchemaVersion /\ Leave(p, "open")
  <2>1. ~Busy(p) /\ interrupted \in BOOLEAN
    BY DEF Open, Busy, Migrating, SchemaConsistent, SchemaTypeOK
  <2> QED BY <1>2, <2>1, LeaveConsistent DEF Open, Places
<1>3. ASSUME version < SchemaVersion, Become(p, "migrating"),
             from' = [from EXCEPT ![p] = version], todo' = [todo EXCEPT ![p] = Rows],
             UNCHANGED step
      PROVE  SchemaConsistent'
  <2> USE DEF SchemaConsistent
  <2>1. UNCHANGED <<version, objects, filled, interrupted>> /\ ~Migrating(p) /\ step[p] = 1
    BY DEF Open, Migrating
  <2>2. SchemaTypeOK'
    BY <1>3, <2>1 DEF SchemaTypeOK, Become, Versions, SchemaVersion, Places
  <2>3. /\ opening'[p] = "migrating" /\ from'[p] = version /\ todo'[p] = Rows /\ step'[p] = 1
        /\ \A q \in Processes \ {p} :
             opening'[q] = opening[q] /\ from'[q] = from[q] /\ step'[q] = step[q] /\ todo'[q] = todo[q]
    BY <1>3, <2>1 DEF SchemaTypeOK, Become
  <2>4. \A q \in Processes \ {p} : Migrating(q)' = Migrating(q)
    BY <2>3 DEF Migrating
  <2>5. \A q \in Processes : Busy(q)' = Busy(q)
    BY <2>1, <2>3, <2>4 DEF Busy, Migrating
  <2>6. \A q \in Processes : ~Migrating(q)' => step'[q] = 1
    BY <2>3, <2>4
  <2>7. \A q \in Processes : Migrating(q)' => MigratingOK(q)'
    <3>1. MigratingOK(p)'
      BY <1>3, <2>1, <2>3 DEF MigratingOK, SchemaTypeOK, SchemaVersion
    <3>2. ASSUME NEW q \in Processes \ {p}, Migrating(q)'
          PROVE  MigratingOK(q)'
      <4>1. MigratingOK(q)
        BY <3>2, <2>4
      <4> QED BY <4>1, <2>1, <2>3 DEF MigratingOK, BusyOK
    <3> QED BY <3>1, <3>2
  <2>8. (\A q \in Processes : ~Busy(q)') => AtRest'
    BY <2>1, <2>5 DEF AtRest
  <2>9. \A q \in Processes : opening'[q] = "open" => version' = SchemaVersion
    BY <2>1, <2>3
  <2> QED BY <2>1, <2>2, <2>5, <2>6, <2>7, <2>8, <2>9
<1> QED BY <1>1, <1>2, <1>3 DEF Open

\* What a version provides is there, be it migrated or left.
LEMMA ProvidedIsThere ==
  ASSUME SchemaConsistent, version <= SchemaVersion
  PROVE  Provided(version) \subseteq objects
<1>1. CASE \E p \in Processes : Busy(p)
  BY <1>1 DEF SchemaConsistent, MigratingOK, BusyOK, Busy
<1>2. CASE \A p \in Processes : ~Busy(p)
  BY <1>2 DEF SchemaConsistent, AtRest, SchemaTypeOK, SchemaVersion
<1> QED BY <1>1, <1>2

\* Who executes a statement without an error holds the lock, or takes it where nobody
\* has it, at the version it began from.
LEMMA OneExecutes ==
  ASSUME SchemaConsistent, NEW p \in Processes, AtScript(p),
         Statement(p).creates \cap objects = {}
  PROVE  /\ version = from[p]
         /\ objects = Provided(version) \cup Done(from[p], step[p])
         /\ \A q \in Processes \ {p} : ~Busy(q)
<1>1. /\ Migrating(p) /\ MigratingOK(p) /\ from[p] \in Versions /\ step[p] \in Nat \ {0}
      /\ version \in 0..(SchemaVersion + 1)
  BY DEF SchemaConsistent, SchemaTypeOK, AtScript
<1>2. CASE step[p] > 1
  BY <1>1, <1>2 DEF SchemaConsistent, MigratingOK, BusyOK, Busy
<1>3. CASE ~(step[p] > 1)
  <2>1. step[p] = 1 /\ Statement(p).creates = Lock(from[p])
    BY <1>1, <1>3 DEF Statement, Lock
  <2>2. Lock(from[p]) \cap objects = {} /\ Lock(from[p]) # {}
    BY <1>1, <2>1, LocksCreate
  <2>3. version = from[p]
    <3> SUFFICES ASSUME version # from[p] PROVE FALSE
      OBVIOUS
    <3>1. version \in 1..4 /\ from[p] < version /\ version <= SchemaVersion
      BY <1>1 DEF MigratingOK, Versions, SchemaVersion
    <3> QED BY <3>1, <2>2, <1>1, LocksStay, ProvidedIsThere
  <2>4. \A q \in Processes : ~Busy(q)
    <3> SUFFICES ASSUME NEW q \in Processes, Busy(q) PROVE FALSE
      OBVIOUS
    <3>1. BusyOK(q) /\ step[q] > 1 /\ step[q] \in Nat \ {0} /\ from[q] \in Versions
      BY DEF SchemaConsistent, SchemaTypeOK, MigratingOK, Busy
    <3>2. Lock(from[q]) \subseteq objects /\ from[q] = version
      BY <3>1, DoneGrows DEF BusyOK
    <3> QED BY <3>2, <2>2, <2>3
  <2>5. objects = Provided(version)
    <3>1. AtRest /\ version < SchemaVersion
      BY <2>3, <2>4, <1>1 DEF SchemaConsistent, Versions, SchemaVersion
    <3>2. Lock(version) \cap objects = {} /\ Lock(version) # {}
      BY <2>2, <2>3
    <3>3. ~(Lock(version) \subseteq objects)
      BY <3>2
    <3>4. ~(version > SchemaVersion)
      BY <3>1, <1>1 DEF SchemaVersion
    <3> QED BY <3>1, <3>3, <3>4 DEF AtRest
  <2> QED BY <2>1, <2>3, <2>4, <2>5, <1>1, DoneGrows
<1> QED BY <1>2, <1>3

\* A statement creates what the next one may rely on.
LEMMA ExecuteConsistent ==
  ASSUME SchemaConsistent, NEW p \in Processes, Execute(p)
  PROVE  SchemaConsistent'
<1> USE DEF SchemaConsistent
<1> DEFINE n == step[p]
<1>1. /\ Migrating(p) /\ MigratingOK(p) /\ from[p] \in Versions /\ n \in Nat \ {0}
      /\ n <= Len(Script(from[p])) /\ Len(Script(from[p])) \in Nat
      /\ version \in 0..(SchemaVersion + 1)
  BY ScriptLengths DEF SchemaTypeOK, AtScript, Execute
<1>2. /\ version = from[p] /\ objects = Provided(version) \cup Done(from[p], n)
      /\ \A q \in Processes \ {p} : ~Busy(q)
  BY OneExecutes DEF Execute
<1>3. /\ step'[p] = n + 1 /\ \A q \in Processes \ {p} : step'[q] = step[q]
      /\ UNCHANGED <<version, filled, opening, from, todo, interrupted>>
      /\ objects' = objects \cup Script(from[p])[n].creates
  BY DEF SchemaTypeOK, Execute, Statement
<1>4. SchemaTypeOK'
  BY <1>1, <1>3 DEF SchemaTypeOK, Execute
<1>5. \A q \in Processes : Migrating(q)' = Migrating(q)
  BY <1>3 DEF Migrating
<1>6. \A q \in Processes : ~Migrating(q)' => step'[q] = 1
  BY <1>1, <1>3, <1>5
<1>7. \A q \in Processes \ {p} : ~Busy(q)'
  BY <1>2, <1>3, <1>5 DEF Busy
<1>8. BusyOK(p)'
  <2>1. Done(from[p], n + 1) = Done(from[p], n) \cup Script(from[p])[n].creates
    BY <1>1, DoneGrows
  <2>2. objects' = Provided(version) \cup Done(from[p], n + 1)
    BY <2>1, <1>2, <1>3
  <2>3. n + 1 <= Len(Script(from[p])) + 1
    BY <1>1
  <2> HIDE DEF n
  <2> QED BY <2>2, <2>3, <1>2, <1>3 DEF BusyOK
<1>9. \A q \in Processes : Migrating(q)' => MigratingOK(q)'
  <2>1. MigratingOK(p)'
    BY <1>1, <1>3, <1>8 DEF MigratingOK
  <2>2. ASSUME NEW q \in Processes \ {p}, Migrating(q)'
        PROVE  MigratingOK(q)'
    BY <2>2, <1>2, <1>3, <1>5 DEF MigratingOK, Busy
  <2> QED BY <2>1, <2>2
<1>10. Busy(p)'
  BY <1>1, <1>3, <1>5 DEF Busy
<1> QED BY <1>3, <1>4, <1>6, <1>7, <1>9, <1>10

\* A statement that fails changes nothing, and its process leaves.
LEMMA RefuseConsistent ==
  ASSUME SchemaConsistent, NEW p \in Processes, Refuse(p)
  PROVE  SchemaConsistent'
<1>1. ~Busy(p)
  <2> SUFFICES ASSUME Busy(p) PROVE FALSE
    OBVIOUS
  <2>1. /\ BusyOK(p) /\ from[p] \in Versions /\ step[p] \in Nat \ {0}
        /\ step[p] <= Len(Script(from[p]))
    BY DEF SchemaConsistent, SchemaTypeOK, MigratingOK, Busy, Refuse, AtScript
  <2>2. step[p] \in 1..Len(Script(from[p]))
    BY <2>1, ScriptLengths
  <2>3. objects = Provided(from[p]) \cup Done(from[p], step[p])
    BY <2>1 DEF BusyOK
  <2> QED BY <2>1, <2>2, <2>3, ScriptsRun DEF Refuse, Statement
<1> QED BY <1>1, LeaveConsistent DEF Refuse, Places, SchemaConsistent, SchemaTypeOK

\* A process that ends leaves its lock behind, which keeps out the others.
LEMMA InterruptConsistent ==
  ASSUME SchemaConsistent, NEW p \in Processes, Interrupt(p)
  PROVE  SchemaConsistent'
  BY LeaveConsistent DEF Interrupt, Places

\* A row that is filled is one less to fill.
LEMMA BackfillConsistent ==
  ASSUME SchemaConsistent, NEW p \in Processes, Backfill(p)
  PROVE  SchemaConsistent'
<1> USE DEF SchemaConsistent
<1>1. PICK r \in todo[p] : filled' = filled \cup {r} /\ todo' = [todo EXCEPT ![p] = @ \ {r}]
  BY DEF Backfill
<1>2. UNCHANGED <<version, objects, opening, from, step, interrupted>> /\ todo[p] \subseteq Rows
  BY DEF Backfill, SchemaTypeOK
<1>3. SchemaTypeOK'
  BY <1>1, <1>2 DEF SchemaTypeOK
<1>4. /\ todo'[p] = todo[p] \ {r} /\ \A q \in Processes \ {p} : todo'[q] = todo[q]
  BY <1>1 DEF SchemaTypeOK
<1>5. \A q \in Processes : Migrating(q)' = Migrating(q) /\ Busy(q)' = Busy(q)
  BY <1>2 DEF Migrating, Busy
<1>6. \A q \in Processes : Migrating(q)' => MigratingOK(q)'
  <2> SUFFICES ASSUME NEW q \in Processes, Migrating(q)' PROVE MigratingOK(q)'
    OBVIOUS
  <2>1. MigratingOK(q)
    BY <1>5
  <2>2. filled \cup todo[q] = Rows => filled' \cup todo'[q] = Rows
    BY <1>1, <1>2, <1>4
  <2> QED BY <2>1, <2>2, <1>2 DEF MigratingOK, BusyOK
<1>7. filled = Rows => filled' = Rows
  BY <1>1, <1>2
<1> QED BY <1>2, <1>3, <1>5, <1>6, <1>7 DEF AtRest

\* The version is set when all that it says is there.
LEMMA SetVersionConsistent ==
  ASSUME SchemaConsistent, NEW p \in Processes, SetVersion(p)
  PROVE  SchemaConsistent'
<1> USE DEF SchemaConsistent
<1> DEFINE v == from[p]
<1>1. /\ Migrating(p) /\ MigratingOK(p) /\ v \in Versions /\ step[p] \in Nat \ {0}
      /\ ~(step[p] <= Len(Script(v))) /\ Len(Script(v)) \in Nat \ {0}
      /\ UNCHANGED <<objects, filled, interrupted>>
  BY ScriptLengths DEF SchemaTypeOK, SetVersion, AtScript
<1>2. Busy(p) /\ BusyOK(p) /\ step[p] = Len(Script(v)) + 1
  BY <1>1 DEF Busy, MigratingOK, BusyOK
<1>3. /\ version = v /\ version' = Reached(p) /\ version' \in 1..4 /\ v < version'
      /\ version' = IF v = 0 THEN 4 ELSE v + 1
  BY <1>1, <1>2 DEF BusyOK, SetVersion, Reached, SchemaVersion, Versions
<1>4. objects' = Provided(version')
  <2>1. objects = Provided(v) \cup Creates(Script(v))
    BY <1>1, <1>2, <1>3, DoneGrows DEF BusyOK
  <2> QED BY <2>1, <1>1, <1>3, ScriptsComplete
<1>5. \A q \in Processes \ {p} : ~Busy(q)
  BY <1>2
<1>6. \A q \in Processes : opening[q] # "open"
  BY <1>1, <1>3 DEF Versions, SchemaVersion
<1>7. v = 2 => filled = Rows
  BY <1>1 DEF SetVersion, Backfilling, MigratingOK, AtScript
<1>8. version' \in {0, 3, 4, 5} => filled' = Rows
  BY <1>1, <1>3, <1>7 DEF Versions, SchemaVersion
<1>9. AtRest'
  BY <1>3, <1>4 DEF AtRest, SchemaVersion
<1>10. /\ \A q \in Processes \ {p} : /\ opening'[q] = opening[q] /\ from'[q] = from[q]
                                    /\ step'[q] = step[q] /\ todo'[q] = todo[q]
      /\ step'[p] = 1
  BY DEF SchemaTypeOK, SetVersion, Leave, Become
<1>11. \A q \in Processes \ {p} : Migrating(q)' = Migrating(q) /\ Busy(q)' = Busy(q)
  BY <1>10 DEF Migrating, Busy
<1>12. \A q \in Processes : ~Busy(q)'
  BY <1>5, <1>10, <1>11 DEF Busy
<1>13. \A q \in Processes : ~Migrating(q)' => step'[q] = 1
  BY <1>10, <1>11
<1>14. ASSUME NEW q \in Processes \ {p}, Migrating(q)'
       PROVE  MigratingOK(q)'
  <2>1. MigratingOK(q) /\ ~(step[q] > 1) /\ from[q] \in Versions
    BY <1>5, <1>11, <1>14 DEF Busy, SchemaTypeOK
  <2> QED BY <2>1, <1>1, <1>3, <1>10 DEF MigratingOK, Versions, SchemaVersion
<1>15. CASE Reached(p) = SchemaVersion /\ Leave(p, "open")
  <2>1. SchemaTypeOK'
    BY <1>1, <1>3, <1>15 DEF SchemaTypeOK, Leave, Become, Versions, SchemaVersion, Places
  <2>2. ~Migrating(p)'
    BY <1>15 DEF SchemaTypeOK, Leave, Become, Migrating
  <2>3. \A q \in Processes : opening'[q] = "open" => version' = SchemaVersion
    BY <1>3, <1>15
  <2> QED BY <2>1, <2>2, <2>3, <1>8, <1>9, <1>12, <1>13, <1>14
<1>16. ASSUME Reached(p) # SchemaVersion, from' = [from EXCEPT ![p] = Reached(p)],
              step' = [step EXCEPT ![p] = 1], UNCHANGED <<opening, todo>>
       PROVE  SchemaConsistent'
  <2>1. Reached(p) \in Versions /\ Reached(p) = v + 1
    BY <1>3, <1>16 DEF Reached, Versions, SchemaVersion
  <2>2. SchemaTypeOK'
    BY <1>1, <1>3, <1>16, <2>1 DEF SchemaTypeOK, SchemaVersion
  <2>3. MigratingOK(p)'
    <3>1. from'[p] = version' /\ todo'[p] = todo[p]
      BY <1>3, <1>16 DEF SchemaTypeOK
    <3>2. from'[p] \in {1, 2} => filled \cup todo[p] = Rows
      BY <3>1, <1>1, <1>3, <2>1 DEF MigratingOK, Versions, SchemaVersion
    <3> QED BY <3>1, <3>2, <1>1, <1>3, <1>10 DEF MigratingOK, SchemaVersion
  <2>4. \A q \in Processes : opening'[q] # "open"
    BY <1>6, <1>16
  <2> QED BY <2>2, <2>3, <2>4, <1>8, <1>9, <1>12, <1>13, <1>14
<1> QED BY <1>15, <1>16 DEF SetVersion

\* Each step of the opening keeps the invariant.
LEMMA SchemaStep ==
  ASSUME SchemaConsistent, [Next]_databaseVars
  PROVE  SchemaConsistent'
<1>1. CASE NextSchema
  BY <1>1, OpenConsistent, ExecuteConsistent, RefuseConsistent, BackfillConsistent,
     SetVersionConsistent, InterruptConsistent
  DEF NextSchema, Migrate
<1>2. CASE UNCHANGED schemaVars
  <2>1. \A p \in Processes : Migrating(p)' = Migrating(p) /\ Busy(p)' = Busy(p)
    BY <1>2 DEF schemaVars, Migrating, Busy
  <2>2. \A p \in Processes : MigratingOK(p)' = MigratingOK(p)
    BY <1>2 DEF schemaVars, MigratingOK, BusyOK
  <2>3. SchemaTypeOK' /\ AtRest' = AtRest
    BY <1>2 DEF SchemaConsistent, SchemaTypeOK, AtRest, schemaVars
  <2> QED BY <1>2, <2>1, <2>2, <2>3 DEF SchemaConsistent, schemaVars
<1> QED BY <1>1, <1>2 DEF Next, databaseVars

\* At every moment each process that migrates is at a version of the past and can no
\* longer take the lock, or holds it and has done what its script says up to its step:
\* what _initialize relies on when it executes its statements one by one.
THEOREM AlwaysSchemaConsistent == Spec => []SchemaConsistent
<1>1. Init => SchemaConsistent
  BY SchemaInit DEF Init
<1>2. SchemaConsistent /\ [Next]_databaseVars => SchemaConsistent'
  BY SchemaStep
<1> QED BY <1>1, <1>2, PTL DEF Spec

\* The invariant implies that the version is honest.
LEMMA ConsistentIsHonest ==
  ASSUME SchemaConsistent
  PROVE  VersionIsHonest
<1> USE DEF SchemaConsistent
<1>1. version \in 0..5 /\ SchemaVersion = 4
  BY DEF SchemaTypeOK, SchemaVersion
<1>2. version <= SchemaVersion => Provided(version) \subseteq objects
  BY ProvidedIsThere
<1>3. version >= 3 => filled = Rows
  BY <1>1
<1>4. \/ interrupted \/ version > SchemaVersion \/ objects = Provided(version)
      \/ \E p \in Processes : Migrating(p) /\ step[p] > 1
  BY <1>1 DEF AtRest, Busy
<1>5. ASSUME NEW p \in Processes, opening[p] = "open"
      PROVE  objects = Provided(SchemaVersion) /\ filled = Rows
  <2>1. version = SchemaVersion
    BY <1>5
  <2>2. \A q \in Processes : ~Busy(q)
    <3> SUFFICES ASSUME NEW q \in Processes, Busy(q) PROVE FALSE
      OBVIOUS
    <3>1. version = from[q] /\ from[q] \in Versions
      BY DEF SchemaTypeOK, Busy, MigratingOK, BusyOK
    <3> QED BY <3>1, <2>1 DEF Versions, SchemaVersion
  <2>3. AtRest
    BY <2>2
  <2> QED BY <2>1, <2>3, <1>1, <1>3 DEF AtRest
<1> QED BY <1>2, <1>3, <1>4, <1>5 DEF VersionIsHonest

\* The database says of itself what is true, whoever ended where.
THEOREM HonestVersion == Spec => []VersionIsHonest
  BY AlwaysSchemaConsistent, ConsistentIsHonest, PTL

\* The invariant implies that one process migrates.
LEMMA ConsistentIsLocked ==
  ASSUME SchemaConsistent
  PROVE  OneMigrates
<1> DEFINE S == {p \in Processes : Migrating(p) /\ step[p] > 1}
<1>1. CASE S = {}
  BY <1>1, FS_EmptySet DEF OneMigrates
<1>2. CASE S # {}
  <2>1. PICK p \in S : TRUE
    BY <1>2
  <2>2. S = {p}
    BY <2>1 DEF SchemaConsistent, Busy
  <2>3. Cardinality({p}) = 1
    BY FS_Singleton
  <2> QED BY <2>2, <2>3 DEF OneMigrates
<1> QED BY <1>1, <1>2

\* Processes that migrate at the same time do not mix their statements.
THEOREM LockedMigration == Spec => []OneMigrates
  BY AlwaysSchemaConsistent, ConsistentIsLocked, PTL

-----------------------------------------------------------------------------
(* The capability rows, step by step *)

\* A recorded result counts once, as what it was.
LEMMA ResultTyped ==
  ASSUME NEW row \in RowType, NEW succeeded \in BOOLEAN, NEW state \in Statuses,
         NEW latency \in Nat
  PROVE  /\ Result(row, succeeded, state, latency) \in RowType
         /\ Result(row, succeeded, state, latency).successes
              = IF succeeded THEN row.successes + 1 ELSE row.successes
         /\ Result(row, succeeded, state, latency).failures
              = IF succeeded THEN row.failures ELSE row.failures + 1
         /\ Result(row, succeeded, state, latency).status = state
         /\ Result(row, succeeded, state, latency).latency = row.latency + latency
         /\ Result(row, succeeded, state, latency).declared = row.declared
<1> DEFINE s == IF succeeded THEN row.successes + 1 ELSE row.successes
           f == IF succeeded THEN row.failures ELSE row.failures + 1
           l == row.latency + latency
<1>1. /\ row.successes \in Nat /\ row.failures \in Nat /\ row.latency \in Nat
      /\ row.declared \in BOOLEAN
  BY DEF RowType
<1>2. s \in Nat /\ f \in Nat /\ l \in Nat
  BY <1>1
<1>3. Result(row, succeeded, state, latency) =
        [row EXCEPT !.successes = s, !.failures = f, !.latency = l, !.status = state]
  BY DEF Result
<1> HIDE DEF s, f, l
<1>4. Result(row, succeeded, state, latency) =
        [status |-> state, successes |-> s, failures |-> f, latency |-> l,
         declared |-> row.declared]
  BY <1>3 DEF RowType
<1>5. Result(row, succeeded, state, latency) \in RowType
  BY <1>1, <1>2, <1>4 DEF RowType
<1> QED BY <1>4, <1>5 DEF s, f, l

\* A pair of counts of which one is counted further.
LEMMA CountingAdds ==
  ASSUME NEW pair \in Nat \X Nat, NEW succeeded \in BOOLEAN
  PROVE  /\ Counting(pair, succeeded) \in Nat \X Nat
         /\ Counting(pair, succeeded)[1] = IF succeeded THEN pair[1] + 1 ELSE pair[1]
         /\ Counting(pair, succeeded)[2] = IF succeeded THEN pair[2] ELSE pair[2] + 1
  BY DEF Counting

\* What is recorded is counted in the row as in the history.
LEMMA RecordCounts ==
  ASSUME CapabilityTypeOK, NEW e \in Executors, NEW succeeded \in BOOLEAN,
         NEW state \in Statuses, NEW latency \in Nat, Record(e, succeeded, state, latency)
  PROVE  /\ rows' \in [Executors -> RowType] /\ made' \in [Executors -> Nat \X Nat]
         /\ rows'[e].status = state
         /\ rows'[e].successes = IF succeeded THEN rows[e].successes + 1 ELSE rows[e].successes
         /\ rows'[e].failures = IF succeeded THEN rows[e].failures ELSE rows[e].failures + 1
         /\ made'[e][1] = IF succeeded THEN made[e][1] + 1 ELSE made[e][1]
         /\ made'[e][2] = IF succeeded THEN made[e][2] ELSE made[e][2] + 1
         /\ \A f \in Executors \ {e} : rows'[f] = rows[f] /\ made'[f] = made[f]
<1> DEFINE new == Result(rows[e], succeeded, state, latency)
           more == Counting(made[e], succeeded)
<1>1. rows[e] \in RowType /\ made[e] \in Nat \X Nat
  BY DEF CapabilityTypeOK
<1>2. /\ new \in RowType /\ new.status = state
      /\ new.successes = IF succeeded THEN rows[e].successes + 1 ELSE rows[e].successes
      /\ new.failures = IF succeeded THEN rows[e].failures ELSE rows[e].failures + 1
  BY <1>1, ResultTyped
<1>3. /\ more \in Nat \X Nat
      /\ more[1] = IF succeeded THEN made[e][1] + 1 ELSE made[e][1]
      /\ more[2] = IF succeeded THEN made[e][2] ELSE made[e][2] + 1
  BY <1>1, CountingAdds
<1>4. rows' = [rows EXCEPT ![e] = new] /\ made' = [made EXCEPT ![e] = more]
  BY DEF Record
<1> HIDE DEF new, more
<1>5. /\ rows' \in [Executors -> RowType] /\ rows'[e] = new
      /\ \A f \in Executors \ {e} : rows'[f] = rows[f]
  BY <1>2, <1>4 DEF CapabilityTypeOK
<1>6. /\ made' \in [Executors -> Nat \X Nat] /\ made'[e] = more
      /\ \A f \in Executors \ {e} : made'[f] = made[f]
  BY <1>3, <1>4 DEF CapabilityTypeOK
<1> QED BY <1>2, <1>3, <1>5, <1>6

\* A step of one job disturbs what the others rely on only where it records.
LEMMA OneJobSteps ==
  ASSUME RowsConsistent, NEW j \in Jobs, CapabilityTypeOK', NothingForgotten',
         \A i \in Jobs \ {j} : at'[i] = at[i] /\ seen'[i] = seen[i] /\ codexMay'[i] = codexMay[i],
         at'[j] = "merging" => Remembered(seen[j])',
         at'[j] = "routing" => rows'["codex"].status \notin {"cooling", "unavailable"},
         at'[j] = "blocked" /\ codexMay'[j] => j \in spoiled',
         spoiled \subseteq spoiled',
         \/ made'["host"] = made["host"] /\ overtaken' = overtaken
         \/ \A i \in Jobs : at[i] = "merging" => Remembered(seen[i])',
         \/ rows'["codex"] = rows["codex"]
         \/ rows'["codex"].status \notin {"cooling", "unavailable"}
         \/ \A i \in Jobs : at[i] = "routing" => i \in spoiled'
  PROVE  RowsConsistent'
<1> USE DEF RowsConsistent
<1>1. MergesKept'
  <2> SUFFICES ASSUME NEW i \in Jobs, at'[i] = "merging"
               PROVE  Remembered(seen[i])'
    BY DEF MergesKept
  <2> QED BY DEF MergesKept, Remembered
<1>2. PlannedHealthy'
  <2> SUFFICES ASSUME NEW i \in Jobs, at'[i] = "routing"
               PROVE  i \in spoiled' \/ rows'["codex"].status \notin {"cooling", "unavailable"}
    BY DEF PlannedHealthy
  <2> QED BY DEF PlannedHealthy
<1>3. RoutingFailsForCause'
  BY DEF RoutingFailsForCause
<1> QED BY <1>1, <1>2, <1>3

\* A job that ends is done, and the others go on.
LEMMA FinishTyped ==
  ASSUME CapabilityTypeOK, NEW j \in Jobs, Finish(j)
  PROVE  /\ at' \in [Jobs -> Stations] /\ duration' \in [Jobs -> Nat] /\ seen' \in [Jobs -> RowType]
         /\ kind' = [i \in Jobs |-> kind'[i]] /\ at'[j] = "done"
         /\ \A i \in Jobs \ {j} : at'[i] = at[i] /\ seen'[i] = seen[i]
<1>1. NoRow \in RowType
  BY CapabilitiesAssumption
<1>2. at' \in [Jobs -> Stations] /\ duration' \in [Jobs -> Nat] /\ at'[j] = "done"
  BY DEF CapabilityTypeOK, Finish, GoTo, Stations
<1>3. seen' \in [Jobs -> RowType]
  BY <1>1 DEF CapabilityTypeOK, Finish
<1>4. kind' = [i \in Jobs |-> kind'[i]]
  BY DEF CapabilityTypeOK, Finish
<1>5. \A i \in Jobs \ {j} : at'[i] = at[i] /\ seen'[i] = seen[i]
  BY DEF CapabilityTypeOK, Finish, GoTo
<1> QED BY <1>2, <1>3, <1>4, <1>5

\* A job that goes on leaves the others where they are.
LEMMA GoToTyped ==
  ASSUME CapabilityTypeOK, NEW j \in Jobs, NEW place \in Stations, GoTo(j, place)
  PROVE  /\ at' \in [Jobs -> Stations] /\ at'[j] = place
         /\ \A i \in Jobs \ {j} : at'[i] = at[i]
  BY DEF CapabilityTypeOK, GoTo

\* A step that records nothing, and leads its job neither to merge nor to route.
LEMMA QuietSteps ==
  ASSUME RowsConsistent, NEW j \in Jobs, CapabilityTypeOK',
         UNCHANGED <<rows, codexMay, made, overtaken, spoiled>>,
         \A i \in Jobs \ {j} : at'[i] = at[i] /\ seen'[i] = seen[i],
         at'[j] \notin {"merging", "routing", "blocked"}
  PROVE  RowsConsistent'
<1>1. NothingForgotten'
  BY DEF RowsConsistent, NothingForgotten
<1> QED BY <1>1, OneJobSteps

\* A job that begins has recorded nothing.
LEMMA BeginKeepsRows ==
  ASSUME RowsConsistent, NEW j \in Jobs, Begin(j)
  PROVE  RowsConsistent'
<1>1. PICK k \in {"plan", "work", "review", "claim", "submit"} :
        /\ kind' = [kind EXCEPT ![j] = k]
        /\ GoTo(j, CASE k = "claim" -> "touching" [] k = "submit" -> "submitting"
                     [] OTHER -> "invoking")
  BY DEF Begin
<1>2. PICK place \in {"touching", "submitting", "invoking"} : GoTo(j, place)
  BY <1>1
<1>3. /\ at' \in [Jobs -> Stations] /\ at'[j] = place /\ \A i \in Jobs \ {j} : at'[i] = at[i]
  BY <1>2, GoToTyped DEF RowsConsistent, Stations
<1>4. CapabilityTypeOK'
  BY <1>1, <1>3 DEF Begin, RowsConsistent, CapabilityTypeOK
<1> QED BY <1>3, <1>4, QuietSteps DEF Begin

\* An answer that was not recorded yet changes no row.
LEMMA AnswerKeepsRows ==
  ASSUME RowsConsistent, NEW j \in Jobs, Answer(j)
  PROVE  RowsConsistent'
<1>1. CapabilityTypeOK /\ UNCHANGED <<rows, codexMay, made, overtaken, spoiled>>
  BY DEF Answer, RowsConsistent
<1>2. ASSUME GoTo(j, "answered"), NEW d \in Durations, duration' = [duration EXCEPT ![j] = d],
             UNCHANGED <<kind, seen>>
      PROVE  RowsConsistent'
  <2>1. /\ at' \in [Jobs -> Stations] /\ at'[j] = "answered"
        /\ \A i \in Jobs \ {j} : at'[i] = at[i]
    BY <1>1, <1>2, GoToTyped DEF Stations
  <2>2. duration' \in [Jobs -> Nat]
    BY <1>1, <1>2, CapabilitiesAssumption DEF CapabilityTypeOK
  <2>3. CapabilityTypeOK'
    BY <1>1, <1>2, <2>1, <2>2 DEF CapabilityTypeOK
  <2> QED BY <1>1, <1>2, <2>1, <2>3, QuietSteps
<1>3. ASSUME GoTo(j, "erring"), UNCHANGED <<kind, duration, seen>>
      PROVE  RowsConsistent'
  <2>1. /\ at' \in [Jobs -> Stations] /\ at'[j] = "erring"
        /\ \A i \in Jobs \ {j} : at'[i] = at[i]
    BY <1>1, <1>3, GoToTyped DEF Stations
  <2>2. CapabilityTypeOK'
    BY <1>1, <1>3, <2>1 DEF CapabilityTypeOK
  <2> QED BY <1>1, <1>3, <2>1, <2>2, QuietSteps
<1>4. ASSUME Finish(j)
      PROVE  RowsConsistent'
  <2>1. CapabilityTypeOK'
    BY <1>1, <1>4, FinishTyped DEF CapabilityTypeOK
  <2> QED BY <1>1, <1>4, <2>1, FinishTyped, QuietSteps
<1> QED BY <1>2, <1>3, <1>4 DEF Answer

\* The tokens of an invocation are no result.
LEMMA RecordUsageKeepsRows ==
  ASSUME RowsConsistent, NEW j \in Jobs, RecordUsage(j)
  PROVE  RowsConsistent'
<1>1. CapabilityTypeOK /\ UNCHANGED <<rows, codexMay, made, overtaken, spoiled>>
  BY DEF RecordUsage, RowsConsistent
<1>2. ASSUME GoTo(j, "counted"), UNCHANGED <<kind, duration, seen>>
      PROVE  RowsConsistent'
  <2>1. /\ at' \in [Jobs -> Stations] /\ at'[j] = "counted"
        /\ \A i \in Jobs \ {j} : at'[i] = at[i]
    BY <1>1, <1>2, GoToTyped DEF Stations
  <2>2. CapabilityTypeOK'
    BY <1>1, <1>2, <2>1 DEF CapabilityTypeOK
  <2> QED BY <1>1, <1>2, <2>1, <2>2, QuietSteps
<1>3. ASSUME Finish(j)
      PROVE  RowsConsistent'
  <2>1. CapabilityTypeOK'
    BY <1>1, <1>3, FinishTyped DEF CapabilityTypeOK
  <2> QED BY <1>1, <1>3, <2>1, FinishTyped, QuietSteps
<1> QED BY <1>2, <1>3 DEF RecordUsage

\* What is recorded of Codex is counted, and what the host's jobs hold is not touched.
LEMMA CodexRecorded ==
  ASSUME RowsConsistent, NEW succeeded \in BOOLEAN, NEW state \in Statuses, NEW latency \in Nat,
         Record("codex", succeeded, state, latency), UNCHANGED overtaken
  PROVE  /\ rows' \in [Executors -> RowType] /\ made' \in [Executors -> Nat \X Nat]
         /\ rows'["codex"].status = state /\ made'["host"] = made["host"] /\ NothingForgotten'
<1>1. "codex" \in Executors /\ "host" \in Executors \ {"codex"}
  BY DEF Executors
<1>2. CapabilityTypeOK /\ NothingForgotten
  BY DEF RowsConsistent
<1>3. /\ rows' \in [Executors -> RowType] /\ made' \in [Executors -> Nat \X Nat]
      /\ rows'["codex"].status = state
      /\ rows'["codex"].successes
           = IF succeeded THEN rows["codex"].successes + 1 ELSE rows["codex"].successes
      /\ rows'["codex"].failures
           = IF succeeded THEN rows["codex"].failures ELSE rows["codex"].failures + 1
      /\ made'["codex"][1] = IF succeeded THEN made["codex"][1] + 1 ELSE made["codex"][1]
      /\ made'["codex"][2] = IF succeeded THEN made["codex"][2] ELSE made["codex"][2] + 1
      /\ rows'["host"] = rows["host"] /\ made'["host"] = made["host"]
  BY <1>1, <1>2, RecordCounts
<1>4. <<rows'["codex"].successes, rows'["codex"].failures>> = made'["codex"]
  <2>1. made["codex"][1] = rows["codex"].successes /\ made["codex"][2] = rows["codex"].failures
    BY <1>2 DEF NothingForgotten
  <2>2. made'["codex"] = <<made'["codex"][1], made'["codex"][2]>>
    BY <1>1, <1>3
  <2> QED BY <1>3, <2>1, <2>2
<1>5. NothingForgotten'
  BY <1>2, <1>3, <1>4 DEF NothingForgotten
<1> QED BY <1>3, <1>5

\* An answer is recorded in one transaction.
LEMMA RecordAnswerKeepsRows ==
  ASSUME RowsConsistent, NEW j \in Jobs, RecordAnswer(j)
  PROVE  RowsConsistent'
<1>1. CapabilityTypeOK /\ UNCHANGED <<codexMay, overtaken, spoiled>>
  BY DEF RecordAnswer, RowsConsistent
<1>2. /\ duration[j] \in Nat /\ 0 \in Nat /\ TRUE \in BOOLEAN /\ FALSE \in BOOLEAN
      /\ "healthy" \in Statuses /\ "constrained" \in Statuses
  BY <1>1 DEF CapabilityTypeOK, Statuses
<1>3. ASSUME Record("codex", TRUE, "healthy", duration[j]), GoTo(j, "routing"),
             UNCHANGED <<kind, duration, seen>>
      PROVE  RowsConsistent'
  <2>1. /\ rows' \in [Executors -> RowType] /\ made' \in [Executors -> Nat \X Nat]
        /\ rows'["codex"].status = "healthy" /\ made'["host"] = made["host"] /\ NothingForgotten'
    BY <1>1, <1>2, <1>3, CodexRecorded
  <2>2. /\ at' \in [Jobs -> Stations] /\ at'[j] = "routing"
        /\ \A i \in Jobs \ {j} : at'[i] = at[i]
    BY <1>1, <1>3, GoToTyped DEF Stations
  <2>3. CapabilityTypeOK'
    BY <1>1, <1>3, <2>1, <2>2 DEF CapabilityTypeOK
  <2> QED BY <1>1, <1>3, <2>1, <2>2, <2>3, OneJobSteps
<1>4. ASSUME NEW succeeded \in BOOLEAN, NEW state \in {"healthy", "constrained"},
             NEW latency \in Nat, Record("codex", succeeded, state, latency), Finish(j)
      PROVE  RowsConsistent'
  <2>1. /\ rows' \in [Executors -> RowType] /\ made' \in [Executors -> Nat \X Nat]
        /\ rows'["codex"].status = state /\ made'["host"] = made["host"] /\ NothingForgotten'
    BY <1>1, <1>2, <1>4, CodexRecorded
  <2>2. CapabilityTypeOK'
    BY <1>1, <1>4, <2>1, FinishTyped DEF CapabilityTypeOK
  <2>3. at'[j] = "done" /\ \A i \in Jobs \ {j} : at'[i] = at[i] /\ seen'[i] = seen[i]
    BY <1>1, <1>4, FinishTyped
  <2> QED BY <1>1, <2>1, <2>2, <2>3, OneJobSteps
<1> QED BY <1>2, <1>3, <1>4 DEF RecordAnswer

\* A worker's own failure is recorded in one transaction.
LEMMA RecordFailureKeepsRows ==
  ASSUME RowsConsistent, NEW j \in Jobs, RecordFailure(j)
  PROVE  RowsConsistent'
<1>1. /\ CapabilityTypeOK /\ Record("codex", FALSE, "constrained", 0) /\ Finish(j)
      /\ UNCHANGED <<codexMay, overtaken, spoiled>>
  BY DEF RecordFailure, RowsConsistent
<1>2. 0 \in Nat /\ FALSE \in BOOLEAN /\ "constrained" \in Statuses
  BY DEF Statuses
<1>3. /\ rows' \in [Executors -> RowType] /\ made' \in [Executors -> Nat \X Nat]
      /\ rows'["codex"].status = "constrained" /\ made'["host"] = made["host"]
      /\ NothingForgotten'
  BY <1>1, <1>2, CodexRecorded
<1>4. CapabilityTypeOK'
  BY <1>1, <1>3, FinishTyped DEF CapabilityTypeOK
<1>5. at'[j] = "done" /\ \A i \in Jobs \ {j} : at'[i] = at[i] /\ seen'[i] = seen[i]
  BY <1>1, FinishTyped
<1> QED BY <1>1, <1>3, <1>4, <1>5, OneJobSteps

\* An error is recorded in one transaction.
LEMMA RecordErrorKeepsRows ==
  ASSUME RowsConsistent, NEW j \in Jobs, RecordError(j)
  PROVE  RowsConsistent'
<1>1. CapabilityTypeOK /\ UNCHANGED <<codexMay, overtaken>> /\ Finish(j)
  BY DEF RecordError, RowsConsistent
<1>2. PICK state \in {"constrained", "unavailable"} :
        /\ Record("codex", FALSE, state, 0)
        /\ spoiled' = IF state = "constrained" THEN spoiled
                      ELSE spoiled \cup {i \in Jobs : at[i] = "routing"}
  BY DEF RecordError
<1>3. 0 \in Nat /\ state \in Statuses /\ FALSE \in BOOLEAN
  BY DEF Statuses
<1>4. /\ rows' \in [Executors -> RowType] /\ made' \in [Executors -> Nat \X Nat]
      /\ rows'["codex"].status = state /\ made'["host"] = made["host"] /\ NothingForgotten'
  BY <1>1, <1>2, <1>3, CodexRecorded
<1>5. at'[j] = "done" /\ \A i \in Jobs \ {j} : at'[i] = at[i] /\ seen'[i] = seen[i]
  BY <1>1, FinishTyped
<1>6. CapabilityTypeOK'
  BY <1>1, <1>2, <1>4, FinishTyped DEF CapabilityTypeOK
<1>7. spoiled \subseteq spoiled'
  BY <1>2
<1>8. \/ rows'["codex"].status \notin {"cooling", "unavailable"}
      \/ \A i \in Jobs : at[i] = "routing" => i \in spoiled'
  BY <1>2, <1>4
<1> QED BY <1>1, <1>4, <1>5, <1>6, <1>7, <1>8, OneJobSteps

\* A host's result is recorded in one transaction; it overtakes whoever is merging.
LEMMA RecordHostResultKeepsRows ==
  ASSUME RowsConsistent, NEW j \in Jobs, RecordHostResult(j)
  PROVE  RowsConsistent'
<1>1. CapabilityTypeOK /\ UNCHANGED <<codexMay, spoiled>> /\ Finish(j) /\ at[j] = "submitting"
  BY DEF RecordHostResult, RowsConsistent
<1>2. PICK succeeded \in BOOLEAN :
        /\ Record("host", succeeded, IF succeeded THEN "healthy" ELSE "constrained", 0)
        /\ overtaken' = IF \E i \in Jobs : at[i] = "merging" THEN Counting(overtaken, succeeded)
                        ELSE overtaken
  BY DEF RecordHostResult
<1> DEFINE state == IF succeeded THEN "healthy" ELSE "constrained"
<1>3. 0 \in Nat /\ state \in Statuses /\ "host" \in Executors /\ "codex" \in Executors \ {"host"}
  BY DEF Statuses, Executors
<1>4. /\ rows' \in [Executors -> RowType] /\ made' \in [Executors -> Nat \X Nat]
      /\ rows'["codex"] = rows["codex"] /\ made'["codex"] = made["codex"]
      /\ rows'["host"].successes
           = IF succeeded THEN rows["host"].successes + 1 ELSE rows["host"].successes
      /\ rows'["host"].failures
           = IF succeeded THEN rows["host"].failures ELSE rows["host"].failures + 1
      /\ made'["host"][1] = IF succeeded THEN made["host"][1] + 1 ELSE made["host"][1]
      /\ made'["host"][2] = IF succeeded THEN made["host"][2] ELSE made["host"][2] + 1
  <2> HIDE DEF state
  <2>1. Record("host", succeeded, state, 0)
    BY <1>2 DEF state
  <2> QED BY <1>1, <1>3, <2>1, RecordCounts
<1>5. /\ overtaken' \in Nat \X Nat
      /\ overtaken'[1] = overtaken[1] \/ (succeeded /\ overtaken'[1] = overtaken[1] + 1)
      /\ overtaken'[2] = overtaken[2] \/ (~succeeded /\ overtaken'[2] = overtaken[2] + 1)
      /\ (\E i \in Jobs : at[i] = "merging")
           => /\ overtaken'[1] = IF succeeded THEN overtaken[1] + 1 ELSE overtaken[1]
              /\ overtaken'[2] = IF succeeded THEN overtaken[2] ELSE overtaken[2] + 1
  <2>1. overtaken \in Nat \X Nat
    BY <1>1 DEF CapabilityTypeOK
  <2> QED BY <1>2, <2>1, CountingAdds
<1>6. /\ made["host"][1] \in Nat /\ made["host"][2] \in Nat
      /\ overtaken[1] \in Nat /\ overtaken[2] \in Nat
  BY <1>1, <1>3 DEF CapabilityTypeOK
<1>7. NothingForgotten'
  <2>1. NothingForgotten
    BY DEF RowsConsistent
  <2>2. <<rows'["codex"].successes, rows'["codex"].failures>> = made'["codex"]
    BY <1>4, <2>1 DEF NothingForgotten
  <2>3. rows'["host"].successes \in (made'["host"][1] - overtaken'[1])..made'["host"][1]
    BY <1>4, <1>5, <1>6, <2>1 DEF NothingForgotten
  <2>4. rows'["host"].failures \in (made'["host"][2] - overtaken'[2])..made'["host"][2]
    BY <1>4, <1>5, <1>6, <2>1 DEF NothingForgotten
  <2> QED BY <2>2, <2>3, <2>4 DEF NothingForgotten
<1>8. at'[j] = "done" /\ \A i \in Jobs \ {j} : at'[i] = at[i] /\ seen'[i] = seen[i]
  BY <1>1, FinishTyped
<1>9. ASSUME NEW i \in Jobs, at[i] = "merging"
      PROVE  Remembered(seen[i])'
  <2>1. Remembered(seen[i])
    BY <1>9 DEF RowsConsistent, MergesKept
  <2>2. seen'[i] = seen[i]
    BY <1>1, <1>8, <1>9
  <2>3. /\ overtaken'[1] = IF succeeded THEN overtaken[1] + 1 ELSE overtaken[1]
        /\ overtaken'[2] = IF succeeded THEN overtaken[2] ELSE overtaken[2] + 1
    BY <1>5, <1>9
  <2>4. seen'[i].successes \in (made'["host"][1] - overtaken'[1])..made'["host"][1]
    BY <1>4, <1>6, <2>1, <2>2, <2>3 DEF Remembered
  <2>5. seen'[i].failures \in (made'["host"][2] - overtaken'[2])..made'["host"][2]
    BY <1>4, <1>6, <2>1, <2>2, <2>3 DEF Remembered
  <2> QED BY <2>4, <2>5 DEF Remembered
<1>10. CapabilityTypeOK'
  BY <1>1, <1>4, <1>5, FinishTyped DEF CapabilityTypeOK
<1> QED BY <1>1, <1>4, <1>7, <1>8, <1>9, <1>10, OneJobSteps

\* What a touch reads lacks what the row does.
LEMMA ReadHostKeepsRows ==
  ASSUME RowsConsistent, NEW j \in Jobs, ReadHost(j)
  PROVE  RowsConsistent'
<1>1. /\ CapabilityTypeOK /\ seen' = [seen EXCEPT ![j] = rows["host"]] /\ GoTo(j, "merging")
      /\ UNCHANGED <<rows, kind, duration, codexMay, made, overtaken, spoiled>>
  BY DEF ReadHost, RowsConsistent
<1>2. rows["host"] \in RowType /\ "host" \in Executors
  BY <1>1 DEF CapabilityTypeOK, Executors
<1>3. /\ at' \in [Jobs -> Stations] /\ at'[j] = "merging" /\ \A i \in Jobs \ {j} : at'[i] = at[i]
  BY <1>1, GoToTyped DEF Stations
<1>4. /\ seen' \in [Jobs -> RowType] /\ seen'[j] = rows["host"]
      /\ \A i \in Jobs \ {j} : seen'[i] = seen[i]
  BY <1>1, <1>2 DEF CapabilityTypeOK
<1>5. CapabilityTypeOK'
  BY <1>1, <1>3, <1>4 DEF CapabilityTypeOK
<1>6. NothingForgotten'
  BY <1>1 DEF RowsConsistent, NothingForgotten
<1>7. Remembered(seen[j])'
  BY <1>1, <1>2, <1>4 DEF RowsConsistent, NothingForgotten, Remembered
<1> QED BY <1>1, <1>3, <1>4, <1>5, <1>6, <1>7, OneJobSteps

\* What a touch writes lacks no more than what was overtaken.
LEMMA WriteHostKeepsRows ==
  ASSUME RowsConsistent, NEW j \in Jobs, WriteHost(j)
  PROVE  RowsConsistent'
<1>1. /\ CapabilityTypeOK /\ Finish(j) /\ at[j] = "merging"
      /\ rows' = [rows EXCEPT !["host"] = [seen[j] EXCEPT !.status = "healthy"]]
      /\ UNCHANGED <<codexMay, made, overtaken, spoiled>>
  BY DEF WriteHost, RowsConsistent
<1> DEFINE new == [seen[j] EXCEPT !.status = "healthy"]
<1>2. seen[j] \in RowType
  BY <1>1 DEF CapabilityTypeOK
<1>3. new \in RowType /\ new.successes = seen[j].successes /\ new.failures = seen[j].failures
  BY <1>2 DEF RowType, Statuses
<1> HIDE DEF new
<1>4. /\ rows' \in [Executors -> RowType] /\ rows'["host"] = new /\ rows'["codex"] = rows["codex"]
  BY <1>1, <1>3 DEF CapabilityTypeOK, Executors, new
<1>5. NothingForgotten'
  <2>1. Remembered(seen[j])
    BY <1>1 DEF RowsConsistent, MergesKept
  <2> QED BY <1>1, <1>3, <1>4, <2>1
        DEF RowsConsistent, NothingForgotten, Remembered, Executors
<1>6. CapabilityTypeOK'
  BY <1>1, <1>4, FinishTyped DEF CapabilityTypeOK
<1>7. at'[j] = "done" /\ \A i \in Jobs \ {j} : at'[i] = at[i] /\ seen'[i] = seen[i]
  BY <1>1, FinishTyped
<1> QED BY <1>1, <1>4, <1>5, <1>6, <1>7, OneJobSteps

-----------------------------------------------------------------------------
(* The scores *)

\* A task's requirements are finitely many.
LEMMA CountsAreNumbers ==
  ASSUME NEW S \in SUBSET (Constraints \cup Abilities), NEW T
  PROVE  Cardinality(S \cap T) \in Nat
<1>1. \A a, b : IsFiniteSet({a} \cup {b})
  BY FS_Singleton, FS_AddElement
<1>2. \A a, b, c, d : IsFiniteSet(({a} \cup {b}) \cup ({c} \cup {d}))
  BY <1>1, FS_Union
<1>3. IsFiniteSet((({"executor:codex"} \cup {"executor:host"})
                    \cup ({"executor: codex"} \cup {"executor:other"}))
                  \cup (({"testing"} \cup {"browser"}) \cup ({"declared"} \cup {"unknown"})))
  BY <1>2, FS_Union
<1>4. Constraints \cup Abilities =
        (({"executor:codex"} \cup {"executor:host"})
           \cup ({"executor: codex"} \cup {"executor:other"}))
        \cup (({"testing"} \cup {"browser"}) \cup ({"declared"} \cup {"unknown"}))
  BY DEF Constraints, Abilities
<1>5. IsFiniteSet(Constraints \cup Abilities)
  BY <1>3, <1>4
<1>6. S \cap T \in SUBSET (Constraints \cup Abilities)
  OBVIOUS
<1> QED BY <1>5, <1>6, FS_Subset, FS_CardinalityType

\* The part of a score for the requirements is a number.
LEMMA RequirementsAreNumbers ==
  ASSUME NEW task, NEW e \in Executors, NEW row
  PROVE  RequirementScore(task, e, row) \in Int
<1> DEFINE count(S) == Cardinality(S \cap task.requires)
           met == {c \in Constraints : Spelled(c, e)}
<1>1. /\ met \in SUBSET (Constraints \cup Abilities)
      /\ Constraints \ met \in SUBSET (Constraints \cup Abilities)
      /\ Abilities \ Has(e, row) \in SUBSET (Constraints \cup Abilities)
      /\ Has(e, row) \in SUBSET (Constraints \cup Abilities)
  BY DEF Has, Builtin, Executors, Abilities
<1>2. /\ count(met) \in Nat /\ count(Constraints \ met) \in Nat
      /\ count(Has(e, row)) \in Nat /\ count(Abilities \ Has(e, row)) \in Nat
  BY <1>1, CountsAreNumbers
<1>3. RequirementScore(task, e, row) =
        10 * count(met) - 10000 * count(Constraints \ met)
          + 5 * count(Has(e, row)) - 15 * count(Abilities \ Has(e, row))
  BY DEF RequirementScore
<1> HIDE DEF count, met
<1> QED BY <1>2, <1>3

\* The part of a score in tenths is a number.
LEMMA TenthsAreNumbers ==
  ASSUME NEW task \in TaskSpecs, NEW e \in Executors, NEW row \in RowType
  PROVE  Tenths(task, e, row) \in Int
<1>1. task.kind \in Kinds /\ task.risk \in Risks /\ row.status \in Statuses
  BY DEF TaskSpecs, RowType
<1>2. KindFit[e][task.kind] \in Int
  BY <1>1 DEF KindFit, Kinds, Executors
<1>3. RiskScore[e][task.risk] \in Int
  BY <1>1 DEF RiskScore, Risks, Executors
<1>4. AvailabilityScore[row.status] \in Int
  BY <1>1 DEF AvailabilityScore, Statuses
<1>5. RequirementScore(task, e, row) \in Int
  BY RequirementsAreNumbers
<1> QED BY <1>2, <1>3, <1>4, <1>5 DEF Tenths

\* A score is a fraction.
LEMMA ScoresAreNumbers ==
  ASSUME NEW task \in TaskSpecs, NEW e \in Executors, NEW row \in RowType
  PROVE  Numerator(task, e, row) \in Int /\ Denominator(row) \in Nat \ {0}
<1>1. /\ row.successes \in Nat /\ row.failures \in Nat /\ row.latency \in Nat
      /\ Attempts(row) \in Nat
  BY DEF RowType, Attempts
<1>2. AtLeast1(Attempts(row)) \in Nat \ {0} /\ OutcomeDenominator(row) \in Nat \ {0}
  BY <1>1 DEF AtLeast1, OutcomeDenominator
<1>3. Denominator(row) \in Nat \ {0}
  <2> DEFINE a == AtLeast1(Attempts(row))
             b == OutcomeDenominator(row)
  <2>1. \A x, y \in Nat \ {0} : x * y \in Nat \ {0}
    OBVIOUS
  <2> QED BY <1>2, <2>1 DEF Denominator
<1>4. OutcomeNumerator(row) \in Int
  BY <1>1 DEF OutcomeNumerator
<1>5. LatencyNumerator(row) \in Int
  BY <1>1, <1>2 DEF LatencyNumerator
<1>6. \A x, y \in Int : x * y \in Int
  OBVIOUS
<1>7. Tenths(task, e, row) \in Int
  BY TenthsAreNumbers
<1>8. /\ Tenths(task, e, row) * Denominator(row) \in Int
      /\ 10 * OutcomeNumerator(row) * AtLeast1(Attempts(row)) \in Int
      /\ LatencyNumerator(row) * OutcomeDenominator(row) \in Int
  BY <1>2, <1>3, <1>4, <1>5, <1>6, <1>7
<1> QED BY <1>3, <1>8 DEF Numerator

\* Of the executors that are available, one scores most.
LEMMA SomebodySelected ==
  ASSUME NEW task \in TaskSpecs, rows \in [Executors -> RowType], NEW executors,
         Available(task, "codex", rows, executors)
  PROVE  Selected(task, rows, executors) # {}
<1>1. "codex" \in Executors /\ "host" \in Executors
      /\ rows["codex"] \in RowType /\ rows["host"] \in RowType
  BY DEF Executors
<1> DEFINE nc == Numerator(task, "codex", rows["codex"])
           nh == Numerator(task, "host", rows["host"])
           dc == Denominator(rows["codex"])
           dh == Denominator(rows["host"])
<1>2. nc \in Int /\ nh \in Int /\ dc \in Int /\ dh \in Int
  BY <1>1, ScoresAreNumbers
<1>3. /\ ScoreAtMost(task, "codex", rows["codex"], "codex", rows["codex"]) <=> nc * dc <= nc * dc
      /\ ScoreAtMost(task, "host", rows["host"], "codex", rows["codex"]) <=> nh * dc <= nc * dh
      /\ ScoreAtMost(task, "codex", rows["codex"], "host", rows["host"]) <=> nc * dh <= nh * dc
      /\ ScoreAtMost(task, "host", rows["host"], "host", rows["host"]) <=> nh * dh <= nh * dh
  BY DEF ScoreAtMost
<1>4. nc * dc <= nc * dc /\ nh * dh <= nh * dh /\ (nh * dc <= nc * dh \/ nc * dh <= nh * dc)
  <2> HIDE DEF nc, nh, dc, dh
  <2>1. nc * dc \in Int /\ nh * dh \in Int /\ nh * dc \in Int /\ nc * dh \in Int
    BY <1>2
  <2> QED BY <2>1
<1>5. CASE ScoreAtMost(task, "host", rows["host"], "codex", rows["codex"])
  <2>1. "codex" \in Selected(task, rows, executors)
    BY <1>3, <1>4, <1>5 DEF Selected, Executors
  <2> QED BY <2>1
<1>6. CASE ~Available(task, "host", rows, executors)
  <2>1. "codex" \in Selected(task, rows, executors)
    BY <1>3, <1>4, <1>6 DEF Selected, Executors
  <2> QED BY <2>1
<1>7. CASE /\ ScoreAtMost(task, "codex", rows["codex"], "host", rows["host"])
           /\ Available(task, "host", rows, executors)
  <2>1. "host" \in Selected(task, rows, executors)
    BY <1>3, <1>4, <1>7 DEF Selected, Executors
  <2> QED BY <2>1
<1> QED BY <1>3, <1>4, <1>5, <1>6, <1>7

\* A routing that fails has a cause in the plan or in the rows.
LEMMA RouteKeepsRows ==
  ASSUME RowsConsistent, NEW j \in Jobs, Route(j)
  PROVE  RowsConsistent'
<1>1. CapabilityTypeOK /\ at[j] = "routing" /\ UNCHANGED <<rows, made, overtaken, spoiled>>
  BY DEF Route, RowsConsistent
<1>2. NothingForgotten'
  BY <1>1 DEF RowsConsistent, NothingForgotten
<1>3. ASSUME NEW task \in PlanTasks, NEW executors \in {{"codex"}, Executors},
             Selected(task, rows, executors) = {}, GoTo(j, "blocked"),
             codexMay' = [codexMay EXCEPT ![j] = Allowed(task, "codex")],
             UNCHANGED <<kind, duration, seen>>
      PROVE  RowsConsistent'
  <2>1. /\ at' \in [Jobs -> Stations] /\ at'[j] = "blocked"
        /\ \A i \in Jobs \ {j} : at'[i] = at[i]
    BY <1>1, <1>3, GoToTyped DEF Stations
  <2>2. Allowed(task, "codex") \in BOOLEAN
    BY DEF Allowed
  <2>3. /\ codexMay' \in [Jobs -> BOOLEAN] /\ codexMay'[j] = Allowed(task, "codex")
        /\ \A i \in Jobs \ {j} : codexMay'[i] = codexMay[i]
    BY <1>1, <1>3, <2>2 DEF CapabilityTypeOK
  <2>4. CapabilityTypeOK'
    BY <1>1, <1>3, <2>1, <2>3 DEF CapabilityTypeOK
  <2>5. codexMay'[j] => j \in spoiled
    <3> SUFFICES ASSUME Allowed(task, "codex"), j \notin spoiled PROVE FALSE
      BY <2>3
    <3>1. rows["codex"].status \notin {"cooling", "unavailable"}
      BY <1>1 DEF RowsConsistent, PlannedHealthy
    <3>2. Available(task, "codex", rows, executors)
      BY <3>1 DEF Available, Executors
    <3> QED BY <1>1, <1>3, <3>2, SomebodySelected, CapabilitiesAssumption DEF CapabilityTypeOK
  <2> QED BY <1>1, <1>2, <1>3, <2>1, <2>3, <2>4, <2>5, OneJobSteps
<1>4. ASSUME Finish(j), UNCHANGED codexMay
      PROVE  RowsConsistent'
  <2>1. CapabilityTypeOK'
    BY <1>1, <1>4, FinishTyped DEF CapabilityTypeOK
  <2> QED BY <1>1, <1>4, <2>1, FinishTyped, QuietSteps
<1> QED BY <1>3, <1>4 DEF Route

-----------------------------------------------------------------------------
(* The theorems about the rows *)

\* Nothing was recorded before the first job.
LEMMA RowsInit == InitCapabilities => RowsConsistent
<1> SUFFICES ASSUME InitCapabilities PROVE RowsConsistent
  OBVIOUS
<1>1. rows \in [Executors -> RowType]
  BY CapabilitiesAssumption DEF InitCapabilities
<1>2. \A e \in Executors : rows[e].successes \in Nat /\ rows[e].failures \in Nat
  BY <1>1 DEF RowType
<1>3. made \in [Executors -> Nat \X Nat]
  BY <1>2 DEF InitCapabilities
<1>4. NoRow \in RowType /\ 0 \in Nat /\ "idle" \in Stations
  BY CapabilitiesAssumption DEF Stations
<1>5. /\ at \in [Jobs -> Stations] /\ duration \in [Jobs -> Nat] /\ seen \in [Jobs -> RowType]
      /\ kind = [j \in Jobs |-> kind[j]] /\ codexMay \in [Jobs -> BOOLEAN]
      /\ overtaken = <<0, 0>> /\ overtaken \in Nat \X Nat /\ spoiled = {} /\ \A j \in Jobs : at[j] = "idle"
  BY <1>4 DEF InitCapabilities
<1>6. CapabilityTypeOK
  BY <1>1, <1>3, <1>5 DEF CapabilityTypeOK
<1>7. NothingForgotten
  BY <1>1, <1>2, <1>5 DEF InitCapabilities, NothingForgotten, Executors
<1> QED BY <1>5, <1>6, <1>7
      DEF RowsConsistent, MergesKept, PlannedHealthy, RoutingFailsForCause

\* Each step of the jobs keeps the invariant.
LEMMA RowsStep ==
  ASSUME RowsConsistent, [Next]_databaseVars
  PROVE  RowsConsistent'
<1>1. CASE UNCHANGED capVars
  BY <1>1 DEF capVars, RowsConsistent, CapabilityTypeOK, NothingForgotten, MergesKept,
              Remembered, PlannedHealthy, RoutingFailsForCause
<1>2. ASSUME NEW j \in Jobs, Step(j)
      PROVE  RowsConsistent'
  BY <1>2, BeginKeepsRows, AnswerKeepsRows, RecordUsageKeepsRows, RecordAnswerKeepsRows,
     RecordFailureKeepsRows, RecordErrorKeepsRows, RecordHostResultKeepsRows, ReadHostKeepsRows, WriteHostKeepsRows,
     RouteKeepsRows
  DEF Step
<1> QED BY <1>1, <1>2 DEF Next, databaseVars

\* Every row has its type and counts what was recorded, as does what a host's job has
\* read and will write; and Codex is as available as the planning that is to be routed
\* left it: what list_capabilities and upsert_capability rely on.
THEOREM AlwaysRowsConsistent == Spec => []RowsConsistent
<1>1. Init => RowsConsistent
  BY RowsInit DEF Init
<1>2. RowsConsistent /\ [Next]_databaseVars => RowsConsistent'
  BY RowsStep
<1> QED BY <1>1, <1>2, PTL DEF Spec

\* No result is forgotten or counted twice, whatever jobs of whatever processes record at
\* a time, but for those of the host recorded while a claim held the row it had read.
THEOREM ResultsKept == Spec => []NothingForgotten
<1>1. RowsConsistent => NothingForgotten
  BY DEF RowsConsistent
<1> QED BY <1>1, AlwaysRowsConsistent, PTL

\* A task Codex may do finds nobody only if another job found Codex unavailable
\* between the planning's record and its routing, whatever the task and the scores.
THEOREM RoutingFailure == Spec => []RoutingFailsForCause
<1>1. RowsConsistent => RoutingFailsForCause
  BY DEF RowsConsistent
<1> QED BY <1>1, AlwaysRowsConsistent, PTL

-----------------------------------------------------------------------------
(* A failure does not raise a score *)

\* A fraction that is at most the smaller of two is at most the larger.
LEMMA FractionsTransitive ==
  ASSUME NEW a \in Int, NEW b \in Nat \ {0}, NEW c \in Int, NEW d \in Nat \ {0},
         NEW e \in Int, NEW f \in Nat \ {0},
         a * d <= c * b, c * f <= e * d
  PROVE  a * f <= e * b
<1>1. (a * d) * f <= (c * b) * f
  <2>1. \A x, y \in Int : x <= y => x * f <= y * f
    OBVIOUS
  <2>2. a * d \in Int /\ c * b \in Int
    OBVIOUS
  <2> QED BY <2>1, <2>2
<1>2. (c * f) * b <= (e * d) * b
  <2>1. \A x, y \in Int : x <= y => x * b <= y * b
    OBVIOUS
  <2>2. c * f \in Int /\ e * d \in Int
    OBVIOUS
  <2> QED BY <2>1, <2>2
<1>3. (a * f) * d <= (e * b) * d
  <2>1. (a * d) * f = (a * f) * d /\ (c * b) * f = (c * f) * b /\ (e * d) * b = (e * b) * d
    OBVIOUS
  <2> QED BY <1>1, <1>2, <2>1
<1>4. \A x, y \in Int : x * d <= y * d => x <= y
  <2> SUFFICES ASSUME NEW x \in Int, NEW y \in Int, x > y
               PROVE  x * d > y * d
    OBVIOUS
  <2>1. (x - y) * d > 0
    OBVIOUS
  <2>2. (x - y) * d = x * d - y * d
    OBVIOUS
  <2> QED BY <2>1, <2>2
<1>5. a * f \in Int /\ e * b \in Int
  OBVIOUS
<1> QED BY <1>3, <1>4, <1>5

\* A failure lowers a score by what the availability and the success rate lose, and
\* raises it by what the average latency falls.
LEMMA ScoreFalls ==
  ASSUME NEW t \in Int, NEW u \in Int, NEW o \in Int, NEW b \in Nat \ {0},
         NEW a \in Nat \ {0}, NEW c \in Nat \ {0}, NEW l \in Int, NEW m \in Int,
         (l * c - m * a) * (b * (b + 1)) <= ((t - u) * (b * (b + 1)) + 10 * (o + b)) * (a * c)
  PROVE  (u * ((b + 1) * c) + 10 * (o - 1) * c - m * (b + 1)) * (b * a)
           <= (t * (b * a) + 10 * o * a - l * b) * ((b + 1) * c)
<1> DEFINE k == a * c
           q == b * (b + 1)
<1>1. k \in Int /\ q \in Int
  OBVIOUS
<1>2. (u * ((b + 1) * c) + 10 * (o - 1) * c - m * (b + 1)) * (b * a)
        = (u * q) * k + 10 * (((o - 1) * b) * k) - (m * a) * q
  OBVIOUS
<1>3. (t * (b * a) + 10 * o * a - l * b) * ((b + 1) * c)
        = (t * q) * k + 10 * ((o * (b + 1)) * k) - (l * c) * q
  OBVIOUS
<1>4. ((t - u) * q + 10 * (o + b)) * k
        = (t * q) * k - (u * q) * k + 10 * ((o * (b + 1)) * k) - 10 * (((o - 1) * b) * k)
  OBVIOUS
<1>5. (l * c - m * a) * q = (l * c) * q - (m * a) * q
  OBVIOUS
<1>6. (l * c - m * a) * q <= ((t - u) * q + 10 * (o + b)) * k
  OBVIOUS
<1> HIDE DEF k, q
<1>7. /\ (u * q) * k \in Int /\ (t * q) * k \in Int /\ (m * a) * q \in Int /\ (l * c) * q \in Int
      /\ ((o - 1) * b) * k \in Int /\ (o * (b + 1)) * k \in Int
  BY <1>1
<1> QED BY <1>2, <1>3, <1>4, <1>5, <1>6, <1>7

\* Fifteen tenths are all a latency costs: less than the availability that is lost.
LEMMA HealthyLosesMore ==
  ASSUME NEW d \in Int, 18 <= d, NEW x \in Nat, NEW b \in Nat \ {0},
         NEW a \in Nat \ {0}, NEW c \in Nat \ {0}, NEW l \in Nat, l <= 15 * a, NEW m \in Nat
  PROVE  (l * c - m * a) * (b * (b + 1)) <= (d * (b * (b + 1)) + 10 * x) * (a * c)
<1> DEFINE k == a * c
           q == b * (b + 1)
<1>1. k \in Nat /\ q \in Nat
  OBVIOUS
<1>2. l * c <= 15 * k
  <2>1. l * c <= (15 * a) * c
    OBVIOUS
  <2> QED BY <2>1
<1>3. m * a \in Nat /\ l * c \in Nat
  OBVIOUS
<1> HIDE DEF k, q
<1>4. (l * c - m * a) * q <= (15 * k) * q
  <2>1. \A y, z \in Int : y <= z => y * q <= z * q
    BY <1>1
  <2>2. l * c - m * a <= 15 * k /\ l * c - m * a \in Int /\ 15 * k \in Int
    BY <1>1, <1>2, <1>3
  <2> QED BY <2>1, <2>2
<1>5. (15 * k) * q <= (18 * k) * q
  BY <1>1
<1>6. (18 * k) * q <= (d * q + 10 * x) * k
  <2>1. \A y, z \in Int : y <= z => y * k <= z * k
    BY <1>1
  <2>2. 18 * q <= d * q
    BY <1>1
  <2>3. 18 * q <= d * q + 10 * x /\ 18 * q \in Int /\ d * q + 10 * x \in Int
    BY <1>1, <2>2
  <2>4. (18 * q) * k <= (d * q + 10 * x) * k
    BY <2>1, <2>3
  <2>5. (18 * k) * q = (18 * q) * k
    BY <1>1
  <2> QED BY <2>4, <2>5
<1>7. /\ (l * c - m * a) * q \in Int /\ (15 * k) * q \in Int /\ (18 * k) * q \in Int
      /\ (d * q + 10 * x) * k \in Int
  BY <1>1, <1>3
<1>8. (l * c - m * a) * q <= (d * q + 10 * x) * k
  BY <1>4, <1>5, <1>6, <1>7
<1> QED BY <1>8 DEF k, q

\* The success rate of one that is quick loses more than its average can fall.
LEMMA QuickLosesMore ==
  ASSUME NEW d \in Nat, NEW s \in Nat, NEW n \in Nat, NEW latency \in Nat,
         3 * latency <= 10 * (s + 1), NEW l \in Nat, NEW m \in Nat, l <= m, l <= latency,
         n = 0 => l = m
  PROVE  (l * (n + 1) - m * AtLeast1(n)) * ((n + 2) * (n + 3))
           <= (d * ((n + 2) * (n + 3)) + 20 * (s + 1)) * (AtLeast1(n) * (n + 1))
<1> DEFINE a == AtLeast1(n)
           k == a * (n + 1)
           q == (n + 2) * (n + 3)
           g == l * (n + 1) - m * a
<1>1. a \in Nat \ {0}
  BY DEF AtLeast1
<1>2. k \in Nat /\ q \in Nat /\ g \in Int
  <2> HIDE DEF a
  <2> QED BY <1>1
<1>3. g * q <= (20 * (s + 1)) * k
  <2>1. CASE n = 0
    <3>1. a = 1 /\ g = 0
      BY <2>1 DEF AtLeast1
    <3>2. g * q = 0 /\ (20 * (s + 1)) * k \in Nat
      <4> HIDE DEF g, q, k, a
      <4> QED BY <1>2, <3>1
    <3> HIDE DEF g, q, k, a
    <3> QED BY <3>2
  <2>2. CASE n # 0
    <3>1. a = n
      BY <2>2 DEF AtLeast1
    <3>2. g <= latency
      <4>1. l * n <= m * n
        OBVIOUS
      <4>2. l * (n + 1) = l * n + l
        OBVIOUS
      <4>3. l * n \in Int /\ m * n \in Int
        OBVIOUS
      <4>4. g = l * (n + 1) - m * n
        BY <3>1
      <4> HIDE DEF g
      <4> QED BY <4>1, <4>2, <4>3, <4>4
    <3>3. q <= 6 * k
      <4>1. k = n * (n + 1)
        BY <3>1
      <4>2. n * n >= n
        BY <2>2
      <4>3. (n + 2) * (n + 3) = n * n + 5 * n + 6 /\ n * (n + 1) = n * n + n
        OBVIOUS
      <4>4. n * n \in Nat /\ n >= 1
        BY <2>2
      <4> HIDE DEF k
      <4>5. n * n + 5 * n + 6 <= 6 * (n * n + n)
        BY <4>2, <4>4
      <4> QED BY <4>1, <4>3, <4>5
    <3> HIDE DEF g, q, k, a
    <3>4. g * q <= latency * q
      <4>1. \A y, z \in Int : y <= z => y * q <= z * q
        BY <1>2
      <4> QED BY <1>2, <3>2, <4>1
    <3>5. latency * q <= latency * (6 * k)
      <4>1. \A y, z \in Int : y <= z => latency * y <= latency * z
        OBVIOUS
      <4>2. 6 * k \in Int /\ q \in Int
        BY <1>2
      <4> QED BY <3>3, <4>1, <4>2
    <3>6. latency * (6 * k) <= (20 * (s + 1)) * k
      <4>1. \A y, z \in Int : y <= z => y * k <= z * k
        BY <1>2
      <4>2. 6 * latency <= 20 * (s + 1) /\ 6 * latency \in Int /\ 20 * (s + 1) \in Int
        OBVIOUS
      <4>3. latency * (6 * k) = (6 * latency) * k
        BY <1>2
      <4> QED BY <4>1, <4>2, <4>3
    <3>7. /\ g * q \in Int /\ latency * q \in Int /\ latency * (6 * k) \in Int
          /\ (20 * (s + 1)) * k \in Int
      BY <1>2
    <3> QED BY <3>4, <3>5, <3>6, <3>7
  <2> QED BY <2>1, <2>2
<1>4. (20 * (s + 1)) * k <= (d * q + 20 * (s + 1)) * k
  <2> HIDE DEF g, q, k, a
  <2>1. \A y, z \in Int : y <= z => y * k <= z * k
    BY <1>2
  <2>2. 20 * (s + 1) <= d * q + 20 * (s + 1) /\ d * q + 20 * (s + 1) \in Int /\ 20 * (s + 1) \in Int
    <3>1. d * q \in Nat
      BY <1>2
    <3> QED BY <3>1
  <2> QED BY <2>1, <2>2
<1>5. g * q \in Int /\ (20 * (s + 1)) * k \in Int /\ (d * q + 20 * (s + 1)) * k \in Int
  <2> HIDE DEF g, q, k, a
  <2> QED BY <1>2
<1>6. g * q <= (d * q + 20 * (s + 1)) * k
  <2> HIDE DEF g, q, k, a
  <2> QED BY <1>3, <1>4, <1>5
<1> QED BY <1>6 DEF g, q, k, a

\* A failure lowers the score of its executor for every task, or leaves it.
LEMMA FailureLowers ==
  ASSUME NEW task \in TaskSpecs, NEW e \in Executors, NEW row \in RowType, NEW new \in RowType,
         row.status = "healthy" \/ (row.status = "constrained" /\ Quick(row)),
         new.status = "constrained", new.latency = row.latency, new.declared = row.declared,
         new.successes = row.successes, new.failures = row.failures + 1
  PROVE  Numerator(task, e, new) * Denominator(row) <= Numerator(task, e, row) * Denominator(new)
<1> DEFINE n == Attempts(row)
           s == row.successes
           o == OutcomeNumerator(row)
           t == Tenths(task, e, row)
           u == Tenths(task, e, new)
           l == LatencyNumerator(row)
           m == LatencyNumerator(new)
           b == n + 2
           a == AtLeast1(n)
           c == n + 1
<1>1. /\ n \in Nat /\ o \in Int /\ s \in Nat /\ row.latency \in Nat
      /\ b \in Nat \ {0} /\ c \in Nat \ {0} /\ o + b = 2 * (s + 1)
      /\ Attempts(new) = n + 1 /\ OutcomeNumerator(new) = o - 1
  BY DEF RowType, Attempts, OutcomeNumerator
<1>2. a \in Nat \ {0} /\ AtLeast1(Attempts(new)) = c /\ a <= c /\ (n = 0 => a = c)
  BY <1>1 DEF AtLeast1
<1>3. /\ l = IF row.latency > 15 * a THEN 15 * a ELSE row.latency
      /\ m = IF row.latency > 15 * c THEN 15 * c ELSE row.latency
  BY <1>2 DEF LatencyNumerator
<1>4. t \in Int /\ u \in Int
  BY TenthsAreNumbers
<1>5. u <= t /\ (row.status = "healthy" => 18 <= t - u)
  <2> DEFINE base == KindFit[e][task.kind] + RiskScore[e][task.risk]
             rest == RequirementScore(task, e, row)
             bonus == IF task.preferred = e THEN 20 ELSE 0
             fit == IF ~task.mutates THEN 0 ELSE IF e = "codex" THEN 8 ELSE -4
  <2>1. RequirementScore(task, e, new) = rest
    BY DEF RequirementScore, Has
  <2>2. /\ AvailabilityScore[new.status] = -10
        /\ AvailabilityScore[row.status] = IF row.status = "healthy" THEN 8 ELSE -10
    BY DEF AvailabilityScore
  <2>3. KindFit[e][task.kind] \in Int /\ RiskScore[e][task.risk] \in Int
    BY DEF KindFit, RiskScore, Executors, TaskSpecs, Kinds, Risks
  <2>4. base \in Int /\ rest \in Int /\ bonus \in Int /\ fit \in Int
    BY <2>3, RequirementsAreNumbers
  <2>5. /\ t = base + AvailabilityScore[row.status] + rest + bonus + fit
        /\ u = base + AvailabilityScore[new.status] + rest + bonus + fit
    BY <2>1 DEF Tenths
  <2> HIDE DEF base, rest, bonus, fit, t, u
  <2> QED BY <2>2, <2>4, <2>5
<1>6. /\ Denominator(row) = b * a /\ Denominator(new) = (b + 1) * c
      /\ Numerator(task, e, row) = t * (b * a) + 10 * o * a - l * b
      /\ Numerator(task, e, new) = u * ((b + 1) * c) + 10 * (o - 1) * c - m * (b + 1)
  BY <1>1, <1>2 DEF Denominator, Numerator, OutcomeDenominator
<1>7. row.status = "constrained" => 3 * row.latency <= 10 * (s + 1)
  BY DEF Quick
<1> HIDE DEF n, s, o, t, u, l, m, a
<1>8. l \in Nat /\ m \in Nat /\ l <= 15 * a /\ l <= m /\ l <= row.latency /\ (n = 0 => l = m)
  BY <1>1, <1>2, <1>3
<1>9. (l * c - m * a) * (b * (b + 1)) <= ((t - u) * (b * (b + 1)) + 10 * (o + b)) * (a * c)
  <2>1. CASE row.status = "healthy"
    <3>1. t - u \in Int /\ 18 <= t - u /\ o + b \in Nat
      BY <1>1, <1>4, <1>5, <2>1
    <3> HIDE DEF b, c
    <3> QED BY <1>1, <1>2, <1>8, <3>1, HealthyLosesMore
  <2>2. CASE row.status = "constrained"
    <3>1. t - u \in Nat /\ 3 * row.latency <= 10 * (s + 1)
      BY <1>4, <1>5, <1>7, <2>2
    <3>2. (l * (n + 1) - m * AtLeast1(n)) * ((n + 2) * (n + 3))
            <= ((t - u) * ((n + 2) * (n + 3)) + 20 * (s + 1)) * (AtLeast1(n) * (n + 1))
      BY <1>1, <1>8, <3>1, QuickLosesMore
    <3>3. 10 * (o + b) = 20 * (s + 1) /\ b + 1 = n + 3
      BY <1>1
    <3> QED BY <3>2, <3>3 DEF a
  <2> QED BY <2>1, <2>2
<1> HIDE DEF b, c
<1>10. (u * ((b + 1) * c) + 10 * (o - 1) * c - m * (b + 1)) * (b * a)
         <= (t * (b * a) + 10 * o * a - l * b) * ((b + 1) * c)
  BY <1>1, <1>2, <1>4, <1>8, <1>9, ScoreFalls
<1> QED BY <1>6, <1>10

\* Where a failure is counted and leaves its executor constrained, it was recorded
\* without a latency, and nothing else was.
LEMMA OnlyFailuresConstrain ==
  ASSUME RowsConsistent, [Next]_databaseVars, NEW e \in Executors,
         rows'[e].failures > rows[e].failures, rows'[e].status = "constrained"
  PROVE  /\ rows'[e] \in RowType /\ rows'[e].successes = rows[e].successes
         /\ rows'[e].failures = rows[e].failures + 1
         /\ rows'[e].latency = rows[e].latency /\ rows'[e].declared = rows[e].declared
         /\ \A f \in Executors \ {e} : rows'[f] = rows[f]
<1>1. /\ CapabilityTypeOK /\ rows \in [Executors -> RowType]
      /\ rows[e].failures \in Nat /\ rows'[e] # rows[e]
  BY DEF RowsConsistent, CapabilityTypeOK, RowType
<1>2. PICK j \in Jobs : \/ RecordAnswer(j) \/ RecordFailure(j) \/ RecordError(j)
                    \/ RecordHostResult(j) \/ WriteHost(j)
  <2>1. rows' # rows
    BY <1>1
  <2>2. \E j \in Jobs : Step(j)
    BY <2>1 DEF Next, databaseVars, capVars
  <2> QED BY <2>1, <2>2 DEF Step, Begin, Answer, RecordUsage, ReadHost, Route
<1>3. ~WriteHost(j)
  <2> SUFFICES ASSUME WriteHost(j) PROVE FALSE
    OBVIOUS
  <2>1. seen[j] \in RowType /\ rows' = [rows EXCEPT !["host"] = [seen[j] EXCEPT !.status = "healthy"]]
    BY <1>1 DEF CapabilityTypeOK, WriteHost
  <2>2. [seen[j] EXCEPT !.status = "healthy"].status = "healthy"
    BY <2>1 DEF RowType
  <2>3. e = "host"
    BY <1>1, <2>1 DEF Executors
  <2> QED BY <1>1, <2>1, <2>2, <2>3
<1>4. PICK f \in Executors, succeeded \in BOOLEAN, state \in Statuses, latency \in Nat :
        /\ Record(f, succeeded, state, latency)
        /\ ~succeeded /\ state = "constrained" => latency = 0
  <2>1. /\ "codex" \in Executors /\ "host" \in Executors
        /\ {"healthy", "constrained", "unavailable"} \subseteq Statuses
        /\ 0 \in Nat /\ duration[j] \in Nat
    BY <1>1 DEF CapabilityTypeOK, Executors, Statuses
  <2>2. CASE RecordAnswer(j)
    BY <2>1, <2>2 DEF RecordAnswer
  <2>3. CASE RecordFailure(j)
    BY <2>1, <2>3 DEF RecordFailure
  <2>4. CASE RecordError(j)
    BY <2>1, <2>4 DEF RecordError
  <2>5. CASE RecordHostResult(j)
    BY <2>1, <2>5 DEF RecordHostResult
  <2> QED BY <1>2, <1>3, <2>2, <2>4, <2>5, <2>3
<1>5. /\ rows'[f] = Result(rows[f], succeeded, state, latency)
      /\ \A g \in Executors \ {f} : rows'[g] = rows[g]
  BY <1>1, <1>4 DEF Record
<1>6. e = f
  BY <1>1, <1>5
<1>7. /\ rows'[e] \in RowType /\ rows'[e].status = state
      /\ rows'[e].failures = IF succeeded THEN rows[e].failures ELSE rows[e].failures + 1
      /\ rows'[e].successes = IF succeeded THEN rows[e].successes + 1 ELSE rows[e].successes
      /\ rows'[e].latency = rows[e].latency + latency /\ rows'[e].declared = rows[e].declared
  BY <1>1, <1>5, <1>6, ResultTyped
<1>8. ~succeeded /\ latency = 0 /\ rows[e].latency \in Nat
  BY <1>1, <1>4, <1>7 DEF RowType
<1> QED BY <1>5, <1>6, <1>7, <1>8

\* So a step that records a failure brings its executor no task that it did not have.
LEMMA FailuresRepelStep ==
  ASSUME RowsConsistent, [Next]_databaseVars, NEW e \in Executors,
         rows'[e].failures > rows[e].failures, rows'[e].status = "constrained",
         rows[e].status = "healthy" \/ (rows[e].status = "constrained" /\ Quick(rows[e])),
         NEW task \in PlanTasks, NEW executors, e \in Selected(task, rows', executors)
  PROVE  e \in Selected(task, rows, executors)
<1>1. /\ rows'[e] \in RowType /\ rows'[e].successes = rows[e].successes
      /\ rows'[e].failures = rows[e].failures + 1
      /\ rows'[e].latency = rows[e].latency /\ rows'[e].declared = rows[e].declared
      /\ \A f \in Executors \ {e} : rows'[f] = rows[f]
  BY OnlyFailuresConstrain
<1>2. rows \in [Executors -> RowType] /\ task \in TaskSpecs
  BY CapabilitiesAssumption DEF RowsConsistent, CapabilityTypeOK
<1>3. Numerator(task, e, rows'[e]) * Denominator(rows[e])
        <= Numerator(task, e, rows[e]) * Denominator(rows'[e])
  BY <1>1, <1>2, FailureLowers
<1>4. Available(task, e, rows, executors)
  BY DEF Selected, Available
<1>5. ASSUME NEW f \in Executors, Available(task, f, rows, executors)
      PROVE  ScoreAtMost(task, f, rows[f], e, rows[e])
  <2>1. /\ Numerator(task, e, rows[e]) \in Int /\ Denominator(rows[e]) \in Nat \ {0}
        /\ Numerator(task, e, rows'[e]) \in Int /\ Denominator(rows'[e]) \in Nat \ {0}
        /\ Numerator(task, f, rows[f]) \in Int /\ Denominator(rows[f]) \in Nat \ {0}
    BY <1>1, <1>2, ScoresAreNumbers
  <2>2. CASE f = e
    <3>1. Numerator(task, e, rows[e]) * Denominator(rows[e]) \in Int
      BY <2>1
    <3> QED BY <2>2, <3>1 DEF ScoreAtMost
  <2>3. CASE f # e
    <3>1. rows'[f] = rows[f]
      BY <1>1, <2>3
    <3>2. Available(task, f, rows', executors)
      BY <1>5, <3>1 DEF Available
    <3>3. ScoreAtMost(task, f, rows[f], e, rows'[e])
      BY <3>1, <3>2 DEF Selected
    <3>4. Numerator(task, f, rows[f]) * Denominator(rows'[e])
            <= Numerator(task, e, rows'[e]) * Denominator(rows[f])
      BY <3>3 DEF ScoreAtMost
    <3>5. Numerator(task, f, rows[f]) * Denominator(rows[e])
            <= Numerator(task, e, rows[e]) * Denominator(rows[f])
      BY <2>1, <3>4, <1>3, FractionsTransitive
    <3> QED BY <3>5 DEF ScoreAtMost
  <2> QED BY <2>2, <2>3
<1> QED BY <1>4, <1>5 DEF Selected

\* A failure brings no work: to no healthy executor, and to no constrained one that is
\* quick, for any task and any history, is a task routed after it that was not before.
THEOREM NoWorkFromFailures == Spec => FailuresRepel
<1>1. RowsConsistent /\ [Next]_databaseVars
        => [\A e \in Executors :
              /\ rows'[e].failures > rows[e].failures
              /\ rows'[e].status = "constrained"
              /\ rows[e].status = "healthy" \/ (rows[e].status = "constrained" /\ Quick(rows[e]))
              => \A task \in PlanTasks, executors \in {{"codex"}, Executors} :
                   e \in Selected(task, rows', executors)
                     => e \in Selected(task, rows, executors)]_databaseVars
  BY FailuresRepelStep
<1> QED BY <1>1, AlwaysRowsConsistent, PTL DEF Spec, FailuresRepel
====
