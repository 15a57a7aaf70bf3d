-------------------------------- MODULE Schema --------------------------------
(***************************************************************************)
(* StateStore._initialize (src/agentbraid/store.py): every process that    *)
(* opens the state database creates its schema, or brings that of an older *)
(* version to SCHEMA_VERSION.  The connection is in autocommit mode: each  *)
(* statement is a transaction of its own, other processes that open the    *)
(* database come in between, and a process that ends leaves what it did.   *)
(***************************************************************************)
EXTENDS Naturals, FiniteSets, Sequences

CONSTANTS
  Processes,   \* the MCP servers and the Dashboard
  Rows         \* the runs in a database of an older version

SchemaVersion == 4

\* CREATE TABLE and CREATE INDEX, with the columns a table or index mentions and
\* later versions add; ALTER TABLE ... ADD COLUMN.
Create(name, columns) == [creates |-> {name} \cup columns, needs |-> {}]
Index(name, on) == [creates |-> {name}, needs |-> on]
AddColumn(table, column) == [creates |-> {column}, needs |-> {table}]

RunColumns == {"base_branch", "base_commit", "workspace", "display_names", "settings"}
UsageColumns == {"attempt", "outcome"}

\* The script of a new database, and those from each older version to the next.
CreateAll ==
  << Create("runs", RunColumns), Create("tasks", {}), Create("task_dependencies", {}),
     Create("events", {}), Create("capabilities", {}),
     Create("provider_usage", UsageColumns), Create("workspace_settings", {}),
     Index("tasks_claim_idx", {"tasks"}),
     Index("task_dependencies_reverse_idx", {"task_dependencies"}),
     Index("events_run_idx", {"events"}),
     Index("provider_usage_run_idx", {"provider_usage"}),
     Index("runs_workspace_updated_idx", {"runs", "workspace"}) >>

\* A bug to find: a later version's index in an earlier version's script.
From1IndexedTwice ==
  << AddColumn("runs", "base_branch"), AddColumn("runs", "base_commit"),
     Create("provider_usage", {}), Index("provider_usage_run_idx", {"provider_usage"}),
     Index("runs_workspace_updated_idx", {"runs", "workspace"}) >>

From1 ==
  << AddColumn("runs", "base_branch"), AddColumn("runs", "base_commit"),
     Create("provider_usage", {}), Index("provider_usage_run_idx", {"provider_usage"}) >>

From2 ==
  << AddColumn("runs", "workspace"), AddColumn("provider_usage", "attempt"),
     AddColumn("provider_usage", "outcome"),
     Index("runs_workspace_updated_idx", {"runs", "workspace"}) >>

From3 ==
  << AddColumn("runs", "display_names"), AddColumn("runs", "settings"),
     Create("workspace_settings", {}) >>

Script(v) == CASE v = 0 -> CreateAll [] v = 1 -> From1 [] v = 2 -> From2 [] v = 3 -> From3

Creates(script) == UNION {script[i].creates : i \in DOMAIN script}

\* The tables, later columns and indexes a database of version v has.
Provided(v) ==
  LET old(u) == Creates(Script(0)) \ UNION {Creates(Script(w)) : w \in u..3}
  IN IF v = 0 THEN {} ELSE old(v)

VARIABLES
  version,     \* PRAGMA user_version
  objects,     \* the tables, columns and indexes there are
  filled,      \* the rows of runs whose workspace is what their request says
  opening,     \* where each process is: "closed", "migrating", "failed", "refused", "open"
  from,        \* its variable version
  step,        \* the statement of the script it executes next
  todo,        \* the rows it has selected and not updated yet
  interrupted  \* whether a process ended, or a statement failed, while it migrated

schemaVars == <<version, objects, filled, opening, from, step, todo, interrupted>>

InitSchema ==
  /\ version \in 0..(SchemaVersion + 1)
  /\ objects = Provided(IF version > SchemaVersion THEN SchemaVersion ELSE version)
  /\ filled = IF version \in {1, 2} THEN {} ELSE Rows
  /\ opening = [p \in Processes |-> "closed"]
  /\ from = [p \in Processes |-> 0]
  /\ step = [p \in Processes |-> 1]
  /\ todo = [p \in Processes |-> {}]
  /\ interrupted = FALSE

Become(p, place) == opening' = [opening EXCEPT ![p] = place]

\* A process leaves _initialize, and its variables with it.
Leave(p, place) ==
  /\ Become(p, place)
  /\ from' = [from EXCEPT ![p] = 0]
  /\ step' = [step EXCEPT ![p] = 1]
  /\ todo' = [todo EXCEPT ![p] = {}]

\* A process starts, again if it failed before, and reads the version.
Open(p) ==
  /\ opening[p] \in {"closed", "failed"}
  /\ \/ version > SchemaVersion /\ Leave(p, "refused")
     \/ version = SchemaVersion /\ Leave(p, "open")
     \/ /\ version < SchemaVersion
        /\ Become(p, "migrating")
        /\ from' = [from EXCEPT ![p] = version]
        /\ todo' = [todo EXCEPT ![p] = Rows]
        /\ UNCHANGED step
  /\ UNCHANGED <<version, objects, filled, interrupted>>

Migrating(p) == opening[p] = "migrating"
Statement(p) == Script(from[p])[step[p]]
AtScript(p) == Migrating(p) /\ step[p] <= Len(Script(from[p]))

\* A bug to find: what exists already is passed over (IF NOT EXISTS).
ExecuteTolerantly(p) ==
  /\ AtScript(p)
  /\ Statement(p).needs \subseteq objects
  /\ objects' = objects \cup Statement(p).creates
  /\ step' = [step EXCEPT ![p] = @ + 1]
  /\ UNCHANGED <<version, filled, opening, from, todo, interrupted>>

Execute(p) ==
  /\ AtScript(p)
  /\ Statement(p).needs \subseteq objects
  /\ Statement(p).creates \cap objects = {}
  /\ objects' = objects \cup Statement(p).creates
  /\ step' = [step EXCEPT ![p] = @ + 1]
  /\ UNCHANGED <<version, filled, opening, from, todo, interrupted>>

\* A statement that creates what exists, or uses what does not, raises; the process
\* ends, or the Dashboard reports the error.
Refuse(p) ==
  /\ AtScript(p)
  /\ \/ ~ Statement(p).needs \subseteq objects
     \/ Statement(p).creates \cap objects # {}
  /\ Leave(p, "failed")
  /\ UNCHANGED <<version, objects, filled, interrupted>>

Backfilling(p) == Migrating(p) /\ ~AtScript(p) /\ from[p] = 2 /\ todo[p] # {}

\* The workspace of one run, taken from its request.
Backfill(p) ==
  /\ Backfilling(p)
  /\ \E r \in todo[p] :
       /\ filled' = filled \cup {r}
       /\ todo' = [todo EXCEPT ![p] = @ \ {r}]
  /\ UNCHANGED <<version, objects, opening, from, step, interrupted>>

Reached(p) == IF from[p] = 0 THEN SchemaVersion ELSE from[p] + 1

\* A bug to find: the rows are filled after the version says they are.
SetVersionEarly(p) ==
  /\ Migrating(p) /\ ~AtScript(p)
  /\ version' = Reached(p)
  /\ \/ Reached(p) = SchemaVersion /\ Leave(p, "open")
     \/ /\ Reached(p) # SchemaVersion
        /\ from' = [from EXCEPT ![p] = Reached(p)]
        /\ step' = [step EXCEPT ![p] = 1]
        /\ UNCHANGED <<opening, todo>>
  /\ UNCHANGED <<objects, filled, interrupted>>

\* PRAGMA user_version, and on to the script of the version reached.
SetVersion(p) ==
  /\ Migrating(p) /\ ~AtScript(p) /\ ~Backfilling(p)
  /\ version' = Reached(p)
  /\ \/ Reached(p) = SchemaVersion /\ Leave(p, "open")
     \/ /\ Reached(p) # SchemaVersion
        /\ from' = [from EXCEPT ![p] = Reached(p)]
        /\ step' = [step EXCEPT ![p] = 1]
        /\ UNCHANGED <<opening, todo>>
  /\ UNCHANGED <<objects, filled, interrupted>>

\* The process ends, or a statement fails for want of space or of the lock.
Interrupt(p) ==
  /\ Migrating(p)
  /\ Leave(p, "closed")
  /\ interrupted' = TRUE
  /\ UNCHANGED <<version, objects, filled>>

Migrate(p) == Execute(p) \/ Refuse(p) \/ Backfill(p) \/ SetVersion(p)

NextSchema == \E p \in Processes : Open(p) \/ Migrate(p) \/ Interrupt(p)

SchemaSpec == InitSchema /\ [][NextSchema]_schemaVars
                /\ \A p \in Processes : WF_schemaVars(Migrate(p))

-----------------------------------------------------------------------------
\* The database says of itself what is true, whoever ended where: it has all its version
\* provides, from version 3 on the workspace of every run, and nothing of the next version
\* unless it is being migrated or a migration was interrupted; and who has the store open
\* finds all of it.  (After an interruption the script is not executed again from where
\* it stopped but from its first statement, which fails, at every later start.)
VersionIsHonest ==
  /\ version <= SchemaVersion => Provided(version) \subseteq objects
  /\ version >= 3 => filled = Rows
  /\ \/ interrupted \/ version > SchemaVersion \/ objects = Provided(version)
     \/ \E p \in Processes : Migrating(p) /\ step[p] > 1
  /\ \A p \in Processes :
       opening[p] = "open" => objects = Provided(SchemaVersion) /\ filled = Rows

\* Processes that migrate at the same time do not mix their statements: the first of
\* each script is the lock, and whoever comes second fails at it.
OneMigrates ==
  Cardinality({p \in Processes : Migrating(p) /\ step[p] > 1}) <= 1

\* Of the processes that open a database of a known version, one gets it open, unless a
\* migration is interrupted: they do not make one another fail.
SomebodyOpens ==
  (\E p \in Processes : Migrating(p)) ~> (interrupted \/ \E p \in Processes : opening[p] = "open")
=============================================================================
