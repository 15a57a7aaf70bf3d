----------------------------- MODULE Capabilities -----------------------------
(***************************************************************************)
(* What AgentBraid knows of its executors: the capability rows of the      *)
(* store, which every invocation of Codex and every request of a host      *)
(* updates, in all processes that have the database open (Schema), and     *)
(* which a planning reads to route its tasks (Router).                     *)
(* An action is one transaction of one job, or an answer it gets.          *)
(***************************************************************************)
EXTENDS Schema, Router

CONSTANTS
  Jobs,       \* the invocations and requests there are
  StartRows,  \* the capability rows an older database may hold
  PlanTasks,  \* the tasks a planning has to route
  Durations   \* how long an answer may take, in units of 30 seconds

ASSUME CapabilitiesAssumption ==
  /\ StartRows \subseteq RowType /\ NoRow \in StartRows
  /\ PlanTasks \subseteq TaskSpecs
  /\ Durations \subseteq Nat

VARIABLES
  rows,       \* the row of each executor's model, NoRow when there is none
  at,         \* where each job is
  kind,       \* what it is: "plan", "work", "review", "claim" or "submit"
  duration,   \* how long its answer took
  seen,       \* the row _touch_host_capability has read
  codexMay,   \* whether Codex may do the task a planning could not route
  made,       \* the successes and failures recorded of each executor, whatever its row says
  overtaken,  \* the host's successes and failures recorded while a touch held the row it had read
  spoiled     \* the plannings during whose routing another job found Codex unavailable

capVars == <<rows, at, kind, duration, seen, codexMay, made, overtaken, spoiled>>
databaseVars == <<schemaVars, capVars>>

InitCapabilities ==
  /\ rows \in [Executors -> IF version = 0 THEN {NoRow} ELSE StartRows]
  /\ at = [j \in Jobs |-> "idle"]
  /\ kind = [j \in Jobs |-> "none"]
  /\ duration = [j \in Jobs |-> 0]
  /\ seen = [j \in Jobs |-> NoRow]
  /\ codexMay = [j \in Jobs |-> FALSE]
  /\ made = [e \in Executors |-> <<rows[e].successes, rows[e].failures>>]
  /\ overtaken = <<0, 0>>
  /\ spoiled = {}

GoTo(j, place) == at' = [at EXCEPT ![j] = place]

\* A job is over, and with it what it knew.
Finish(j) ==
  /\ GoTo(j, "done")
  /\ kind' = [kind EXCEPT ![j] = "none"]
  /\ duration' = [duration EXCEPT ![j] = 0]
  /\ seen' = [seen EXCEPT ![j] = NoRow]

\* Any process that has the store open begins a planning, a worker, a final review, or
\* serves a host's claim or submission.
Begin(j) ==
  /\ at[j] = "idle"
  /\ \E p \in Processes : opening[p] = "open"
  /\ \E k \in {"plan", "work", "review", "claim", "submit"} :
       /\ kind' = [kind EXCEPT ![j] = k]
       /\ GoTo(j, CASE k = "claim" -> "touching" [] k = "submit" -> "submitting"
                    [] OTHER -> "invoking")
  /\ UNCHANGED <<rows, duration, seen, codexMay, made, overtaken, spoiled>>

\* The invocation answers, raises a ProviderError, or finds its run cancelled.
Answer(j) ==
  /\ at[j] = "invoking"
  /\ \/ /\ GoTo(j, "answered")
        /\ \E d \in Durations : duration' = [duration EXCEPT ![j] = d]
        /\ UNCHANGED <<kind, seen>>
     \/ GoTo(j, "erring") /\ UNCHANGED <<kind, duration, seen>>
     \/ Finish(j)
  /\ UNCHANGED <<rows, codexMay, made, overtaken, spoiled>>

\* record_provider_usage, which raises when the run was deleted meanwhile: that ends a
\* planning and a review without a record, and a worker as RecordFailure says.
RecordUsage(j) ==
  /\ at[j] = "answered"
  /\ \/ GoTo(j, "counted") /\ UNCHANGED <<kind, duration, seen>>
     \/ kind[j] # "work" /\ Finish(j)
  /\ UNCHANGED <<rows, codexMay, made, overtaken, spoiled>>

\* A bug to find: the status of the row is kept.
ResultKeepingStatus(row, succeeded, status, latency) ==
  [ row EXCEPT !.successes = IF succeeded THEN @ + 1 ELSE @,
               !.failures = IF succeeded THEN @ ELSE @ + 1,
               !.latency = @ + latency ]

\* record_capability_result reads and writes the row in one transaction.
Result(row, succeeded, status, latency) ==
  [ row EXCEPT !.successes = IF succeeded THEN @ + 1 ELSE @,
               !.failures = IF succeeded THEN @ ELSE @ + 1,
               !.latency = @ + latency, !.status = status ]

Counting(pair, succeeded) ==
  IF succeeded THEN <<pair[1] + 1, pair[2]>> ELSE <<pair[1], pair[2] + 1>>

Record(e, succeeded, status, latency) ==
  /\ rows' = [rows EXCEPT ![e] = Result(@, succeeded, status, latency)]
  /\ made' = [made EXCEPT ![e] = Counting(@, succeeded)]

\* An answer makes Codex healthy, whatever it says: a plan, a worker's result, an
\* approval or a rejection.
RecordAnswer(j) ==
  /\ at[j] = "counted"
  /\ \/ /\ kind[j] = "plan"
        /\ Record("codex", TRUE, "healthy", duration[j])
        /\ GoTo(j, "routing") /\ UNCHANGED <<kind, duration, seen>>
     \/ /\ kind[j] \in {"work", "review"}
        /\ \E succeeded \in BOOLEAN : Record("codex", succeeded, "healthy", duration[j])
        /\ Finish(j)
  /\ UNCHANGED <<codexMay, overtaken, spoiled>>

\* What a worker's StateError or WorktreeError, before or after its answer, comes to: no
\* workspace, a run deleted meanwhile, or an output that cannot be integrated.
RecordFailure(j) ==
  /\ at[j] \in {"invoking", "answered", "counted"} /\ kind[j] = "work"
  /\ Record("codex", FALSE, "constrained", 0)
  /\ Finish(j)
  /\ UNCHANGED <<codexMay, overtaken, spoiled>>

\* A provider error is a failure without latency; only a quota leaves Codex available.
RecordError(j) ==
  /\ at[j] = "erring"
  /\ \E status \in {"constrained", "unavailable"} :
       /\ Record("codex", FALSE, status, 0)
       /\ spoiled' = IF status = "constrained" THEN spoiled
                     ELSE spoiled \cup {i \in Jobs : at[i] = "routing"}
  /\ Finish(j)
  /\ UNCHANGED <<codexMay, overtaken>>

\* The end of submit_host_result.
RecordHostResult(j) ==
  /\ at[j] = "submitting"
  /\ \E succeeded \in BOOLEAN :
       /\ Record("host", succeeded, IF succeeded THEN "healthy" ELSE "constrained", 0)
       /\ overtaken' = IF \E i \in Jobs : at[i] = "merging" THEN Counting(overtaken, succeeded)
                       ELSE overtaken
  /\ Finish(j)
  /\ UNCHANGED <<codexMay, spoiled>>

\* A bug to find: the row is made anew.
ReadHostAnew(j) ==
  /\ at[j] = "touching"
  /\ seen' = [seen EXCEPT ![j] = NoRow]
  /\ GoTo(j, "merging")
  /\ UNCHANGED <<rows, kind, duration, codexMay, made, overtaken, spoiled>>

\* _touch_host_capability: get_capability in one connection ...
ReadHost(j) ==
  /\ at[j] = "touching"
  /\ seen' = [seen EXCEPT ![j] = rows["host"]]
  /\ GoTo(j, "merging")
  /\ UNCHANGED <<rows, kind, duration, codexMay, made, overtaken, spoiled>>

\* ... and upsert_capability of all it read, made healthy, in another.
WriteHost(j) ==
  /\ at[j] = "merging"
  /\ rows' = [rows EXCEPT !["host"] = [seen[j] EXCEPT !.status = "healthy"]]
  /\ Finish(j)
  /\ UNCHANGED <<codexMay, made, overtaken, spoiled>>

\* list_capabilities and route_plan, after the planning has recorded its own success;
\* a run that is not for Codex only may use both.
Route(j) ==
  /\ at[j] = "routing"
  /\ \E task \in PlanTasks, executors \in {{"codex"}, Executors} :
       IF Selected(task, rows, executors) = {}
       THEN /\ GoTo(j, "blocked")
            /\ codexMay' = [codexMay EXCEPT ![j] = Allowed(task, "codex")]
            /\ UNCHANGED <<kind, duration, seen>>
       ELSE Finish(j) /\ UNCHANGED codexMay
  /\ UNCHANGED <<rows, made, overtaken, spoiled>>

Step(j) ==
  \/ Begin(j) \/ Answer(j) \/ RecordUsage(j) \/ RecordAnswer(j) \/ RecordFailure(j)
  \/ RecordError(j) \/ RecordHostResult(j) \/ ReadHost(j) \/ WriteHost(j) \/ Route(j)

Init == InitSchema /\ InitCapabilities
Next ==
  \/ NextSchema /\ UNCHANGED capVars
  \/ (\E j \in Jobs : Step(j)) /\ UNCHANGED schemaVars

Spec ==
  Init /\ [][Next]_databaseVars
    /\ \A p \in Processes : WF_databaseVars(Migrate(p) /\ UNCHANGED capVars)

-----------------------------------------------------------------------------
\* No result is forgotten or counted twice, whatever jobs of whatever processes record at
\* a time: the history that scores Codex is that of its results, and that of the host
\* lacks at most the results recorded between a claim's reading of the row and its
\* writing it back.
NothingForgotten ==
  /\ <<rows["codex"].successes, rows["codex"].failures>> = made["codex"]
  /\ rows["host"].successes \in (made["host"][1] - overtaken[1])..made["host"][1]
  /\ rows["host"].failures \in (made["host"][2] - overtaken[2])..made["host"][2]

\* Codex has just planned when a run is routed: a task it may do finds nobody only if
\* another job found Codex unavailable between the planning's record and its routing.
RoutingFailsForCause ==
  \A j \in Jobs : at[j] = "blocked" /\ codexMay[j] => j \in spoiled

\* Whether an average lowered by a failure without latency is worth less than the success
\* rate that falls with it, the total being at most 100 seconds a success, and one more.
Quick(row) == 3 * row.latency <= 10 * (row.successes + 1)

\* A failure brings no work: one that leaves a healthy executor constrained brings it no
\* task it would not have had before, whatever its latencies, and neither does one that
\* finds it constrained already, so long as it is quick.  A slow one may gain, because
\* the failure is recorded without a latency and lowers the average.
FailuresRepel ==
  [][\A e \in Executors :
       /\ rows'[e].failures > rows[e].failures
       /\ rows'[e].status = "constrained"
       /\ rows[e].status = "healthy" \/ (rows[e].status = "constrained" /\ Quick(rows[e]))
       => \A task \in PlanTasks, executors \in {{"codex"}, Executors} :
            e \in Selected(task, rows', executors) => e \in Selected(task, rows, executors)]_databaseVars
=============================================================================
