-------------------------------- MODULE Router --------------------------------
(***************************************************************************)
(* TaskRouter (src/agentbraid/router.py): who gets a task, by a score per  *)
(* executor.  The weights are counted in tenths and the scores compared as *)
(* fractions; Python adds them as floats, and what that changes is said at *)
(* Selected.                                                               *)
(***************************************************************************)
EXTENDS Integers, FiniteSets

Executors == {"codex", "host"}
Kinds == {"exploration", "planning", "implementation", "testing", "review", "research",
          "documentation", "integration"}
Risks == {"low", "medium", "high", "critical"}

\* What a task may require: an executor, spelled as the score expects it or with a
\* blank after the colon, one there is none of, or an ability, of both executors, of
\* the host, declared by a capability's metadata, or of nobody.
Constraints == {"executor:codex", "executor:host", "executor: codex", "executor:other"}
Abilities == {"testing", "browser", "declared", "unknown"}

TaskSpecs ==
  [ kind : Kinds, risk : Risks, preferred : Executors \cup {"none"},
    mutates : BOOLEAN, requires : SUBSET (Constraints \cup Abilities) ]

\* A capability row, "cooling" while its cooldown_until lies ahead; latency is the
\* total, in units of 30 seconds, which cost a tenth each on the average.
Statuses == {"healthy", "constrained", "cooled", "cooling", "unavailable"}
RowType ==
  [status : Statuses, successes : Nat, failures : Nat, latency : Nat, declared : BOOLEAN]

\* _select_capability, when there is no row for the executor's model.
NoRow == [status |-> "healthy", successes |-> 0, failures |-> 0, latency |-> 0, declared |-> FALSE]

KindFit ==
  [ codex |-> [ exploration |-> 7, planning |-> 15, implementation |-> 13, testing |-> 12,
                review |-> 15, research |-> 7, documentation |-> 8, integration |-> 20 ],
    host  |-> [ exploration |-> 10, planning |-> 4, implementation |-> 9, testing |-> 8,
                review |-> 3, research |-> 13, documentation |-> 11, integration |-> -10 ] ]

RiskScore ==
  [ codex |-> [low |-> 0, medium |-> 3, high |-> 8, critical |-> 12],
    host  |-> [low |-> 0, medium |-> -1, high |-> -8, critical |-> -20] ]

AvailabilityScore ==
  [healthy |-> 8, constrained |-> -10, cooled |-> -20, cooling |-> -10000, unavailable |-> -10000]

Builtin == [codex |-> {"testing"}, host |-> {"testing", "browser"}]

Has(e, row) == Builtin[e] \cup (IF row.declared THEN {"declared"} ELSE {})

\* The executor a constraint names, and whether the score takes it for that.
Named(c) ==
  CASE c \in {"executor:codex", "executor: codex"} -> "codex"
    [] c = "executor:host"                         -> "host"
    [] c = "executor:other"                        -> "other"
Spelled(c, e) == <<c, e>> \in {<<"executor:codex", "codex">>, <<"executor:host", "host">>}

RequirementScore(task, e, row) ==
  LET count(S) == Cardinality(S \cap task.requires)
      met == {c \in Constraints : Spelled(c, e)}
  IN 10 * count(met) - 10000 * count(Constraints \ met)
       + 5 * count(Has(e, row)) - 15 * count(Abilities \ Has(e, row))

\* The part of the score that comes in tenths.
Tenths(task, e, row) ==
  KindFit[e][task.kind] + RiskScore[e][task.risk] + AvailabilityScore[row.status]
    + RequirementScore(task, e, row)
    + (IF task.preferred = e THEN 20 ELSE 0)
    + (IF ~task.mutates THEN 0 ELSE IF e = "codex" THEN 8 ELSE -4)

Attempts(row) == row.successes + row.failures
AtLeast1(n) == IF n = 0 THEN 1 ELSE n

\* The smoothed success rate, as a fraction: 2 * ((s + 1) / (n + 2) - 1 / 2).
OutcomeNumerator(row) == row.successes - row.failures
OutcomeDenominator(row) == Attempts(row) + 2

\* A bug to find: the average is not capped.
LatencyUncapped(row) == row.latency

\* The average latency, as a fraction in tenths, at most 15 of them.
LatencyNumerator(row) ==
  LET n == AtLeast1(Attempts(row))
  IN IF row.latency > 15 * n THEN 15 * n ELSE row.latency

\* The whole score over its denominator, in tenths.
Denominator(row) == OutcomeDenominator(row) * AtLeast1(Attempts(row))
Numerator(task, e, row) ==
  Tenths(task, e, row) * Denominator(row)
    + 10 * OutcomeNumerator(row) * AtLeast1(Attempts(row))
    - LatencyNumerator(row) * OutcomeDenominator(row)

ScoreAtMost(task, e, row, f, other) ==
  Numerator(task, e, row) * Denominator(other) <= Numerator(task, f, other) * Denominator(row)

\* _executor_allowed, which takes the blank away that the score does not.
Allowed(task, e) ==
  LET named == {Named(c) : c \in Constraints \cap task.requires}
  IN named = {} \/ e \in named

Available(task, e, rows, executors) ==
  e \in executors /\ Allowed(task, e) /\ rows[e].status \notin {"cooling", "unavailable"}

\* Who may get the task: nobody (RoutingError), the available executor that scores
\* most, either one at equal scores.  The code then prefers Codex, but equal scores
\* are rarely equal floats: the sums differ in their last bit, one way or the other.
Selected(task, rows, executors) ==
  LET available == {e \in Executors : Available(task, e, rows, executors)}
  IN {e \in available : \A f \in available : ScoreAtMost(task, f, rows[f], e, rows[e])}
=============================================================================
