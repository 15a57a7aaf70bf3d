---------------------------- MODULE MCCapabilities ----------------------------
(* Two processes, databases of every version, two jobs; rows with and without *)
(* a history and latencies, the highest at the limit of what counts and of   *)
(* what FailuresRepel is about, and tasks that differ in what decides a      *)
(* routing.                                                                  *)
EXTENDS Capabilities

Row(status, successes, failures, latency) ==
  [status |-> status, successes |-> successes, failures |-> failures, latency |-> latency,
   declared |-> FALSE]

MCStartRows ==
  { NoRow, Row("constrained", 1, 0, 6), Row("unavailable", 0, 1, 0), Row("healthy", 0, 1, 50) }

Task(k, risk, preferred, mutates, requires) ==
  [kind |-> k, risk |-> risk, preferred |-> preferred, mutates |-> mutates, requires |-> requires]

MCPlanTasks ==
  {Task("testing", "medium", "host", TRUE, {}), Task("testing", "medium", "none", FALSE, {}),
   Task("research", "low", "none", TRUE, {"browser"}), Task("research", "low", "none", FALSE, {}),
   Task("review", "low", "host", FALSE, {"executor:host"}),
   Task("implementation", "high", "codex", TRUE, {"executor: codex"}),
   Task("documentation", "low", "none", TRUE, {"executor:other"}),
   Task("integration", "low", "host", TRUE, {"declared", "unknown"}) }
=============================================================================
