SPECIFICATION Spec
CONSTANTS
  Processes = {mcp, dashboard}
  Rows = {r1, r2}
  Jobs = {j1, j2}
  StartRows <- MCStartRows
  PlanTasks <- MCPlanTasks
  Durations = {4}
INVARIANTS
  VersionIsHonest
  OneMigrates
  NothingForgotten
  RoutingFailsForCause
PROPERTIES
  SomebodyOpens
  FailuresRepel
CHECK_DEADLOCK FALSE
