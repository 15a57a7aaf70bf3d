SPECIFICATION FairServiceSpec
CONSTANTS
  Tasks <- MCTasks
  Plans <- MCPlans
  Claimants <- MCClaimants
  Owners = {"mcp", "dashboard"}
  HostServer = "mcp"
  Cancellers = {"mcp", "dashboard"}
  Dashboards = {"dashboard"}
  Calls = {"first", "second"}
  MaxParallel = 2
  Failures = {}
INVARIANTS
  ReviewedOnceByEach
  RaisesOnlyIfStopped
PROPERTIES
  RunsEnd
  ReviewsConclude
  CancelledWorkStops
CHECK_DEADLOCK FALSE
