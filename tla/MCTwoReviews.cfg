SPECIFICATION ServiceSpec
CONSTANTS
  Tasks <- MCTasks
  Plans <- MCPlans
  Claimants <- MCClaimants
  Owners = {"dashboard"}
  HostServer = "mcp"
  Cancellers = {"mcp", "dashboard"}
  Dashboards = {"dashboard"}
  Calls = {"first", "second"}
  MaxParallel = 2
  Failures = {}
INVARIANT
  ReviewedOnce
CHECK_DEADLOCK FALSE
