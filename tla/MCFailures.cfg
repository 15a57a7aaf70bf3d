SPECIFICATION ServiceSpec
CONSTANTS
  Tasks <- MCTasks
  Plans <- OrderedPlans
  Claimants <- MCClaimants
  Owners = {"mcp", "dashboard"}
  HostServer = "mcp"
  Cancellers = {"mcp", "dashboard"}
  Dashboards = {"dashboard"}
  Calls = {"first", "second"}
  MaxParallel = 2
  Failures = {"crash", "abandon", "error"}
INVARIANTS
  CompletedWasApproved
  BackgroundFailureIsMarked
PROPERTIES
  ImplementsStore
  OneWorkerAtATask
CHECK_DEADLOCK FALSE
