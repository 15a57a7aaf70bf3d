SPECIFICATION GitSpec
CONSTANTS
  Tasks <- MCTasks
  Plans <- MCPlans
  Claimants = {"worker"}
  Homes = {"mcp", "dashboard"}
  Clashes <- MCClashes
  MaxCommits = 2
  Disturbances = {}
INVARIANTS
  SucceededStaysIntegrated
CHECK_DEADLOCK FALSE
