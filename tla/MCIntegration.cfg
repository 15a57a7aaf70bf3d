SPECIFICATION GitSpec
CONSTANTS
  Tasks <- MCTasks
  Plans <- MCPlans
  Claimants = {"worker"}
  Homes = {"mcp", "dashboard"}
  Clashes <- MCClashes
  MaxCommits = 2
  Disturbances = {"crash", "edit"}
INVARIANTS
  SerializedKeepsSucceeded
  ConflictsAreReal
  UnfinishedLeavesNothing
  DeliveredIsWhole
CHECK_DEADLOCK FALSE
