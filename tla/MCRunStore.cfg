SPECIFICATION Spec
CONSTANTS
  Tasks <- MCTasks
  Plans <- MCPlans
  Claimants = {"worker"}
INVARIANTS
  TypeOK
  DependenciesFirst
  Refreshed
  RunAgreesWithTasks
  NeverStuck
PROPERTIES
  ImplementsBoard
CHECK_DEADLOCK FALSE
