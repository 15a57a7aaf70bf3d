SPECIFICATION CleanupSpec
CONSTANTS
  Tasks <- MCTasks
  Plans <- MCPlans
  Claimants = {"worker"}
  HostTasks = {2}
  MaxCommits = 2
  Crashes = TRUE
INVARIANTS
  WorkSurvives
  AppliedIsReviewed
  NothingIsLeft
PROPERTIES
  DeletionResumes
CHECK_DEADLOCK FALSE
