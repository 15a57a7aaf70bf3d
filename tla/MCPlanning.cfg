SPECIFICATION Spec
CONSTANTS
  Tasks <- MCTasks
  Unknown <- MCUnknown
  Answers <- MCAnswers
INVARIANTS
  AcceptsExactlyValidGraphs
  EndsAtFixpoint
PROPERTIES
  Terminates
CHECK_DEADLOCK FALSE
