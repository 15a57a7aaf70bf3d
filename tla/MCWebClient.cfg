SPECIFICATION Spec
CONSTANTS
  Runs = {"r1", "r2"}
  Home <- MCHome
  None = None
  Starts <- MCStarts
  StartScopes = {"all"}
  PageSize = 1
  Calls = {1, 2}
  MaxActs = 4
  MaxTouches = 1
  MaxErrors = 1
INVARIANTS
  QuietShowsSelected
PROPERTIES
  ConfirmsWhatWasRead
  Settles
