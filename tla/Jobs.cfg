SPECIFICATION Spec
CONSTANTS
  MaxJobs = 2
  MaxOwners = 2
  Waits = {w1}
  Limit = 1
INVARIANTS TypeOK CompletionToldOnce TeardownComplete LiveWorkBounded
PROPERTY Settles
CHECK_DEADLOCK FALSE
