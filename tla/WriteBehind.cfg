SPECIFICATION FairSpec
CONSTANTS
  MaxEvents = 4
  Callers = {c1, c2, retirement}
  Retirement = retirement
INVARIANTS TypeOK NoEventStranded FlushKeepsPromise
PROPERTIES ImplementsPrefixStore EventuallyStored
CHECK_DEADLOCK FALSE
