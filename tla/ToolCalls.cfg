SPECIFICATION MCSpec
CONSTANTS
  N = 4
  Max = 2
INVARIANTS TypeOK LogAccepted EveryCallAnswered Barrier
PROPERTIES StopsOrderly Settles
