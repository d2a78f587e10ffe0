SPECIFICATION Spec
CONSTANTS
  h1 = h1
  h2 = h2
  Humans = {h1, h2}
  MaxRounds = 2
  MaxChanges = 3
  OuterListeners = FALSE
  Overlaps = FALSE
INVARIANTS TypeOK 
PROPERTIES   DurableFirst
CHECK_DEADLOCK FALSE
