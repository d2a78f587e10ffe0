SPECIFICATION Spec
CONSTANTS
  h1 = h1
  Humans = {h1}
  MaxRounds = 1
  MaxChanges = 2
  OuterListeners = TRUE
  Overlaps = FALSE
PROPERTY AdmittedRoundCurrent
CHECK_DEADLOCK FALSE
