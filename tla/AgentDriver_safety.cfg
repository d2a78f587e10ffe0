SPECIFICATION Spec
CONSTANTS
  Msgs = {m1, m2, m3}
  MaxToolSteps = 2
SYMMETRY Symmetry
INVARIANTS TypeOK LogAccepted  LatchIsNeeded WakeIsRemembered
PROPERTIES  PromptsInOrder 
