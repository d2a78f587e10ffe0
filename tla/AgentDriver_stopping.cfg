SPECIFICATION Spec
CONSTANTS
  Msgs = {m1, m2}
  MaxToolSteps = 2
SYMMETRY Symmetry
INVARIANTS StoppingOwesNothing
