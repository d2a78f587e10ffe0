SPECIFICATION Spec
CONSTANTS
  Msgs = {m1, m2}
  MaxToolSteps = 1
SYMMETRY Symmetry
INVARIANTS DisposalNeverLatches
