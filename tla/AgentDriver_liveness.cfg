SPECIFICATION FairSpec
CONSTANTS
  Msgs = {m1, m2}
  MaxToolSteps = 1
PROPERTIES CancelSettles
