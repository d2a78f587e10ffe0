SPECIFICATION FairSpec
CONSTANTS
  MaxTurns = 2
  MaxSteps = 1
  MaxCalls = 2
  MaxCrashes = 2
INVARIANTS TypeOK LogAccepted RepairConverges TranscriptTrue
PROPERTIES Resumes
CHECK_DEADLOCK FALSE
