\* the acknowledged commits of two runs
SPECIFICATION Spec
CHECK_DEADLOCK FALSE
CONSTANTS
  DataSize = 2
  Blocks = 2
  Lengths = {1, 2, 3}
  MaxRecords = 3
  MaxRuns = 2
INVARIANT CommittedIsReplayable
