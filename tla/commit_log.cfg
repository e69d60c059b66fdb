\* two runs of the server; a log buffer of two blocks, records shorter than,
\* as long as and longer than a block.  The last run may end the behaviour.
SPECIFICATION Spec
CHECK_DEADLOCK FALSE
CONSTANTS
  DataSize = 2
  Blocks = 2
  Lengths = {1, 2, 3}
  MaxRecords = 3
  MaxRuns = 2
INVARIANTS
  TypeOK
  LogAccounted
  CommitHandedOver
  CrashLeavesBeginning
