\* a table of three places and two fields, five statements, one refused call
SPECIFICATION Spec
CONSTANTS
  Fields = {f, g}
  Values = {1, 2}
  Rids <- MCRids
  IndexNames = {x, y}
  LogRoom = 2
  MaxStatements = 5
  MaxFaults = 1
INVARIANTS
  TypeOK
  LogTellsRows
  CommitClosesTxn
  SucceededIsSynced
  IndexesExact
CHECK_DEADLOCK FALSE
