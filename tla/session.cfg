\* two tables, 39 lines, three of them read, one call that fails
SPECIFICATION Spec
CONSTANTS
  IntMax = 7
  SignBit = 4
  Epsilon = 1
  Hundredth = 4
  Names <- MCNames
  Lines <- MCLines
  Opened <- MCOpened
  Slots = {1, 2, 3}
  MaxLines = 3
  MaxScript = 2
  MaxFaults = 1
INVARIANTS
  TypeOK
  ShownAsMeant
  DeletedAsAnswered
  InsertedAsAnswered
  AnsweredForItself
  OwnTransaction
