\* four tables, three frames, crashes at any moment
SPECIFICATION Spec
CONSTANTS
  t1 = t1
  t2 = t2
  t3 = t3
  t4 = t4
  long = long
  Table <- MCTable
  LongNames <- MCLong
  Index = {i}
  Attrs <- MCAttrs
  NumFrames = 3
SYMMETRY Symmetry
INVARIANTS
  TypeOK
  CreatedStays
  SchemaKept
  RefusedForCause
