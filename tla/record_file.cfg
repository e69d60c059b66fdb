\* three record pages of three slots and bytes of two bits; frames for the
\* header page and two others
SPECIFICATION Spec
CONSTANTS
  MaxPages = 4
  Capacity = 3
  ByteBits = 2
  Frames = 3
INVARIANTS
  TypeOK
  RowsKept
  ScanComplete
