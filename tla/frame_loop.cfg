\* the loop of AllocateFrame ends: two frames
SPECIFICATION Spec
CONSTANTS
  Fd = {d1, d2}
  MaxPages = 2
  Item = {i1, i2}
  Nil = Nil
PROPERTY
  AllocateFrameReturns
