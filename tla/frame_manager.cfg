\* the loop of AllocateFrame over three frames and four pages
SPECIFICATION Spec
CONSTANTS
  Fd = {d1, d2}
  MaxPages = 2
  Item = {i1, i2, i3}
  Nil = Nil
SYMMETRY Symmetry
INVARIANTS
  FramesAccounted
  LoopAnswers
