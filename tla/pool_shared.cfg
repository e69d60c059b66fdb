\* every client call, close, deletion, crash: two frames for two files
SPECIFICATION Spec
CONSTANTS
  File = {f1, f2}
  Fd = {d1, d2}
  NumFrames = 2
  MaxPages = 3
  Value = {v1}
  Zero = Zero
  Absent = Absent
  NoFile = NoFile
  MaxPins = 2
SYMMETRY Symmetry
INVARIANTS
  TypeOK
  PinAccounting
  HeadersSound
  CountedPagesExist
  CleanFramesMatchDisk
  DisposalPending
