\* one file, evictions from three frames
SPECIFICATION OpSpec
CONSTANTS
  File = {f1}
  Fd = {d1}
  NumFrames = 3
  MaxPages = 4
  Value = {v1}
  Zero = Zero
  Absent = Absent
  NoFile = NoFile
  MaxPins = 1
PROPERTY
  ImplementsPageStore
