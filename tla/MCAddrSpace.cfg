CONSTANTS
  Programs = {p1, p2}
  Menu = Menu
  NFrames = 6
  NumTlb = 2
  Fanout = 2
  UserTop = 2
  StackPages = 1
  Unit = 2
  Executables <- MCExecutables
  MaxKernel = 1
SPECIFICATION Spec
SYMMETRY Symmetry
INVARIANTS TypeOK FramesExclusive FramesAccounted TlbCoherent TlbUnique NoDataLeak SegmentsAccessible
CHECK_DEADLOCK FALSE
