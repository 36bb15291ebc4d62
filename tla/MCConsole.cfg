CONSTANTS
  Threads = {main, t1}
  Main = main
  Lines <- TwoLines
  ReadLens = {2}
  DelayBufSize = 2
  MaxKeys = 3
SPECIFICATION Spec
INVARIANTS OneWriter OutputFaithful InputFaithful
PROPERTY OutputProgress
CHECK_DEADLOCK FALSE
