CONSTANTS
  Threads = {t1, t2}
  NBlocks = 2
  RawUsers = {t1}
  RawLens = {2}
  MaxTries = 2
  Values = {a, b}
SPECIFICATION Spec
INVARIANT SuccessIsWritten
