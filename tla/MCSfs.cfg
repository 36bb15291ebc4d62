CONSTANTS
  NBlocks = 7
  NDirect = 1
  DbPerId = 2
  Slots = 2
  Names = {a, b}
  Fds = {f1, f2}
  Values = {v}
  Zero = zero
  OpenFlags <- MCOpenFlags
  Transfers <- MCTransfers
  Faulty = TRUE
SPECIFICATION Spec
SYMMETRY Symmetry
VIEW View
INVARIANTS BlocksAccounted CountsExact  NoPanic
 
CHECK_DEADLOCK FALSE
