CONSTANTS
  Threads = {t1, t2}
  NoThread = NoThread
  Vm = Vm
  RamPages = 7
  FirstPage = 1
  PtrsPerPage = 3
  MaxReq = 2
  AvailMin = 2
  AvailMax = 4
SPECIFICATION Spec
INVARIANT FailureIsNull
CHECK_DEADLOCK FALSE
