CONSTANTS
  Threads = {m, a, b}
  Menu = m
  NoThread = NoThread
  Sems = {s}
  Lbolt = lbolt
  Null = Null
  HZ = 2
  QueueInit = 2
  ArrayKeep = 2
  MaxSecs = 2
  MaxCount = 1
SPECIFICATION Spec
PROPERTIES ZombiesPreallocated
CHECK_DEADLOCK FALSE
