CONSTANTS
  RamPages = 6
  FirstPage = 1
  TablePages = 1
  PageSize = 12
  Sizes = {4, 6}
  Requests = {4, 5, 6, 13}
  NPageRefs = 3
SPECIFICATION Spec
INVARIANTS BlocksPartitioned ListsAgree HeldApart PagesAccounted
CHECK_DEADLOCK FALSE
