SPECIFICATION SemaSpec
CONSTANTS
  Client = {c1, c2, c3}
  Sema = {s1, s2}
  NULL = NULL
  MaxWaiting = 2
  MaxValue = 2
  InitVal = {0, 1}
CHECK_DEADLOCK FALSE
PROPERTY
  DeleteReturns
