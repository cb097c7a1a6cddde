SPECIFICATION Spec
CONSTANTS
  Pid = {p1, p2, p3}
  MAX_FD = 2
  MAX_FILP = 2
  PD_MAX_NODES = 2
  Data = {d1, d2}
  EOF = EOF
  NONE = NONE
SYMMETRY Symm
VIEW State
CHECK_DEADLOCK FALSE
INVARIANTS
  FilpCounted
  NodeHeld
  HeldOnce
  NoWaitAtOneEnd
  BytesInOrder
