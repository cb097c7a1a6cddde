SPECIFICATION Spec
CONSTANTS
  Pid = {p1, p2}
  MAX_FD = 2
  MAX_FILP = 2
  MAX_DEV = 4
  MF_MAX_NODES = 2
  MF_MAX_ENTRIES = 2
  Data = {97}
  Path <- Paths
  EOF = EOF
  NONE = NONE
SYMMETRY Symm
CHECK_DEADLOCK FALSE
INVARIANTS
  PosExact
  NodeCounted
