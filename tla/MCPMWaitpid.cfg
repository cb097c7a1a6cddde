SPECIFICATION Spec
CONSTANTS
  Pid = {p1, p2, p3}
  Struct = {s1, s2, s3}
  Block = {b1, b2, b3, b4}
  Code = {c0, c1}
  NULL = NULL
  TASK_ANY = TASK_ANY
SYMMETRY Symm
VIEW State
CHECK_DEADLOCK FALSE
PROPERTIES
  WaitpidDead
