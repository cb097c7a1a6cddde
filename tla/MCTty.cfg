SPECIFICATION TtySpec
CONSTANTS
  Client = {u1}
  Letter = {a}
  LINE = 2
  MaxTyped = 2
  MaxAsked = 2
  NONE = NONE
  EOF = EOF
CHECK_DEADLOCK FALSE
INVARIANTS
  Served
  OnlyThroughOpen
PROPERTIES
  WriteEnds
