SPECIFICATION TtySpec
CONSTANTS
  Client = {u1}
  Letter = {a}
  LINE = 2
  MaxTyped = 2
  MaxAsked = 1
  NONE = NONE
  EOF = EOF
CHECK_DEADLOCK FALSE
INVARIANT
  TxRemembered
  ReadFresh
