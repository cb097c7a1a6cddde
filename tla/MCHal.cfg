SPECIFICATION HalSpec
CONSTANTS
  Tasks = 3
  NoExitFn = {1, 2}
INVARIANTS
  RegistersKept
  TrapOnly
  IrqFlag
  StartsRight
