SPECIFICATION BSpec
CONSTANTS
  idle = idle
  start = start
  ts = ts
  tickd = tickd
  vfs = vfs
  pipedev = pipedev
  memfile = memfile
  tty = tty
  usart0_event = usart0_event
  ex = ex
  pm = pm
  init = init
  getty = getty
  timer = timer
  usart = usart
  NULL = NULL
  TASK_ANY = TASK_ANY
  PREEMPT = PREEMPT
  Task <- MCTask
  IdleTask = idle
  BootTask = start
  PrioMax = 5
  BootPrio = 2
  Event <- MCEvent
  MaskChoice <- MCMaskChoice
  Residue <- MCResidue
  Program <- MCProgram
  MaxTicks = 3
  NoMemory = FALSE
INVARIANTS
  SystemFirst
PROPERTIES
  Booted
