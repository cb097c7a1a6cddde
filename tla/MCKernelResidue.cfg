SPECIFICATION Spec
CONSTANTS
  idle = idle
  boot = boot
  t1 = t1
  t2 = t2
  timer = timer
  usart = usart
  NULL = NULL
  TASK_ANY = TASK_ANY
  PREEMPT = PREEMPT
  Task <- MCTask
  IdleTask = idle
  BootTask = boot
  PrioMax = 3
  BootPrio = 1
  Event <- MCEvent
  MaskChoice <- MCMaskChoice
  Residue <- WaitingResidue
VIEW LiveState
PROPERTIES
  EventWakesWaiter
