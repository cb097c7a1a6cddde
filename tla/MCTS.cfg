SPECIFICATION Spec
CONSTANTS
  Client = {c1, c2}
  TicksPerSec = 2
  SecMax = 2
  MinMax = 2
  HourMax = 2
  IntMod = 8
  DelayChoice <- MCDelayChoice
  TimeChoice <- MCTimeChoice
INVARIANTS
  UptimeExact
PROPERTIES
  DelayExact
  DelayEnds
