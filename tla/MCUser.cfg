SPECIFICATION UserSpec
CONSTANTS
  SH = sh
  Pid = {sh, j1, j2, j3, j4, j5}
  MAX_FD = 8
  MAX_FILP = 10
  PD_MAX_NODES = 3
  Bytes = 2
  Data <- MCData
  Lines <- MCLines
  MaxLines = 1
  EOF = EOF
  NONE = NONE
  SessionPid = {p1, p2, p3, p4}
  Sessions = 1
  NULL = NULL
  Entry = Entry
  SpawnFails = TRUE
  MAX_CMDLINE = 10
  MAX_JOBLEN = 8
  MAX_ARGS = 2
  MaxTyped = 9
  MaxRedirects = 2
CHECK_DEADLOCK FALSE
INVARIANTS
  PromptRestored
  OutputComplete
  LineParsed
PROPERTIES
  JobsEnd
  Restarted
