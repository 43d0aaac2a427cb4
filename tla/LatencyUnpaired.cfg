SPECIFICATION Spec
CONSTANTS
  t1 = t1
  t2 = t2
  Threads <- MCThreads
  PidOf <- MCPidOf
  PpidOf <- MCPpidOf
  MAX_PIDS = 2
  Names <- MCNames
  NoName = ""
  Typed <- MCNames
  Comms <- OneComm
  SYSCALL_COUNT = 2
  HIST_SLOTS = 1
  StartMax = 1
  MaxTime = 1
  MaxCalls = 3
  Options <- CountOptions
CHECK_DEADLOCK FALSE
PROPERTIES OnlyPaired
