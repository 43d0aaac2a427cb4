SPECIFICATION Spec
CONSTANTS
  t1 = t1
  t2 = t2
  Threads <- MCThreads
  PidOf <- MCPidOf
  PpidOf <- MCPpidOf
  MAX_PIDS = 2
  Names <- MCNames
  NoName = ""
  Typed <- MCNames
  Comms <- OneComm
  SYSCALL_COUNT = 1
  HIST_SLOTS = 2
  StartMax = 1
  MaxTime = 4
  MaxCalls = 2
  Options <- CountOptions
CHECK_DEADLOCK FALSE
INVARIANTS TypeOK Conserved EveryEnterCounted MaxExact LineFits
PROPERTIES SnapshotsGrow
