SPECIFICATION FairSpec
CONSTANTS
  t1 = t1
  t2 = t2
  Threads <- MCThreads
  PidOf <- MCPidOf
  PpidOf <- MCPpidOf
  MAX_PIDS = 2
  Names <- MCNames
  NoName = ""
  Typed <- MCNames
  Comms <- TwoComms
  SYSCALL_COUNT = 2
  HIST_SLOTS = 1
  StartMax = 1
  MaxTime = 1
  MaxCalls = 2
  Options <- PairedOptions
CHECK_DEADLOCK FALSE
INVARIANTS Conserved
PROPERTIES OnlyPaired Stops
