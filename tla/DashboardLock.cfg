SPECIFICATION Spec
CONSTANTS
  t1 = t1
  t2 = t2
  Tasks <- MCTasks
  PidOf <- MCPidOf
  MAX_PIDS = 2
  Names <- MCNames
  NoName = ""
  Typed <- MCTyped
  Comms <- OneComm
  Ppids <- OnePpid
  Hooks <- OneHook
  RingBytes = 256
  MaxEvents = 1
  STREAM_MAX = 1
  Options <- OneOption
CHECK_DEADLOCK FALSE
INVARIANTS DrawsUnlocked
