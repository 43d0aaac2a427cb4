SPECIFICATION Spec
CONSTANTS
  t1 = t1
  t2 = t2
  Tasks <- MCTasks
  PidOf <- MCPidOf
  MAX_PIDS = 2
  Names <- MCNames
  NoName = ""
  Typed <- MCTyped
  Comms <- OneComm
  Ppids <- OnePpid
  Hooks <- ExecHooks
  RingBytes = 512
  MaxEvents = 2
  Options <- CountOptions
CHECK_DEADLOCK FALSE
INVARIANTS CountExact
