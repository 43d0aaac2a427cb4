SPECIFICATION Spec
CONSTANTS
  t1 = t1
  t2 = t2
  Tasks <- MCTasks
  PidOf <- MCPidOf
  MAX_PIDS = 2
  Names <- MCNames
  NoName = ""
  Typed <- MCTyped
  Comms <- OneComm
  Ppids <- OnePpid
  Hooks <- ExecHooks
  RingBytes = 256
  MaxEvents = 2
  Options <- TailOptions
CHECK_DEADLOCK FALSE
PROPERTIES OneLinePerRecord
