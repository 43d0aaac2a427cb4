SPECIFICATION FairSpec
CONSTANTS
  t1 = t1
  t2 = t2
  Tasks <- MCTasks
  PidOf <- MCPidOf
  MAX_PIDS = 2
  Names <- MCNames
  NoName = ""
  Typed <- MCTyped
  Comms <- OneComm
  Ppids <- OnePpid
  Hooks <- SafetyHooks
  RingBytes = 512
  MaxEvents = 4
  Options <- SafetyOptions
CHECK_DEADLOCK FALSE
INVARIANTS TypeOK Accounting InOrder OneAfterSignal SummaryHonest AllOrNothing RingAsAsked
PROPERTIES Drains Stops Implements
