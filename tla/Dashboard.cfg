SPECIFICATION FairSpec
CONSTANTS
  t1 = t1
  t2 = t2
  Tasks <- MCTasks
  PidOf <- MCPidOf
  MAX_PIDS = 2
  Names <- MCNames
  NoName = ""
  Typed <- MCTyped
  Comms <- OneComm
  Ppids <- OnePpid
  Hooks <- MCHooks
  RingBytes = 256
  MaxEvents = 2
  STREAM_MAX = 1
  Options <- AllOptions
CHECK_DEADLOCK FALSE
INVARIANTS TypeOK SharedIsAggregate FramesAreConsistent NothingMissed DroppedLagsOnePoll
PROPERTIES Refreshes Stops Implements
