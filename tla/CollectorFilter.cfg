SPECIFICATION Spec
CONSTANTS
  t1 = t1
  t2 = t2
  Tasks <- MCTasks
  PidOf <- MCPidOf
  MAX_PIDS = 2
  Names <- MCNames
  NoName = ""
  Typed <- MCTyped
  Comms <- TwoComms
  Ppids <- TwoPpids
  Hooks <- FilterHooks
  RingBytes = 256
  MaxEvents = 2
  Options <- FilterOptions
CHECK_DEADLOCK FALSE
PROPERTIES AdmitsOnlySelected
