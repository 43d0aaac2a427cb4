SPECIFICATION Spec
CONSTANTS
  Pids <- MCPids
  STREAM_MAX = 2
  TOP_MAX = 2
  PAGE = 2
  USIZE_MAX = 5
  MaxEvents = 4
CHECK_DEADLOCK FALSE
PROPERTIES UpScrollsOneRow
