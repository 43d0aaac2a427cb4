SPECIFICATION Spec
CONSTANTS
  DAY = 24
  MaxUptime = 3
CHECK_DEADLOCK FALSE
INVARIANTS PrintedIsWallClock
