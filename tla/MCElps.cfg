CONSTANTS
  West = West
  East = East
  Ends <- MCEnds
  Signals <- LinkOnly
  failback <- Mixed
  holdoff <- OneHoldoff
  MaxWire = 1
  MaxFail = 1
  MaxCommand = 2
  MaxCycle = 2
  MaxHal = 1
SPECIFICATION FairSpec
INVARIANTS WtrTimed HardwareFollows NoTimerOnFreedSession
PROPERTIES Agreement Protected
CHECK_DEADLOCK FALSE
