CONSTANTS
  N = 3
  role <- RingRole
  rpl <- RingRpl
  failback = TRUE
  holdoff = FALSE
  patient = TRUE
  Signals <- LinkOnly
  Commands <- Nothing
  MaxFail = 1
  MaxFar = 1
  MaxCommand = 0
  MaxCycle = 0
  MaxHal = 0
SPECIFICATION FairRestSpec
PROPERTIES Restores Connects
CHECK_DEADLOCK FALSE
