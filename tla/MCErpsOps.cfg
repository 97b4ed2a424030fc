CONSTANTS
  N = 2
  role <- RingRole
  rpl <- RingRpl
  failback = TRUE
  holdoff = TRUE
  patient = FALSE
  Signals <- LinkAndCc
  Commands <- Forced
  MaxFail = 1
  MaxFar = 0
  MaxCommand = 2
  MaxCycle = 2
  MaxHal = 1
SPECIFICATION Spec
INVARIANTS BlocksKnown Attended
CHECK_DEADLOCK FALSE
