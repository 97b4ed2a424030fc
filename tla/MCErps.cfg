CONSTANTS
  N = 3
  role <- RingRole
  rpl <- RingRpl
  failback = TRUE
  holdoff = FALSE
  patient = FALSE
  Signals <- LinkOnly
  Commands <- Nothing
  MaxFail = 2
  MaxFar = 0
  MaxCommand = 0
  MaxCycle = 3
  MaxHal = 0
SPECIFICATION Spec
INVARIANTS NoLoop ProtectsFailedPort OwnerWaits
CHECK_DEADLOCK FALSE
