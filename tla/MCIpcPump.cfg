SPECIFICATION Spec
CONSTANTS
  Threads = {r1, r2}
  SigThread = r1
  TickThread = r1
  QueueMax = 1
  PipeMax = 1
  PipeFails = TRUE
  MaxMsg = 2
  MaxTick = 2
INVARIANTS NoLostWakeup TicksExact InOrder
PROPERTIES TicksServed Delivered
