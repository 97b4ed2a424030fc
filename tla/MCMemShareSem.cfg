SPECIFICATION Spec
CONSTANTS
  Procs = {1, 2}
  BlockCoun = 2
  MaxCrash = 2
  MaxSignal = 0
  MaxCall = 0
INVARIANTS Exclusive NoSharedBlock ListUsable LossBound
PROPERTIES Refines CallReturns 
