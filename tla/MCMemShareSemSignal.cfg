SPECIFICATION SpecSignal
CONSTANTS
  Procs = {1, 2}
  BlockCoun = 2
  MaxCrash = 0
  MaxSignal = 1
  MaxCall = 2
INVARIANT NeverWithout
