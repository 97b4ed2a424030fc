SPECIFICATION Spec
CONSTANTS
  POOL_MAX = 2
  iBlockSize <- MCBlockSize
  iBlockCoun <- MCBlockCoun
  Sizes <- MCSizes
  Modules <- MCModules
INVARIANTS TypeOK FreeListInv NoFalseExhaustion TotalsInv
PROPERTY OwnerStable
