SPECIFICATION Spec
CONSTANTS
  iBlockSize <- MCBlockSize
  iBlockCoun <- MCBlockCoun
  CACHETBL_SIZE = 1024
  TBLALIGN_BYTES = 1024
  CHCHES_BYTES = 48
  BLKCTL_BYTES = 16
  SHMMAX = 67108864
  Probes = {0, 1, 48, 63}
INVARIANTS LayoutDisjoint LookupExact
