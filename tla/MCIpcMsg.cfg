SPECIFICATION Spec
CONSTANTS
  Mods = {m1, m2, m3}
  Types = {t1}
  Buffers = {1, 2, 3}
  NoBuf = 0
  QueueMax = 1
  ReplyMax = 1
  Retries = 2
  Polls = 1
  MaxSeq = 2
  MaxCrash = 1
INVARIANTS BufferConserved OwnOrAbandoned ReplyBound
PROPERTIES SyncReturns QueueServed
