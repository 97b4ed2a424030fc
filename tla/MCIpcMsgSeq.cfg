SPECIFICATION Spec
CONSTANTS
  Mods = {m1, m2}
  Types = {t1, t2}
  Buffers = {1, 2, 3}
  NoBuf = 0
  QueueMax = 1
  ReplyMax = 1
  Retries = 2
  Polls = 1
  MaxSeq = 3
  MaxCrash = 0
INVARIANT SequenceMatches
