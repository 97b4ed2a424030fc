SPECIFICATION Spec
CONSTANTS
  Timers = {t1, t2, t3, t4}
  NULL = NULL
  MaxTick = 3
  MaxNow = 5
INVARIANTS WellLinked GapsExact FiresOnTime ArmedIsListed NoLeakNoStray
SYMMETRY Interchangeable
