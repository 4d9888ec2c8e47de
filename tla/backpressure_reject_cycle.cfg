SPECIFICATION Spec
CONSTANTS
  Executors = {1, 2}
  Tasks = {t1, t2, t3, t4}
  t1 = t1
  t2 = t2
  t3 = t3
  t4 = t4
  Capacity = 1
  MaxRuns = 2
  Setups <- MutualReject
INVARIANT RejectNeverSticks
CHECK_DEADLOCK FALSE
