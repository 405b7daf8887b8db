SPECIFICATION Spec
CONSTANTS
  j1 = j1  j2 = j2  j3 = j3  t1 = t1  t2 = t2
  c1 = c1  c2 = c2  k1 = k1  k2 = k2
  NoJob = NoJob
  Jobs <- TwoJobs
  Threads <- OneThread
  Clients <- OneClient
  Cancellers <- OneCanceller
  BaseInit <- OneBase
  Deletes <- OnFinalize
  MaxSubmits = 1
  QuietClear = TRUE
  Guarded = TRUE
INVARIANTS EventFreedOnce
CHECK_DEADLOCK FALSE
