SPECIFICATION FairSpec
CONSTANTS
  j1 = j1  j2 = j2  j3 = j3  t1 = t1  t2 = t2
  c1 = c1  c2 = c2  k1 = k1  k2 = k2
  NoJob = NoJob
  Jobs <- ThreeJobs
  Threads <- TwoThreads
  Clients <- OneClient
  Cancellers <- TwoCancellers
  BaseInit <- OneBase
  Deletes <- OnCancel
  MaxSubmits = 1
  QuietClear = TRUE
  Guarded = TRUE
INVARIANTS TypeOK EventFreedOnce CancelFindsEvent JobsInHandAlive OneFate
PROPERTIES ClearReturns JobSettles
CHECK_DEADLOCK FALSE
