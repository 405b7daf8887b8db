SPECIFICATION FairSpec
CONSTANTS
  stop = stop  job = job  extra = extra
  w1 = w1  w2 = w2  t1 = t1  t2 = t2
  Events <- StopAndJob
  Manual <- OnlyStop
  Waiters <- TwoWaiters
  Modes <- AnyOnly
  Loners <- Nobody
  Singles <- Nobody
  MaxCalls = 2
  MaxSets <- JobTwice
INVARIANTS NoLostWakeup
PROPERTIES KeepsPromise SetReturns
CHECK_DEADLOCK FALSE
