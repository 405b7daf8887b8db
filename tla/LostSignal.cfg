SPECIFICATION Spec
CONSTANTS
  stop = stop  job = job  extra = extra
  w1 = w1  w2 = w2  t1 = t1  t2 = t2
  Events <- StopAndJob
  Manual <- OnlyStop
  Waiters <- TwoWaiters
  Modes <- AnyOnly
  Loners <- Nobody
  Singles <- Nobody
  MaxCalls = 1
  MaxSets <- JobTwice
PROPERTIES SignalKept
CHECK_DEADLOCK FALSE
