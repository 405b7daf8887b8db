SPECIFICATION Spec
CONSTANTS
  stop = stop  job = job  extra = extra
  w1 = w1  w2 = w2  t1 = t1  t2 = t2
  Events <- AllThree
  Manual <- OnlyStop
  Waiters <- OneWaiter
  Modes <- Timed
  Loners <- TwoLoners
  Singles <- Sleeps
  MaxCalls = 1
  MaxSets <- JobTwiceRest
SYMMETRY Threads
INVARIANTS TypeOK RefsExact NoLostWakeup LeftExact HonestResult NoSleeper NothingLeaks
PROPERTIES KeepsPromise
CHECK_DEADLOCK FALSE
