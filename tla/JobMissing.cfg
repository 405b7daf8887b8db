SPECIFICATION Spec
CONSTANTS
  w1 = w1  w2 = w2  w3 = w3
  j1 = j1  j2 = j2
  c1 = c1  c2 = c2
  NoJob = NoJob
  Workers <- TwoWorkers
  Jobs <- OneJob
  Priority <- SamePriority
  Clients <- OneClient
  StartParams <- SingleThread
  MaxLimit = 2
  MaxStarts = 2
  Api <- StopAndRestart
  StartsFirst = TRUE
  SettledOwner = TRUE
INVARIANTS AssertJobWaiting
CHECK_DEADLOCK FALSE
