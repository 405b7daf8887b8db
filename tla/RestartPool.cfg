SPECIFICATION FairSpec
CONSTANTS
  w1 = w1  w2 = w2  w3 = w3
  j1 = j1  j2 = j2
  c1 = c1  c2 = c2
  NoJob = NoJob
  Workers <- ThreeWorkers
  Jobs <- TwoJobs
  Priority <- SamePriority
  Clients <- OneClient
  StartParams <- SingleThread
  MaxLimit = 2
  MaxStarts = 3
  Api <- StopAndWait
  StartsFirst = TRUE
  SettledOwner = FALSE
INVARIANTS OneDispatchAtATime
PROPERTIES WaitEnds
CHECK_DEADLOCK FALSE
