SPECIFICATION Spec
CONSTANTS
  w1 = w1  w2 = w2  w3 = w3
  j1 = j1  j2 = j2
  c1 = c1  c2 = c2
  NoJob = NoJob
  Workers <- ThreeWorkers
  Jobs <- TwoJobs
  Priority <- SamePriority
  Clients <- TwoClients
  StartParams <- Elastic
  MaxLimit = 2
  MaxStarts = 1
  Api <- ClearAndDelete
  StartsFirst = FALSE
  SettledOwner = FALSE
INVARIANTS ThreadAccounting SubtractQueue OneShrinkAtATime DoingTracksThreads StopReachesAll NoJobForgotten
PROPERTIES KeepsPromise
SYMMETRY WorkerJobSymmetry
CHECK_DEADLOCK FALSE
