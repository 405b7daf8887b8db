SPECIFICATION FairSpec
CONSTANTS
  w1 = w1  w2 = w2  w3 = w3
  j1 = j1  j2 = j2
  c1 = c1  c2 = c2
  NoJob = NoJob
  Workers <- TwoWorkers
  Jobs <- TwoJobs
  Priority <- SecondUrgent
  Clients <- OneClient
  StartParams <- Fixed
  MaxLimit = 2
  MaxStarts = 1
  Api <- DeleteOnly
  StartsFirst = TRUE
  SettledOwner = TRUE
INVARIANTS TypeOK TakeFindsJob WaitCoversWorkers DestructorLeavesNothing
PROPERTIES KeepsPromise JobCompletes DeleteReturns
