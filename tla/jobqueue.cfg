CONSTANTS
  j1 = j1
  j2 = j2
  w1 = w1
  w2 = w2
  Jobs <- TwoJobs
  Unhandled <- Second
  Workers <- TwoWorkers
  Percents <- Half
  MaxAttempts = 2
  Batch = 2
  MaxAborts = 1
  MaxOverruns = 1
  MaxApiDeaths = 1
SPECIFICATION FairSpec
INVARIANT EntriesAreKept
PROPERTIES LifecycleSpec EventuallySettled
