CONSTANTS
  s1 = s1
  s2 = s2
  w1 = w1
  w2 = w2
  Submissions <- Two
  Workers <- TwoWorkers
  Broken <- Second
  Tested <- Results
  Untested <- Logs
  MaxAttempts = 2
  MaxAborts = 1
  MaxOverruns = 1
  MaxOutages = 1
SPECIFICATION GradingFairSpec
INVARIANTS
    VerdictHasRuns
    ResultsAreStored
PROPERTIES
    EveryJobSettles
CHECK_DEADLOCK FALSE
