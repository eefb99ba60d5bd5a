CONSTANTS
  s1 = s1
  s2 = s2
  Sessions <- Two
  Concurrency = 2
  Limit = 1
  MaxRepairs = 1
  MaxRequests = 2
  MaxDeaths = 1
  MaxFaults = 1
SPECIFICATION FairSpec
INVARIANTS
    RunsNeverOverlap
    BuildFollows
    BuildsAreClosed
PROPERTIES
    EveryRunEnds
CHECK_DEADLOCK FALSE
