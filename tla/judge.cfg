CONSTANTS
  r1 = r1
  r2 = r2
  r3 = r3
  Judged <- OneJudged
  Hunts <- TwoHunts
  Size = 1
  NTests = 3
  GroupOf <- Grouped
  Points <- Worth
  Stops = {TRUE, FALSE}
  Rounds = 2
  Endings = {"OK", "RE", "XX"}
  Exits = {"ok", "wa", "fail", "points"}
  Ratios = {1, 2}
SPECIFICATION FairSpec

    
    
PROPERTIES
    EveryRequestIsAnswered
CHECK_DEADLOCK FALSE
