CONSTANTS
  ann = ann
  bob = bob
  guest = guest
  sum = sum
  r1 = r1
  r2 = r2
  Users <- Everybody
  Problems <- OneProblem
  Name <- Names
  Officials <- Ranked
  Facts <- Three
  Readers <- TwoReaders
  MaxEdits = 1
SPECIFICATION FairSpec
INVARIANTS
    ShownIsRight
PROPERTIES
    EventuallyFresh
