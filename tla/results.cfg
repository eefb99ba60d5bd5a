SPECIFICATION Spec
CONSTANTS
    ann = ann
    bob = bob
    r1 = r1
    r2 = r2
    c1 = c1
    c2 = c2
    History <- MCHistory
    Name <- MCName
    LangPatterns <- MCPatterns
    Percent <- MCPercent
    CheckOptions <- MCOptions
    Held <- MCHeld
    Threshold = 70
    BanThreshold = 90
    Requests = {r1}
    Reports = {c1}
    MaxEpoch = 1
INVARIANTS
    PointsAreSound
PROPERTIES
    BansAreKept
    ChecksEnd
