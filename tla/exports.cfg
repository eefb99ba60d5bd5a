SPECIFICATION ExportSpec
CONSTANTS
    a = a
    b = b
    Unset = Unset
    NoGroup = NoGroup
    SafeNames = {"g0", "g1", "g2", "x", "y"}
    PlanPackages <- MCPackages
    j1 = j1
    j2 = j2
    Jobs = {j1, j2}
    Problems = {a, b}
    Wanted <- MCWanted
    Requests <- MCRequests
    OldContests = {1}
    BlockSize = 1
    MaxTries = 2
    MaxVersions = 2
    MaxTroubles = 2
INVARIANTS
    ProblemsAreServed
    ScoringIsFaithful
PROPERTIES
    BlocksAreFilled
SYMMETRY MCSymmetry
CHECK_DEADLOCK FALSE
