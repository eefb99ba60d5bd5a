SPECIFICATION Spec
CONSTANTS
    s1 = s1
    None = None
    NTurns = 2
    Editors = {s1}
    MaxSamples = 2
    OldSamples = 2
    MaxCalls = 2
    MaxFailures = 1
INVARIANTS
    UserInputIsKept
    BuildIsShown
    OneProblem
PROPERTIES
    SamplesAreMerged
    RepliesCome
CHECK_DEADLOCK FALSE
