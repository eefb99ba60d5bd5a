SPECIFICATION Spec
CONSTANTS
    b1 = b1
    None = None
    PlanSpace <- MCPlanSpace
    MaxTests = 3
    MaxCaseCount = 2
    MaxManual = 2
    Background = {b1}
    MaxRuns = 2
    Meets <- MCMeets
    UserItems = {"scoring"}
    MaxEdits = 2
    MaxFailures = 1
INVARIANTS
    ChangesAreTold
    
PROPERTIES
    NothingIsLost
    OnlyAskedIsChanged
CHECK_DEADLOCK FALSE
