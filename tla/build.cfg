SPECIFICATION Spec
CONSTANTS
    generator = generator
    solution = solution
    b1 = b1
    e1 = e1
    None = None
    Files = {generator, solution}
    Builds = {b1}
    Edits = {e1}
    Plans <- MCPlans
    PlanSpace <- MCPlanSpace
    Settings <- MCSettings
    MaxFileFixAttempts = 1
    MaxAttempts = 2
    Tests = 3
    MaxHiccups = 1
INVARIANTS
    UploadedIsOnPolygon
    VerdictIsTrue
    RoundsAreBounded
    TestsAreGrouped
PROPERTIES
    BuildsEnd
CHECK_DEADLOCK FALSE
