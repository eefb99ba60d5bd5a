SPECIFICATION ImportSpec
CONSTANTS
    a = a
    b = b
    i1 = i1
    i2 = i2
    None = None
    Imports = {i1, i2}
    Problems = {a, b}
    Folders <- MCFolders
    Documents <- MCDocuments
    RawTests <- MCRawTests
    Archive <- MCArchive
    Asked <- MCAsked
    AiResults = {"error", "code"}
    MaxJobs = 1
    MaxAttempts = 2
    MayExist = {b}
    MaxTroubles = 1
    MaxRestarts = 1
INVARIANTS
    ImportIsWhole
    ArchiveIsRead
    ImportsGoOn
CHECK_DEADLOCK FALSE
