SPECIFICATION FairSpec
CONSTANTS
    NoFile = NoFile
    NoJob = NoJob
    top = top
    leaf = leaf
    name = name
    p1 = p1
    r1 = r1
    r2 = r2
    Files <- TwoFiles
    Names <- OneName
    Folders <- OneFolder
    Child <- MCChild
    Large <- OneLarge
    Missized <- OneMissized
    Requests <- TwoRequests
    Kinds <- MCKinds
    About <- MCAbout
    Paths <- SomePaths
    Providers <- OneProvider
    Crashes = TRUE
INVARIANTS TypeOK  RunningHasJob TempsRemoved
PROPERTIES ServedIsAsked NoPathIsReal ShownFallsForAReason DoneJobGoes
CHECK_DEADLOCK FALSE
