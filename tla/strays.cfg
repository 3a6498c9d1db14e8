SPECIFICATION FairSpec
CONSTANTS
    NoFile = NoFile
    f1 = f1
    f2 = f2
    p1 = p1
    Files <- OneFile
    Providers <- OneProvider
    HandCount = 2
    Authorized <- SecondHand
    CanStop = TRUE
INVARIANTS TypeOK SharedOnlyByRefresh ProvesWhatIsStored
PROPERTIES StrayIsKept HandReturns
CHECK_DEADLOCK FALSE
