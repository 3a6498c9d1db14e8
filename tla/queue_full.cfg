SPECIFICATION FairSpec
CONSTANTS
    p1 = p1
    p2 = p2
    q1 = q1
    claim = claim
    fileP = fileP
    fileQ = fileQ
    NoKey = NoKey
    Msgs <- FourMsgs
    Key <- MCKey
    Size <- MCSize
    BaseOverhead = 1
    MaxSizeBytes = 4
    MinBatch = 2
    MaxAttempts = 2
    Answers <- FullAnswers
    CanStop = FALSE
PROPERTY EveryWaiterReturns
CHECK_DEADLOCK FALSE
