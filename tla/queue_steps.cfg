SPECIFICATION Spec
CONSTANTS
    p1 = p1
    p2 = p2
    q1 = q1
    claim = claim
    fileP = fileP
    fileQ = fileQ
    NoKey = NoKey
    Msgs <- ThreeMsgs
    Key <- MCKey
    Size <- MCSize
    BaseOverhead = 1
    MaxSizeBytes = 4
    MinBatch = 1
    MaxAttempts = 2
    Answers <- EveryAnswer
    CanStop = FALSE
INVARIANTS TypeOK WokenWithAnswer AnswerIsOwn LostOnlyByRace PendingIsBlocked OneProofPerFile BatchFits PostedOnce
PROPERTY KeepsPromise
CHECK_DEADLOCK FALSE
