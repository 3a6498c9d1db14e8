SPECIFICATION FollowedSpec
CONSTANTS
    NoFile = NoFile
    f1 = f1
    f2 = f2
    w1 = w1
    w2 = w2
    m1 = m1
    Files <- OneFile
    Merkles <- OneMerkle
    MerkleOf <- Alone
    Workers <- TwoWorkers
    Threads = 1
    Half = 2
    MaxUploads = 1
    Exact = FALSE
    CidFails = TRUE
    CanStop = TRUE
INVARIANTS TypeOK CountedExactly
PROPERTIES OnlyDeadOrLostDeleted DeadDeleted CycleEnds
CHECK_DEADLOCK FALSE
