SPECIFICATION Spec
CONSTANTS
    NoFile = NoFile
    f1 = f1
    f2 = f2
    w1 = w1
    w2 = w2
    m1 = m1
    Files <- TwoFiles
    Merkles <- OneMerkle
    MerkleOf <- Twins
    Workers <- TwoWorkers
    Threads = 1
    Half = 4
    MaxUploads = 1
    Exact = TRUE
    CidFails = FALSE
    CanStop = TRUE
INVARIANT AtMostThreads
CHECK_DEADLOCK FALSE
