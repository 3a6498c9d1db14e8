SPECIFICATION Spec
CONSTANTS
    file = file
    folder = folder
    cFile = cFile
    cTwin = cTwin
    cFolder = cFolder
    b1 = b1
    b2 = b2
    b3 = b3
    b4 = b4
    child = child
    g1 = g1
    g2 = g2
    NoCid = NoCid
    MerkleOf <- MCMerkleOf
    Procs <- TwoProcs
    Overlap = FALSE
    Contracts <- TwoContracts
    Merkles <- BothMerkles
    Blocks <- FileAndFolder
    Roots <- RecutRoots
    Dag <- RecutDag
    Puts <- RecutPuts
    Remote = {child, b2}
    Faults <- SomeFaults
    Crashes = TRUE
INVARIANTS TypeOK Servable
PROPERTY ActsAsStore
