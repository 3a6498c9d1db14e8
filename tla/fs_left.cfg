SPECIFICATION LSpec
CONSTANTS
    file = file
    folder = folder
    cFile = cFile
    cTwin = cTwin
    cFolder = cFolder
    b1 = b1
    b2 = b2
    b3 = b3
    b4 = b4
    child = child
    g1 = g1
    g2 = g2
    NoCid = NoCid
    MerkleOf <- MCMerkleOf
    Procs <- TwoProcs
    Overlap = TRUE
    Contracts <- OneContract
    Merkles <- OneMerkle
    Blocks <- ThreeBlocks
    Roots <- TwoCuts
    Dag <- TwoCutsDag
    Puts <- TwoCutsDag
    Remote = {b2}
    Faults <- AllFaults
    Crashes = TRUE
INVARIANT NothingElseLeft
SYMMETRY Alike
