SPECIFICATION Spec
CONSTANTS
    Block <- WideBlocks
    Parent <- WideParent
    NodeRoots = {"g", "x"}
    Genesis = "g"
    NoBlock = "none"
    Witness = {w1}
    NoWitness = "nowit"
    WitnessSize <- OneSize
    MaxHeight = 2
    Indexers = {p, q}
    p = p
    q = q
    w1 = w1
    NoOne = "nobody"
    MaxReorgDepth = 1
    RefreshDepth = 1
    LeaseMayBreak = FALSE
SYMMETRY Swaps
INVARIANTS
    SingleWriter
    TypeOK
    ChainIntegrity
    StoredWasBest
    ReadyCaughtUp
PROPERTIES
    ReorgRecorded
    MirrorSpec
