SPECIFICATION Spec
CONSTANTS
    Block <- LineBlocks
    Parent <- LineParent
    NodeRoots = {"g"}
    Genesis = "g"
    NoBlock = "none"
    Witness = {w1, w2}
    NoWitness = "nowit"
    WitnessSize <- OneSize
    MaxHeight = 2
    Indexers = {p}
    NoOne = "nobody"
    MaxReorgDepth = 1
    RefreshDepth = 1
    LeaseMayBreak = TRUE
SYMMETRY Swaps
INVARIANTS
    StoredWasBest
