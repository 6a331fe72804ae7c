SPECIFICATION Spec
CONSTANTS
    Block <- LineBlocks
    Parent <- LineParent
    NodeRoots = {"g"}
    Genesis = "g"
    NoBlock = "none"
    Witness = {"w1"}
    NoWitness = "nowit"
    WitnessSize <- OneSize
    MaxHeight = 2
    Indexers = {"p"}
    NoOne = "nobody"
    MaxReorgDepth = 1
    RefreshDepth = 1
    LeaseMayBreak = FALSE
PROPERTIES
    ReorgDepthBounded
