SPECIFICATION LiveSpec
CONSTANTS
    Block <- LiveBlocks
    Parent <- LiveParent
    NodeRoots = {"g", "x"}
    Genesis = "g"
    NoBlock = "none"
    Witness = {"w1", "w2"}
    NoWitness = "nowit"
    WitnessSize <- TwoSizes
    MaxHeight = 1
    Indexers = {"p"}
    NoOne = "nobody"
    MaxReorgDepth = 0
    RefreshDepth = 1
    LeaseMayBreak = FALSE
PROPERTIES
    Converges
