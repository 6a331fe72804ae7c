SPECIFICATION Spec
CONSTANTS
    Block <- PairBlocks
    Parent <- PairParent
    NodeRoots = {"g"}
    Genesis = "g"
    NoBlock = "none"
    Witness = {"w1", "w2"}
    NoWitness = "nowit"
    WitnessSize <- TwoSizes
    MaxHeight = 1
    Indexers = {"p"}
    NoOne = "nobody"
    MaxReorgDepth = 1
    RefreshDepth = 1
    LeaseMayBreak = FALSE
INVARIANTS
    WitnessStorable
