SPECIFICATION Spec
CONSTANTS
    Block <- ForkBlocks
    Parent <- ForkParent
    Genesis = "g"
    NoBlock = "none"
    Witness = {"w1"}
    NoWitness = "nowit"
    WitnessSize <- OneSize
    MaxHeight = 2
    Outcome = {"agree", "differ"}
    NoOutcome = "norow"
    Contents <- PlainContents
    NoDigest = "nodigest"
    NoAddress = "noaddress"
    Address = {"alice", "bob"}
    Maturity = 2
    ActivityLimit = 2
    RichLimit = 1
    HistoryLimit = 2
    PercentScale = 1000
    PageLimit = 2
    OfferedRow <- ForkRows
    Routes = {"status", "block", "block_auxpow"}
INVARIANTS
    AnswerOfOneState
