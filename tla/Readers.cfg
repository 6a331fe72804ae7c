SPECIFICATION Spec
CONSTANTS
    Block <- ForkBlocks
    Parent <- ForkParent
    Genesis = "g"
    NoBlock = "none"
    Witness = {"w1", "w2"}
    NoWitness = "nowit"
    WitnessSize <- OneSize
    MaxHeight = 2
    Outcome = {"ok"}
    NoOutcome = "norow"
    Contents <- ForkContents
    NoDigest = "nodigest"
    NoAddress = "noaddress"
    Address = {"alice", "bob"}
    Maturity = 2
    ActivityLimit = 2
    RichLimit = 1
    HistoryLimit = 2
    PercentScale = 1000
    PageLimit = 2
    OfferedRow <- ForkRows
    Routes = {"block", "raw_block", "block_auxpow", "status", "blocks", "transactions", "transaction",
              "address", "search", "rich_list", "address_stats", "network_history"}
VIEW WithoutReorgEvents
INVARIANTS
    
    SnapshotExact
    BalanceIsReplay
    ActivityIsReplay
    RichListBalanced
    HistoryExact
    SearchExact
    DetailCoherent
    WalkExact
