SPECIFICATION Spec
CONSTANTS
    MaxHeight = 1
    Source = {"zcash-rpc", "zcash-rpc-secondary"}
    Reply = {"main", "side", "other_header", "missing", "down"}
    RefreshInterval = 1
    RefreshDepth = 1
    ReadyMaxAge = 1
    MaxGap = 4
    MayExchange = TRUE
    MayMove = TRUE
    Base = 6
    SOLUTION_OFFSET = 1
    SolutionLimit = 38
    TargetBytes = 4
INVARIANTS
    TypeOK
    ReadyBacked
    SolutionExact
    TargetExact
