SPECIFICATION Spec
CONSTANTS
    MaxHeight = 2
    Source = {"zcash-rpc", "zcash-rpc-secondary"}
    Reply = {"main"}
    RefreshInterval = 2
    RefreshDepth = 1
    ReadyMaxAge = 1
    MaxGap = 5
    MayExchange = TRUE
    MayMove = FALSE
INVARIANTS
    TipRefreshed
