SPECIFICATION FairSpec
CONSTANTS
    MaxHeight = 2
    Source = {"zcash-rpc", "zcash-rpc-secondary"}
    Reply = {"main"}
    RefreshInterval = 1
    RefreshDepth = 1
    ReadyMaxAge = 1
    MaxGap = 1
    MayExchange = FALSE
    MayMove = TRUE
INVARIANTS
    TipEvidenceFresh
PROPERTIES
    EveryRecordRefreshed
    ReadyRecovers
