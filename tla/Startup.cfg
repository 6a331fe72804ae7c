SPECIFICATION Spec
CONSTANTS
    Process = {p, q}
    Settings <- SomeSettings
    NetworkId = {"mainnet", "testnet", "devnet"}
    GenesisHash = {"gm", "gt"}
    MainnetGenesis = "gm"
    Source = {"u1", "u2"}
    None = None
    p = p
    q = q
INVARIANTS
    ServedIdentity
    MainnetFrozen
    IndexedIsBound
    QuorumAsked
PROPERTIES
    IdentityKept
SYMMETRY Swaps
