SPECIFICATION Spec
CONSTANTS
    Hash <- MCHash
    ZeroHash = ZeroHash
    NoHash = NoHash
    Address <- MCAddress
    ZeroAddress = ZeroAddress
    Transaction <- MCTransaction
    GenesisHash = "g"
    MaxUint64 <- MCMaxUint64
    Block <- MCBlock
INVARIANTS IndexSound HeightIsMax NoOrphanLeftBehind GenesisKept
PROPERTIES BlocksImmutable CascadeEnds ImplementsBlockTree
