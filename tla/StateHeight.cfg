SPECIFICATION Spec
CONSTANTS
    Hash <- MCHash
    ZeroHash = ZeroHash
    NoHash = NoHash
    Address <- MCAddress
    ZeroAddress = ZeroAddress
    Transaction <- MCTransaction
    Block <- MCBlock
    GenesisHash = "g"
    MaxUint64 = 7
    InitialAccounts <- MCInitialAccounts
    Time <- MCTime
    CompressEvery = 2
    ArchiveEvery = 4
    RootLengths <- RootsOfHashSize
    HashBytes = 32
INVARIANT StateAtHeight
\* The process ends in a panic.
CHECK_DEADLOCK FALSE
