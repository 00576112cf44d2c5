SPECIFICATION Spec
CONSTANTS
    Hash <- MCHash
    ZeroHash = ZeroHash
    NoHash = NoHash
    Address <- MCAddress
    ZeroAddress = ZeroAddress
    Transaction <- MCTransaction
    Block <- MCBlock
    GenesisHash = "g"
    MaxUint64 = 7
    InitialAccounts <- MCInitialAccounts
    Time <- MCTime
    CompressEvery = 2
    ArchiveEvery = 3
    RootLengths <- RootsExact
    HashBytes = 32
    Peer = {p1, p2}
    Main = main
    MempoolSize = 1
    BatchSize = 1
    NoJob = NoJob
INVARIANT ChainApplied
