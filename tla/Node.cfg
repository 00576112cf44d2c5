SPECIFICATION Spec
CONSTANTS
    Hash <- MCHash
    ZeroHash = ZeroHash
    NoHash = NoHash
    Address <- MCAddress
    ZeroAddress = ZeroAddress
    Transaction <- MCTransaction
    Block <- MCBlock4
    GenesisHash = "g"
    MaxUint64 = 7
    InitialAccounts <- MCInitialAccounts
    Time <- MCTime
    CompressEvery = 2
    ArchiveEvery = 3
    RootLengths <- RootsOfHashSize
    HashBytes = 32
    Peer = {p1, p2}
    Main = main
    MempoolSize = 1
    BatchSize = 1
    NoJob = NoJob
INVARIANTS BlockAppliedOnce StateFromChain BroadcastsApplied NoReplay
PROPERTY AlwaysReturns
\* The process ends in a panic.
CHECK_DEADLOCK FALSE

