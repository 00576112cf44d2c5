SPECIFICATION Spec
CONSTANTS
    Hash <- MCHash
    ZeroHash = ZeroHash
    NoHash = NoHash
    Address <- MCAddress
    ZeroAddress = "zero"
    Transaction = {}
    Block <- MCBlock
    GenesisHash = "g"
    MaxUint64 = 7
    Validator = {"v1"}
    Peer = {p1, p2}
    Message <- MCMessage
    MaxReputation = 4
    Neutral = 3
    Reward = 1
    Penalty = 2
    NoMessage = NoMessage
    NoBlock = NoBlock
    VoteBound = 2
    EpochBound = 1
INVARIANTS ScoreExplained EpochCounts
PROPERTY CallsReturn
\* The process ends in a panic.
CHECK_DEADLOCK FALSE
