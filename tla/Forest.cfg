SPECIFICATION Spec
CONSTANTS
    Reader = {r1, r2}
    NoKey = NoKey
    Key = {1}
    Data = {9}
    InitialLeaves <- MCInitialLeaves
    ShardLists <- MCShardLists
    Load = {100, 960}
    MaxShards = 3
    MaxMeasured = 4
    MaxAdded = 2
SYMMETRY Readers
INVARIANTS ChildrenInTree PathsLeadToRoot
PROPERTIES NothingLost IdsNeverReused
\* The bounds on shards, leaves and loads end the run.
CHECK_DEADLOCK FALSE
