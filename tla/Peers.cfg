SPECIFICATION PeersSpec
CONSTANTS
    Conn <- MCConn
    Bootstrap = {"c3"}
    NodeID = {"x", "y"}
    Remote <- MCRemote
INVARIANTS EntriesHandled NothingLeaked HandledIsRegistered
PROPERTIES LoopsEnd ClosedLeave
\* A node that has stopped, or whose process has ended.
CHECK_DEADLOCK FALSE
