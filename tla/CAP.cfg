SPECIFICATION Spec
CONSTANTS
    Risk = {10, 30, 60, 90}
    Partitions <- MCPartitions
    Conflict <- MCConflict
INVARIANTS ReplicasAgree NoCausalRegress
PROPERTY RecoversFromPartitions
\* The process ends in a panic.
CHECK_DEADLOCK FALSE
