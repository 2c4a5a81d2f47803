CONSTANTS
    Connections = {c1, c2, c3}
    MaxConnections = 2
    MaxPriority = 2
    MaxObjectId = 4
SYMMETRY ConnectionSymmetry
SPECIFICATION QueueSpec
INVARIANTS
    QueueSorted
    QueueMatchesConnections
    WithinLimit
PROPERTIES
    ForcesOutTheLowest
    RefusedOnlyWhenOutranked
\* Every call may have ended.
CHECK_DEADLOCK FALSE
