CONSTANTS
    s1 = s1
    s2 = s2
    Rest = Rest
    Grpc = Grpc
    Streams <- MCStreams
    Slots = {1, 2}
    Scopes <- MCScopes
    Programs <- MCPrograms
    ReadScopes <- MCReadScopes
    MaxConnections = 0
    Capacity = 2
    HeartbeatCalls = {"start1", "start2"}
    Nil = Nil
    MaxBroadcasts = 2
SPECIFICATION FairSpec
INVARIANTS
    EverySlotAnnounced
    ValuesOfScopeInOrder
    StoppedInPeace
    BeatsUnderControl
PROPERTIES
    CallsReturn
\* The server stops.
CHECK_DEADLOCK FALSE
