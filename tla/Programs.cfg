CONSTANTS
    PropsRequests = 1
    Registries <- MCRegistries
    Nets = {"a"}
    MaxCandidates = 3
    c1 = c1
    c2 = c2
    s1 = s1
    s2 = s2
    Callers = {c1, c2}
    Signals = {s1, s2}
    Loads <- MCLoads
SPECIFICATION FairSpec
CHECK_DEADLOCK FALSE
INVARIANTS LifetimesRespected FaultsNeedRaces HeartbeatsOfRegistered
PROPERTIES ProgramsStop
