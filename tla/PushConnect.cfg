CONSTANTS
    Threads = {t1, t2}
    Emitters = {e1}
    MaxUpdates = 2
    Surroundings <- MCSurroundings
    NoThread = NoThread
SPECIFICATION HeartbeatSpec
INVARIANTS
    CallSound
PROPERTIES
    UpdatesGetOut
    CancelledCallsEnd
\* The call ends.
CHECK_DEADLOCK FALSE
