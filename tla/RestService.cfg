CONSTANTS
    c1 = c1
    c2 = c2
    Clients <- MCClients
    Dummy = Dummy
    Mixes <- MCMixes
    MaxParts = 2
    MaxWrites = 3
SPECIFICATION FairSpec
INVARIANTS
    RequestsCounted
    AnsweredOnce
    DeletedOnce
PROPERTIES
    ShutdownReturns
\* The service returns.
CHECK_DEADLOCK FALSE
