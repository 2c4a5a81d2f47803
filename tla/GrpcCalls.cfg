CONSTANTS
    MaxCalls = 2
    MaxServed = 2
    MaxParts = 2
    ServedTogether <- MCServedTogether
    AuthorizationEnabled = TRUE
    Nobody = Nobody
SPECIFICATION FairSpec
INVARIANTS
    ObjectsDriven
    StreamsComplete
PROPERTIES
    ImplementsRpcService
    ServiceStops
\* The service returns.
CHECK_DEADLOCK FALSE
