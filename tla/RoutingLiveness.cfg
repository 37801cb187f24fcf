SPECIFICATION FairSpec
CONSTANTS
    Nodes = {n1}
    Requests = {r1, r2}
    Streaming = {r2}
    Reach <- ReachAll
    MaxAttempts = 1
    BreakerThreshold = 1
    HealthThreshold = 1
    DiscoveredStatuses = {"healthy"}
    AddedStatuses = {}
    Churning = {n1}
    Removable = {}
    Breakers = {b1, b2}
    NoNode = NoNode
    NoBreaker = NoBreaker
INVARIANT ReservationsCounted
PROPERTIES
    SweepsIdleNodes
    DrainCompletes
    RequestsFinish
    Recovers
