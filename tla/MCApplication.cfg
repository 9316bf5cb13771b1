SPECIFICATION Spec
CONSTANTS
    Apps <- SomeApps
    Alphabet <- Names0
    Words <- ThreeWords
    MaxWords = 3
    MaxFailures = 1
CHECK_DEADLOCK FALSE
INVARIANTS
    TypeOK
    NamesBelongToTheirOwners
    NothingLeftRunning
    RouteHasTheLastWord
    GatewaysReachRoutes
    NothingDroppedSilently
    KongKeepsLimits
    CorsKeptOrReported
PROPERTIES
    ShutdownInOrder
