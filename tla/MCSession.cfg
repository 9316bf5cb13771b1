SPECIFICATION RouteSpec
CONSTANTS
    MaxCalls = 2
    MaxReplay = 2
    Habits = {"earlyHeaders", "manualReplay"}
    Headers <- SomeHeaders
    Supported <- TwoFormats
    DefaultMode = "json"
    Status = {201, 404, 422}
    Schemas = {200, 404}
CHECK_DEADLOCK FALSE
INVARIANT TypeOK
INVARIANT HooksOnce
INVARIANT NoStaleMember
INVARIANT SendsInOrder
INVARIANT OneResponse
INVARIANT InvalidBodyIsServerError
PROPERTY CleanedUp
PROPERTY SendsGoOn
PROPERTY ClientGetsWhatItPrefers
