SPECIFICATION FairSpec
CONSTANTS
    Connection = {c1, c2}
    Waiter = {w1, w2}
    CloseWaiter = {d1}
INVARIANTS
    UniqueSessions
    NobodyOverlooked
PROPERTIES
    ActiveWhenReturned
    PromisesSettle
