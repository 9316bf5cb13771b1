SPECIFICATION DeliverySpec
CONSTANTS
    x = x
    y = y
    r1 = r1
    r2 = r2
    u1 = u1
    u2 = u2
    m1 = m1
    m2 = m2
    Nobody = Nobody
    Connection = {c1, c2}
    Room = {r1, r2}
    User = {u1, u2}
    Resolver = {x, y}
    ConnectChain <- Both
    RefreshChain <- Both
    Call = {k1}
    RoomsOf <- Declared
    Message = {m1, m2}
    Verdict <- TwoMessages
    DefaultPolicy = "deny"
SYMMETRY Symmetry
CHECK_DEADLOCK FALSE
INVARIANTS
    TypeOK
    UserIndexAgrees
    RoomsMatchContext
    GoneIsForgotten
    DeliveredToThePermitted
PROPERTIES
    FailureKeepsRooms
