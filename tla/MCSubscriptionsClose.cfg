SPECIFICATION DeliverySpec
CONSTANTS
    x = x
    y = y
    r1 = r1
    r2 = r2
    u1 = u1
    u2 = u2
    m1 = m1
    m2 = m2
    Nobody = Nobody
    Connection = {c1}
    Room = {r1, r2}
    User = {u1, u2}
    Resolver = {x, y}
    ConnectChain <- One
    RefreshChain <- One
    Call = {k1}
    RoomsOf <- Declared
    Message = {m1}
    Verdict <- OneMessage
    DefaultPolicy = "deny"
SYMMETRY Symmetry
CHECK_DEADLOCK FALSE
INVARIANTS
    ClosedLeavesRooms
