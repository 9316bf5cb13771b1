SPECIFICATION Spec
CONSTANTS
    n1 = n1
    n2 = n2
    m1 = m1
    m2 = m2
    id1 = id1
    id2 = id2
    id3 = id3
    Node = {n1, n2}
    Connection = {c1, c2}
    Room = {r1, r2}
    Broadcast = {m1, m2}
    Local = Local
    Origin <- FromEach
    ManagerId <- ManagerIds
    AdapterId <- AdapterIds
    HasFilter = TRUE
    CacheSize = 1
    Setups <- SomeSetups
SYMMETRY Symmetry
CHECK_DEADLOCK FALSE
INVARIANTS
    TypeOK
    AtMostOnce
    CountsAreRight
    NobodyForgotten
