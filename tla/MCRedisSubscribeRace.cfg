SPECIFICATION Spec
CONSTANTS
    Connection = {c1, c2}
    Room = {r1, r2}
    MaxInFlight = 3
    MaxFailures = 0
SYMMETRY Symmetry
INVARIANTS
    SubscribedWhileOccupied
