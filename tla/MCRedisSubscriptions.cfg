SPECIFICATION FairSpec
CONSTANTS
    Connection = {c1, c2}
    Room = {r1, r2}
    MaxInFlight = 3
    MaxFailures = 1
INVARIANTS
    MapsMirror
    RecordMatchesRedis
    SettledUnlessRaced
PROPERTIES
    ImplementsMembership
    OccupiedRoomGetsSubscribed
