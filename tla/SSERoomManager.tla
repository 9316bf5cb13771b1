--------------------------- MODULE SSERoomManager ---------------------------
(***************************************************************************)
(* The room manager of one node, lib/sse/rooms/SSERoomManager.ts.  It      *)
(* keeps the membership twice, once per connection and once per room, in   *)
(* JavaScript Maps: a key that is absent from the Map is absent from the   *)
(* function's domain.  Every method runs to its end without yielding to    *)
(* the event loop, so each is one action; the calls it makes to the        *)
(* adapter are named by NewlyOccupied and NewlyEmpty and are issued by the *)
(* module that composes the manager with an adapter.                       *)
(***************************************************************************)
EXTENDS Functions

CONSTANTS
    Connection,  \* ids of the connections of one node
    Room         \* names of the rooms

VARIABLES
    connectionRooms,  \* connection -> set of its rooms
    roomConnections   \* room -> set of its connections

managerVars == <<connectionRooms, roomConnections>>

-----------------------------------------------------------------------------
(* Queries                                                                 *)

GetRooms(c) == IF c \in DOMAIN connectionRooms THEN connectionRooms[c] ELSE {}

GetConnectionsInRoom(r) ==
    IF r \in DOMAIN roomConnections THEN roomConnections[r] ELSE {}

IsInRoom(c, r) == r \in GetRooms(c)

GetAllRooms == DOMAIN roomConnections

-----------------------------------------------------------------------------
(* The rooms for which a call reaches the adapter                          *)

\* join calls adapter.subscribe for the rooms that had no connection
NewlyOccupied(c, rs) ==
    {r \in rs \ GetRooms(c) : GetConnectionsInRoom(r) = {}}

\* leave calls adapter.unsubscribe for the rooms that lose their last one
NewlyEmpty(c, rs) ==
    {r \in rs \cap DOMAIN roomConnections : roomConnections[r] \ {c} = {}}

-----------------------------------------------------------------------------
InitManager ==
    /\ connectionRooms = [c \in {} |-> {}]
    /\ roomConnections = [r \in {} |-> {}]

\* join(c, rs): a room the connection is already in is skipped
Join(c, rs) ==
    LET new == rs \ GetRooms(c)
    IN  /\ connectionRooms' =
              [k \in DOMAIN connectionRooms \cup {x \in {c} : rs # {}} |->
                  IF k = c THEN GetRooms(c) \cup new ELSE connectionRooms[k]]
        /\ roomConnections' =
              [r \in DOMAIN roomConnections \cup new |->
                  IF r \in new THEN GetConnectionsInRoom(r) \cup {c}
                               ELSE roomConnections[r]]

\* deviation: the room forgets the connection, the connection keeps the room
LeaveOneSided(c, rs) ==
    /\ roomConnections' =
          [r \in DOMAIN roomConnections \ NewlyEmpty(c, rs) |->
              IF r \in rs THEN roomConnections[r] \ {c} ELSE roomConnections[r]]
    /\ UNCHANGED connectionRooms

\* deviation: the room is deleted although others are still in it
LeaveDeletesRoom(c, rs) ==
    /\ connectionRooms' =
          [k \in DOMAIN connectionRooms \ {x \in {c} : GetRooms(c) \subseteq rs} |->
              IF k = c THEN connectionRooms[c] \ rs ELSE connectionRooms[k]]
    /\ roomConnections' = [r \in DOMAIN roomConnections \ rs |-> roomConnections[r]]

\* leave(c, rs): a key left with an empty set is deleted from its Map
Leave(c, rs) ==
    /\ connectionRooms' =
          [k \in DOMAIN connectionRooms \ {x \in {c} : GetRooms(c) \subseteq rs} |->
              IF k = c THEN connectionRooms[c] \ rs ELSE connectionRooms[k]]
    /\ roomConnections' =
          [r \in DOMAIN roomConnections \ NewlyEmpty(c, rs) |->
              IF r \in rs THEN roomConnections[r] \ {c} ELSE roomConnections[r]]

\* leaveAll(c) leaves the rooms the connection's own set names
LeaveAll(c) == Leave(c, GetRooms(c))

NextManager ==
    \E c \in Connection :
        \/ \E rs \in SUBSET Room : Join(c, rs)
        \/ \E rs \in SUBSET Room : Leave(c, rs)
        \/ LeaveAll(c)

SpecManager == InitManager /\ [][NextManager]_managerVars

-----------------------------------------------------------------------------
ManagerTypeOK ==
    /\ DOMAIN connectionRooms \subseteq Connection
    /\ \A c \in DOMAIN connectionRooms : connectionRooms[c] \in SUBSET Room
    /\ DOMAIN roomConnections \subseteq Room
    /\ \A r \in DOMAIN roomConnections : roomConnections[r] \in SUBSET Connection

\* The two Maps are each other's inverse: a connection's set names a room
\* exactly when the room's set names the connection.  Broadcast reads one Map,
\* disconnect cleans up through the other.
MapsAgree ==
    \A c \in Connection, r \in Room :
        r \in GetRooms(c) <=> c \in GetConnectionsInRoom(r)

\* No Map keeps a key with an empty set: a long-lived server would grow
\* with every room that was ever joined, and getAllRooms would name it.
NoEmptySets ==
    /\ \A c \in DOMAIN connectionRooms : connectionRooms[c] # {}
    /\ \A r \in DOMAIN roomConnections : roomConnections[r] # {}

\* Both: however rooms are joined twice or left without having been joined,
\* the two Maps say the same and keep nothing of what has gone
\* (SSERoomManager.ts:50).
MapsMirror == MapsAgree /\ NoEmptySets

ManagerInv == ManagerTypeOK /\ MapsAgree /\ NoEmptySets

\* The manager implements the membership relation, read through the Map that
\* broadcasts read (getConnectionsInRoom), while leaveAll goes by the other.
Membership == INSTANCE RoomMembership WITH
    members <- {m \in Connection \X Room : m[1] \in GetConnectionsInRoom(m[2])}

ImplementsMembership == Membership!Spec
=============================================================================
