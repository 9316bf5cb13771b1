--------------------------- MODULE RoomMembership ---------------------------
(***************************************************************************)
(* What the room manager promises, without its data structures: one        *)
(* relation between connections and rooms, which join extends, leave       *)
(* shrinks and leaveAll clears for one connection, each in a single step.  *)
(***************************************************************************)
CONSTANTS
    Connection,  \* ids of the connections of one node
    Room         \* names of the rooms

VARIABLE members \* the set of pairs <<c, r>> with connection c in room r

Init == members = {}

Join(c, rs) == members' = members \cup ({c} \X rs)

Leave(c, rs) == members' = members \ ({c} \X rs)

LeaveAll(c) == members' = {m \in members : m[1] # c}

Next ==
    \E c \in Connection :
        \/ \E rs \in SUBSET Room : Join(c, rs) \/ Leave(c, rs)
        \/ LeaveAll(c)

Spec == Init /\ [][Next]_members
=============================================================================
