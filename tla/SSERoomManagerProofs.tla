------------------------ MODULE SSERoomManagerProofs ------------------------
(***************************************************************************)
(* Proofs about the room manager, for any sets of connections and rooms.   *)
(***************************************************************************)
EXTENDS SSERoomManager, TLAPS

(* Every join, of any set of rooms, keeps the two Maps typed, each other's *)
(* inverse and free of empty sets.                                         *)
LEMMA JoinKeepsInv ==
    ASSUME ManagerInv,
           NEW c \in Connection, NEW rs \in SUBSET Room,
           Join(c, rs)
    PROVE  ManagerInv'
<1> DEFINE new == rs \ GetRooms(c)
<1>1. ManagerTypeOK'
    BY DEF ManagerInv, ManagerTypeOK, Join, GetRooms, GetConnectionsInRoom
<1>2. ASSUME NEW k \in Connection
      PROVE  GetRooms(k)' = IF k = c THEN GetRooms(c) \cup rs ELSE GetRooms(k)
    BY <1>2 DEF Join, GetRooms
<1>3. ASSUME NEW r \in Room
      PROVE  GetConnectionsInRoom(r)' =
                 IF r \in new THEN GetConnectionsInRoom(r) \cup {c}
                              ELSE GetConnectionsInRoom(r)
    BY <1>3 DEF Join, GetConnectionsInRoom
<1>4. MapsAgree'
    BY <1>2, <1>3 DEF ManagerInv, MapsAgree
<1>5. NoEmptySets'
    BY DEF ManagerInv, NoEmptySets, Join, GetRooms, GetConnectionsInRoom
<1> QED
    BY <1>1, <1>4, <1>5 DEF ManagerInv

(* Every leave does too.                                                   *)
LEMMA LeaveKeepsInv ==
    ASSUME ManagerInv,
           NEW c \in Connection, NEW rs \in SUBSET Room,
           Leave(c, rs)
    PROVE  ManagerInv'
<1>1. ManagerTypeOK'
    BY DEF ManagerInv, ManagerTypeOK, Leave, GetRooms
<1>2. ASSUME NEW k \in Connection
      PROVE  GetRooms(k)' = IF k = c THEN GetRooms(c) \ rs ELSE GetRooms(k)
    BY <1>2 DEF Leave, GetRooms
<1>3. ASSUME NEW r \in Room
      PROVE  GetConnectionsInRoom(r)' =
                 IF r \in rs THEN GetConnectionsInRoom(r) \ {c}
                             ELSE GetConnectionsInRoom(r)
    BY <1>3 DEF Leave, GetConnectionsInRoom, NewlyEmpty
<1>4. MapsAgree'
    BY <1>2, <1>3 DEF ManagerInv, MapsAgree
<1>5. NoEmptySets'
    BY DEF ManagerInv, NoEmptySets, Leave, GetRooms, NewlyEmpty
<1> QED
    BY <1>1, <1>4, <1>5 DEF ManagerInv

(* The rooms of a connection are rooms.                                    *)
LEMMA RoomsTyped ==
    ASSUME ManagerTypeOK, NEW c \in Connection
    PROVE  GetRooms(c) \in SUBSET Room
BY DEF ManagerTypeOK, GetRooms

(* ManagerInv is inductive: the invariants of the room manager hold in     *)
(* every state it reaches.                                                 *)
THEOREM ManagerInvariant == SpecManager => []ManagerInv
<1>1. InitManager => ManagerInv
    BY DEF InitManager, ManagerInv, ManagerTypeOK, MapsAgree, NoEmptySets,
           GetRooms, GetConnectionsInRoom
<1>2. ManagerInv /\ [NextManager]_managerVars => ManagerInv'
  <2> SUFFICES ASSUME ManagerInv, [NextManager]_managerVars
               PROVE  ManagerInv'
    OBVIOUS
  <2>1. ASSUME NEW c \in Connection, NEW rs \in SUBSET Room, Join(c, rs)
        PROVE  ManagerInv'
    BY <2>1, JoinKeepsInv
  <2>2. ASSUME NEW c \in Connection, NEW rs \in SUBSET Room, Leave(c, rs)
        PROVE  ManagerInv'
    BY <2>2, LeaveKeepsInv
  <2>3. ASSUME NEW c \in Connection, LeaveAll(c)
        PROVE  ManagerInv'
    BY <2>3, RoomsTyped, LeaveKeepsInv DEF LeaveAll, ManagerInv
  <2>4. CASE UNCHANGED managerVars
    BY <2>4 DEF managerVars, ManagerInv, ManagerTypeOK, MapsAgree, NoEmptySets,
               GetRooms, GetConnectionsInRoom
  <2> QED
    BY <2>1, <2>2, <2>3, <2>4 DEF NextManager
<1> QED
    BY <1>1, <1>2, PTL DEF SpecManager

(* Each invariant on its own, in the form the run checks it.               *)
COROLLARY ManagerTypeCorrect == SpecManager => []ManagerTypeOK
<1>1. ManagerInv => ManagerTypeOK
    BY DEF ManagerInv
<1> QED
    BY <1>1, ManagerInvariant, PTL

(* Broadcast and disconnect, which read different Maps, never disagree     *)
(* about who is in a room.                                                 *)
COROLLARY MapsAlwaysAgree == SpecManager => []MapsAgree
<1>1. ManagerInv => MapsAgree
    BY DEF ManagerInv
<1> QED
    BY <1>1, ManagerInvariant, PTL

(* Neither Map ever keeps a key whose set has become empty.                *)
COROLLARY NeverEmptySets == SpecManager => []NoEmptySets
<1>1. ManagerInv => NoEmptySets
    BY DEF ManagerInv
<1> QED
    BY <1>1, ManagerInvariant, PTL

(* The two Maps mirror each other in every state: a room forgets a         *)
(* connection exactly when the connection forgets the room, and neither    *)
(* keeps an entry for what is gone.                                        *)
COROLLARY MapsAlwaysMirror == SpecManager => []MapsMirror
<1>1. ManagerInv => MapsMirror
    BY DEF ManagerInv, MapsMirror
<1> QED
    BY <1>1, ManagerInvariant, PTL

(* Every behaviour of the room manager is one of the membership relation,  *)
(* under the mapping of the module: joins add exactly their pairs, leaves  *)
(* remove exactly theirs, and leaveAll, which goes by the connection's     *)
(* own set, removes the connection from every room there is.               *)
THEOREM ManagerImplementsMembership == SpecManager => ImplementsMembership
<1> DEFINE mapped == {m \in Connection \X Room :
                          m[1] \in GetConnectionsInRoom(m[2])}
<1>1. InitManager => Membership!Init
    BY DEF InitManager, Membership!Init, GetConnectionsInRoom
<1>2. ManagerInv /\ [NextManager]_managerVars
        => [Membership!Next]_(mapped)
  <2> SUFFICES ASSUME ManagerInv, [NextManager]_managerVars
               PROVE  [Membership!Next]_(mapped)
    OBVIOUS
  <2>1. ASSUME NEW c \in Connection, NEW rs \in SUBSET Room, Join(c, rs)
        PROVE  Membership!Join(c, rs)
    <3>1. ASSUME NEW r \in Room, NEW k \in Connection
          PROVE  k \in GetConnectionsInRoom(r)' <=>
                    k \in GetConnectionsInRoom(r) \/ (k = c /\ r \in rs)
      BY <2>1, <3>1 DEF Join, GetConnectionsInRoom, ManagerInv, MapsAgree
    <3> QED
      BY <3>1 DEF Membership!Join
  <2>2. ASSUME NEW c \in Connection, NEW rs \in SUBSET Room, Leave(c, rs)
        PROVE  /\ \A r \in Room, k \in Connection :
                    k \in GetConnectionsInRoom(r)' <=>
                      k \in GetConnectionsInRoom(r) /\ ~(k = c /\ r \in rs)
               /\ Membership!Leave(c, rs)
    <3>1. ASSUME NEW r \in Room, NEW k \in Connection
          PROVE  k \in GetConnectionsInRoom(r)' <=>
                    k \in GetConnectionsInRoom(r) /\ ~(k = c /\ r \in rs)
      BY <2>2, <3>1 DEF Leave, GetConnectionsInRoom, NewlyEmpty
    <3> QED
      BY <3>1 DEF Membership!Leave
  <2>3. ASSUME NEW c \in Connection, LeaveAll(c)
        PROVE  Membership!LeaveAll(c)
    <3>1. \A r \in Room, k \in Connection :
             k \in GetConnectionsInRoom(r)' <=>
               k \in GetConnectionsInRoom(r) /\ ~(k = c /\ r \in GetRooms(c))
      BY <2>2, <2>3, RoomsTyped DEF LeaveAll, ManagerInv
    <3>2. \A r \in Room : c \in GetConnectionsInRoom(r) => r \in GetRooms(c)
      BY DEF ManagerInv, MapsAgree
    <3> QED
      BY <3>1, <3>2 DEF Membership!LeaveAll
  <2>4. CASE UNCHANGED managerVars
    BY <2>4 DEF managerVars, GetConnectionsInRoom
  <2> QED
    BY <2>1, <2>2, <2>3, <2>4 DEF NextManager, Membership!Next
<1> QED
    BY <1>1, <1>2, ManagerInvariant, PTL
    DEF SpecManager, ImplementsMembership, Membership!Spec
=============================================================================
