----------------------- MODULE SSESubscriptionsProofs -----------------------
(***************************************************************************)
(* Proofs about the subscription manager and its filter, for any sets of   *)
(* connections, users, rooms and resolvers, chains of any length and any   *)
(* number of calls that overlap.                                           *)
(***************************************************************************)
EXTENDS SubscriptionDelivery, SSERoomManagerProofs

RoomMap == UNION {[R -> SUBSET Room] : R \in SUBSET Resolver}
Tracked == [user : User, rooms : SUBSET Room, resolverRooms : RoomMap]

(* What the calls hold over their awaits.                                  *)
Pending == [conn : Connection, step : 1 .. Len(RefreshChain) + 1, was : Tracked,
            user : User, resolverRooms : RoomMap, failed : SUBSET Resolver]

ConnectOK(h) ==
    /\ h.step \in 0 .. Len(ConnectChain)
    /\ h.step > 0 => h.user \in User /\ h.resolverRooms \in RoomMap

(* The entry of the index, if there is one.                                *)
InIndex(index, c, u) == u \in DOMAIN index /\ c \in index[u]

IndexOK(index) ==
    /\ DOMAIN index \subseteq User
    /\ \A u \in DOMAIN index : index[u] \in (SUBSET Connection) \ {{}}

Typed ==
    /\ phase \in [Connection -> {"new", "open", "closing", "closed"}]
    /\ DOMAIN connecting \subseteq Connection
    /\ \A c \in DOMAIN connecting : ConnectOK(connecting[c])
    /\ DOMAIN connectionStates \subseteq Connection
    /\ \A c \in DOMAIN connectionStates : connectionStates[c] \in Tracked
    /\ IndexOK(userConnections)
    /\ DOMAIN refreshing \subseteq Call
    /\ \A k \in DOMAIN refreshing : refreshing[k] \in Pending
    /\ todo \in [Call -> SUBSET Connection]
    /\ raced \subseteq Connection

(* A session that has not begun is known to nobody.                        *)
NewIsUnknown ==
    \A c \in Connection : phase[c] = "new" =>
        /\ c \notin DOMAIN connecting
        /\ c \notin DOMAIN connectionStates
        /\ ~Refreshed(c)
        /\ GetRooms(c) = {}

(* On a connection no calls overlapped on there is one call at most: either *)
(* it is being connected, or it has a state, and a refresh of it read the   *)
(* state it still has.                                                      *)
OneCall ==
    \A c \in Connection \ raced :
        /\ c \in DOMAIN connecting => phase[c] = "open" /\ c \notin DOMAIN connectionStates
        /\ c \in DOMAIN connectionStates => phase[c] = "open"
        /\ \A k \in DOMAIN refreshing : refreshing[k].conn = c =>
              /\ c \in DOMAIN connectionStates
              /\ refreshing[k].was = connectionStates[c]
        /\ \A j, k \in DOMAIN refreshing :
              refreshing[j].conn = c /\ refreshing[k].conn = c => j = k

Asked(f) == {RefreshChain[i] : i \in 1 .. f.step - 1}

(* A resolver that was not asked yet, or threw, has the rooms it had.      *)
FailedKeep ==
    \A k \in DOMAIN refreshing :
        LET f == refreshing[k]
        IN  /\ f.failed \subseteq Asked(f)
            /\ \A x \in DOMAIN f.was.resolverRooms :
                  x \in f.failed \/ x \notin Asked(f) =>
                      /\ x \in DOMAIN f.resolverRooms
                      /\ f.resolverRooms[x] = f.was.resolverRooms[x]

SubscriptionInv ==
    /\ ManagerInv
    /\ Typed
    /\ NewIsUnknown
    /\ OneCall
    /\ FailedKeep
    /\ UserIndexAgrees
    /\ RoomsMatchContext

Turn == [is : {"asked", "allowed", "denied"}, conn : Connection,
         user : User \cup {Nobody}, had : SUBSET (User \cup {Nobody}),
         asked : Nat, hasAllow : BOOLEAN]

(* What a turn knows of the verdicts of the user it reads.                 *)
HeardSoFar(t) ==
    LET verdicts == Verdict[message][t.user]
    IN  /\ t.user \in User /\ t.user \in t.had
        /\ t.asked \in 0 .. Len(verdicts)
        /\ \A i \in 1 .. t.asked : verdicts[i] \notin {"deny", "throw"}
        /\ t.hasAllow <=> \E i \in 1 .. t.asked : verdicts[i] = "allow"

StillAsking(t) ==
    t.is = "asked" => HeardSoFar(t) /\ t.asked < Len(Verdict[message][t.user])

DeliveryInv ==
    /\ turn = NoTurn \/ turn \in Turn
    /\ turn # NoTurn => message \in Message /\ waiting = Nobody
    /\ waiting # Nobody => message \in Message /\ waiting \in Connection
    /\ StillAsking(turn)
    /\ DeliveredToThePermitted

-----------------------------------------------------------------------------
(* Maps: what a put leaves.                                                *)
LEMMA PutIs ==
    ASSUME NEW f, NEW k, NEW v
    PROVE  /\ DOMAIN Put(f, k, v) = DOMAIN f \cup {k}
           /\ Put(f, k, v)[k] = v
           /\ \A x \in DOMAIN f : x # k => Put(f, k, v)[x] = f[x]
BY DEF Put

(* What a delete leaves.                                                   *)
LEMMA DeleteIs ==
    ASSUME NEW f, NEW k
    PROVE  /\ DOMAIN Delete(f, k) = DOMAIN f \ {k}
           /\ \A x \in DOMAIN f : x # k => Delete(f, k)[x] = f[x]
BY DEF Delete, Restrict

(* The Map of rooms by resolver is one again after a put, and its union    *)
(* holds the rooms of each resolver and nothing but rooms.                 *)
LEMMA RoomMaps ==
    ASSUME NEW m \in RoomMap
    PROVE  /\ ComputeRoomUnion(m) \in SUBSET Room
           /\ \A x \in DOMAIN m : m[x] \subseteq ComputeRoomUnion(m)
           /\ \A x \in Resolver, rs \in SUBSET Room : Put(m, x, rs) \in RoomMap
<1>1. PICK R \in SUBSET Resolver : m \in [R -> SUBSET Room]
    BY DEF RoomMap
<1>2. ASSUME NEW x \in Resolver, NEW rs \in SUBSET Room
      PROVE  Put(m, x, rs) \in RoomMap
  <2>1. Put(m, x, rs) \in [R \cup {x} -> SUBSET Room]
    BY <1>1 DEF Put
  <2>2. R \cup {x} \in SUBSET Resolver
    OBVIOUS
  <2> QED
    BY <2>1, <2>2 DEF RoomMap
<1> QED
    BY <1>1, <1>2 DEF ComputeRoomUnion

(* Taking a connection out of the entry of a user takes nothing else out,  *)
(* and no entry is left empty.                                             *)
LEMMA UnindexedIs ==
    ASSUME NEW index, IndexOK(index), NEW c \in Connection, NEW u
    PROVE  /\ IndexOK(Unindexed(index, c, u))
           /\ \A d \in Connection, v \in User :
                 InIndex(Unindexed(index, c, u), d, v)
                    <=> InIndex(index, d, v) /\ ~(d = c /\ v = u)
<1> DEFINE new == Unindexed(index, c, u)
<1>1. CASE u \notin DOMAIN index
    BY <1>1 DEF IndexOK, InIndex, Unindexed
<1>2. CASE u \in DOMAIN index /\ index[u] \subseteq {c}
  <2>1. /\ DOMAIN new = DOMAIN index \ {u}
        /\ \A v \in DOMAIN new : new[v] = index[v]
    BY <1>2, DeleteIs DEF Unindexed
  <2> QED
    BY <1>2, <2>1 DEF IndexOK, InIndex
<1>3. CASE u \in DOMAIN index /\ ~(index[u] \subseteq {c})
  <2>1. /\ DOMAIN new = DOMAIN index
        /\ new[u] = index[u] \ {c}
        /\ \A v \in DOMAIN new : v # u => new[v] = index[v]
    BY <1>3 DEF Unindexed
  <2>2. new[u] # {}
    BY <1>3, <2>1
  <2> QED
    BY <1>3, <2>1, <2>2 DEF IndexOK, InIndex
<1> QED
    BY <1>1, <1>2, <1>3

(* Entering it adds just this.                                             *)
LEMMA IndexedIs ==
    ASSUME NEW index, IndexOK(index), NEW c \in Connection, NEW u \in User
    PROVE  /\ IndexOK(Indexed(index, c, u))
           /\ \A d \in Connection, v \in User :
                 InIndex(Indexed(index, c, u), d, v)
                    <=> InIndex(index, d, v) \/ (d = c /\ v = u)
BY DEF IndexOK, InIndex, Indexed, Put

(* A connection that was entered under the previous user only is entered   *)
(* under the next one only.                                                *)
LEMMA RekeyIs ==
    ASSUME NEW index, IndexOK(index), NEW c \in Connection, NEW u, NEW w \in User
    PROVE  /\ IndexOK(RekeyUserConnection(index, c, u, w))
           /\ \A d \in Connection, v \in User :
                 InIndex(RekeyUserConnection(index, c, u, w), d, v)
                    <=> IF d = c /\ u # w THEN v = w \/ (InIndex(index, c, v) /\ v # u)
                                         ELSE InIndex(index, d, v)
<1>1. CASE u = w
    BY <1>1 DEF RekeyUserConnection
<1>2. CASE u # w
    BY <1>2, UnindexedIs, IndexedIs DEF RekeyUserConnection
<1> QED
    BY <1>1, <1>2

-----------------------------------------------------------------------------
(* Joins and leaves touch the rooms of the one connection.                 *)
LEMMA JoinSetsRooms ==
    ASSUME NEW c \in Connection, NEW rs \in SUBSET Room, Join(c, rs)
    PROVE  \A d \in Connection :
              GetRooms(d)' = IF d = c THEN GetRooms(c) \cup rs ELSE GetRooms(d)
BY DEF Join, GetRooms

(* Leaving all rooms leaves the connection none.                           *)
LEMMA LeaveAllSetsRooms ==
    ASSUME NEW c \in Connection, LeaveAll(c)
    PROVE  \A d \in Connection : GetRooms(d)' = IF d = c THEN {} ELSE GetRooms(d)
BY DEF LeaveAll, Leave, GetRooms

(* Applying the difference of two sets of rooms keeps the room manager's   *)
(* two Maps in agreement, whatever rooms the connection really is in, and  *)
(* brings it from the first set to the second when it is in the first.     *)
LEMMA ApplyRoomDiffKeepsInv ==
    ASSUME ManagerInv,
           NEW c \in Connection, NEW current \in SUBSET Room, NEW new \in SUBSET Room,
           ApplyRoomDiff(c, current, new)
    PROVE  /\ ManagerInv'
           /\ \A d \in Connection : d # c => GetRooms(d)' = GetRooms(d)
           /\ GetRooms(c)' = (GetRooms(c) \cup (new \ current)) \ (current \ new)
<1> DEFINE mine == (GetRooms(c) \cup (new \ current)) \ (current \ new)
<1>1. mine \in SUBSET Room
    BY RoomsTyped DEF ManagerInv
<1>2. connectionRooms' = IF mine = {} THEN Delete(connectionRooms, c)
                                      ELSE Put(connectionRooms, c, mine)
    BY DEF ApplyRoomDiff
<1>3. \A d \in Connection : GetRooms(d)' = IF d = c THEN mine ELSE GetRooms(d)
  <2>1. CASE mine = {}
    <3>1. /\ DOMAIN connectionRooms' = DOMAIN connectionRooms \ {c}
          /\ \A d \in DOMAIN connectionRooms :
                d # c => connectionRooms'[d] = connectionRooms[d]
      <4>1. connectionRooms' = Delete(connectionRooms, c)
        BY <1>2, <2>1
      <4> QED
        BY <4>1, DeleteIs
    <3> HIDE DEF mine
    <3> QED
      BY <2>1, <3>1 DEF GetRooms
  <2>2. CASE mine # {}
    <3>1. /\ DOMAIN connectionRooms' = DOMAIN connectionRooms \cup {c}
          /\ connectionRooms'[c] = mine
          /\ \A d \in DOMAIN connectionRooms :
                d # c => connectionRooms'[d] = connectionRooms[d]
      <4>1. connectionRooms' = Put(connectionRooms, c, mine)
        BY <1>2, <2>2
      <4> HIDE DEF mine
      <4> QED
        BY <4>1 DEF Put
    <3> HIDE DEF mine
    <3> QED
      BY <2>2, <3>1 DEF GetRooms
  <2> QED
    BY <2>1, <2>2
<1>4. ASSUME NEW r \in Room, NEW d \in Connection
      PROVE  d \in GetConnectionsInRoom(r)' <=>
                IF d = c THEN r \in mine ELSE d \in GetConnectionsInRoom(r)
  <2>1. r \in GetRooms(c) <=> c \in GetConnectionsInRoom(r)
    BY DEF ManagerInv, MapsAgree
  <2>2. CASE r \in new \ current
    BY <2>2 DEF ApplyRoomDiff, GetConnectionsInRoom
  <2>3. CASE r \in current \ new
    BY <2>3 DEF ApplyRoomDiff, GetConnectionsInRoom
  <2>4. CASE r \notin new \ current /\ r \notin current \ new
    BY <2>1, <2>4 DEF ApplyRoomDiff, GetConnectionsInRoom
  <2> QED
    BY <2>2, <2>3, <2>4
<1>5. MapsAgree'
    BY <1>3, <1>4 DEF ManagerInv, MapsAgree
<1>6. ASSUME NEW r \in DOMAIN roomConnections'
      PROVE  r \in Room /\ roomConnections'[r] \in SUBSET Connection /\ roomConnections'[r] # {}
  <2>1. r \in new \ current \/ r \in DOMAIN roomConnections
    BY <1>6 DEF ApplyRoomDiff
  <2>2. CASE r \in new \ current
    BY <1>6, <2>2 DEF ApplyRoomDiff, GetConnectionsInRoom, ManagerInv, ManagerTypeOK
  <2>3. CASE r \in current \ new
    BY <1>6, <2>1, <2>3
    DEF ApplyRoomDiff, GetConnectionsInRoom, ManagerInv, ManagerTypeOK
  <2>4. CASE r \notin new \ current /\ r \notin current \ new
    BY <1>6, <2>1, <2>4 DEF ApplyRoomDiff, ManagerInv, NoEmptySets, ManagerTypeOK
  <2> QED
    BY <2>2, <2>3, <2>4
<1>7. ASSUME NEW d \in DOMAIN connectionRooms'
      PROVE  /\ d \in Connection /\ connectionRooms'[d] \in SUBSET Room
             /\ connectionRooms'[d] # {}
  <2>1. CASE mine = {}
    <3>1. connectionRooms' = Delete(connectionRooms, c)
      BY <1>2, <2>1
    <3>2. d \in DOMAIN connectionRooms /\ connectionRooms'[d] = connectionRooms[d]
      BY <1>7, <3>1, DeleteIs
    <3> QED
      BY <3>2 DEF ManagerInv, NoEmptySets, ManagerTypeOK
  <2>2. CASE mine # {}
    <3>1. connectionRooms' = Put(connectionRooms, c, mine)
      BY <1>2, <2>2
    <3> HIDE DEF mine
    <3>2. \/ d = c /\ connectionRooms'[d] = mine
          \/ d \in DOMAIN connectionRooms /\ connectionRooms'[d] = connectionRooms[d]
      BY <1>7, <3>1 DEF Put
    <3> QED
      BY <1>1, <2>2, <3>2 DEF ManagerInv, NoEmptySets, ManagerTypeOK
  <2> QED
    BY <2>1, <2>2
<1>8. NoEmptySets' /\ ManagerTypeOK'
    BY <1>6, <1>7 DEF NoEmptySets, ManagerTypeOK
<1> QED
    BY <1>3, <1>5, <1>8 DEF ManagerInv

(* Steps that leave the room manager alone leave everyone's rooms.         *)
LEMMA ManagerUnchanged ==
    ASSUME ManagerInv, UNCHANGED managerVars
    PROVE  /\ ManagerInv'
           /\ \A c \in Connection : GetRooms(c)' = GetRooms(c)
BY DEF managerVars, ManagerInv, ManagerTypeOK, MapsAgree, NoEmptySets,
       GetRooms, GetConnectionsInRoom

(* What the invariant says of the types is what TypeOK says.               *)
LEMMA TypedIsTypeOK == SubscriptionInv => TypeOK
BY DEF SubscriptionInv, Typed, TypeOK, ManagerInv, Pending, Tracked, RoomMap, IndexOK

-----------------------------------------------------------------------------
(* A session begins.                                                       *)
LEMMA HandleConnectKeepsInv ==
    ASSUME SubscriptionInv, NEW c \in Connection, HandleConnect(c)
    PROVE  SubscriptionInv'
<1>1. /\ phase[c] = "new" /\ phase' = [phase EXCEPT ![c] = "open"]
      /\ DOMAIN connecting' = DOMAIN connecting \cup {c}
      /\ connecting'[c] = [step |-> 0]
      /\ \A d \in DOMAIN connecting : d # c => connecting'[d] = connecting[d]
    BY DEF HandleConnect, Put
<1>2. ManagerInv' /\ \A d \in Connection : GetRooms(d)' = GetRooms(d)
    BY ManagerUnchanged DEF SubscriptionInv, HandleConnect
<1>3. UNCHANGED <<connectionStates, userConnections, refreshing, todo, raced>>
    BY DEF HandleConnect
<1>4. Typed'
  <2>1. ConnectOK([step |-> 0])
    BY ChainAssumption DEF ConnectOK
  <2> QED
    BY <1>1, <1>3, <2>1 DEF SubscriptionInv, Typed, IndexOK, ConnectOK
<1>5. NewIsUnknown'
    BY <1>1, <1>2, <1>3 DEF SubscriptionInv, Typed, NewIsUnknown, Refreshed
<1>6. OneCall'
    BY <1>1, <1>3 DEF SubscriptionInv, Typed, OneCall, NewIsUnknown
<1>7. FailedKeep'
    BY <1>3 DEF SubscriptionInv, FailedKeep, Asked
<1>8. UserIndexAgrees'
    BY <1>3 DEF SubscriptionInv, UserIndexAgrees
<1>9. RoomsMatchContext'
    BY <1>1, <1>2, <1>3 DEF SubscriptionInv, Typed, RoomsMatchContext, NewIsUnknown
<1> QED
    BY <1>2, <1>4, <1>5, <1>6, <1>7, <1>8, <1>9 DEF SubscriptionInv

(* One call of handleConnect goes on: to its next await, or to its end,    *)
(* where the connection gets a state, an entry in the index and its rooms. *)
LEMMA ConnectGoesOnKeepsInv ==
    ASSUME SubscriptionInv,
           NEW c \in DOMAIN connecting, NEW step \in Nat \ {0}, NEW u \in User,
           NEW m \in RoomMap,
           step <= Len(ConnectChain) + 1,
           ConnectGoesOn(c, step, u, m)
    PROVE  SubscriptionInv'
<1> DEFINE h == [step |-> step, user |-> u, resolverRooms |-> m]
           s == [user |-> u, rooms |-> ComputeRoomUnion(m), resolverRooms |-> m]
<1>1. c \in Connection /\ UNCHANGED <<phase, refreshing, todo, raced>>
    BY DEF ConnectGoesOn, SubscriptionInv, Typed
<1>2. FailedKeep'
    BY <1>1 DEF SubscriptionInv, FailedKeep, Asked
<1>3. CASE step > Len(ConnectChain)
  <2>1. FinishConnect(c, u, m)
    BY <1>3 DEF ConnectGoesOn
  <2>2. ComputeRoomUnion(m) \in SUBSET Room /\ s \in Tracked
    BY RoomMaps DEF Tracked
  <2>3. /\ ManagerInv'
        /\ \A d \in Connection :
              GetRooms(d)' = IF d = c THEN GetRooms(c) \cup ComputeRoomUnion(m)
                                      ELSE GetRooms(d)
    BY <1>1, <2>1, <2>2, JoinKeepsInv, JoinSetsRooms DEF FinishConnect, SubscriptionInv
  <2>4. /\ DOMAIN connectionStates' = DOMAIN connectionStates \cup {c}
        /\ connectionStates'[c] = s
        /\ \A d \in DOMAIN connectionStates :
              d # c => connectionStates'[d] = connectionStates[d]
    BY <2>1 DEF FinishConnect, Put
  <2>5. /\ DOMAIN connecting' = DOMAIN connecting \ {c}
        /\ \A d \in DOMAIN connecting : d # c => connecting'[d] = connecting[d]
    BY <2>1 DEF FinishConnect, Delete, Restrict
  <2>6. /\ IndexOK(userConnections')
        /\ \A d \in Connection, v \in User :
              InIndex(userConnections', d, v)
                 <=> InIndex(userConnections, d, v) \/ (d = c /\ v = u)
    BY <1>1, <2>1, IndexedIs DEF FinishConnect, SubscriptionInv, Typed
  <2> HIDE DEF s
  <2>7. Typed'
    BY <1>1, <2>2, <2>4, <2>5, <2>6 DEF SubscriptionInv, Typed
  <2>8. NewIsUnknown'
    BY <1>1, <2>3, <2>4, <2>5 DEF SubscriptionInv, NewIsUnknown, Refreshed
  <2>9. OneCall'
    BY <1>1, <2>4, <2>5 DEF SubscriptionInv, OneCall
  <2>10. UserIndexAgrees'
    BY <1>1, <2>4, <2>6 DEF s, SubscriptionInv, UserIndexAgrees, OneCall, InIndex
  <2>11. RoomsMatchContext'
    <3>1. c \notin raced => GetRooms(c) = {}
      BY <1>1 DEF SubscriptionInv, RoomsMatchContext, OneCall
    <3>2. connectionStates'[c].rooms = ComputeRoomUnion(m)
      BY <2>4 DEF s
    <3> QED
      BY <1>1, <2>3, <2>4, <3>1, <3>2 DEF SubscriptionInv, RoomsMatchContext
  <2> QED
    BY <1>2, <2>3, <2>7, <2>8, <2>9, <2>10, <2>11 DEF SubscriptionInv
<1>4. CASE step <= Len(ConnectChain)
  <2>1. /\ UNCHANGED <<managerVars, connectionStates, userConnections>>
        /\ DOMAIN connecting' = DOMAIN connecting
        /\ connecting'[c] = h
        /\ \A d \in DOMAIN connecting : d # c => connecting'[d] = connecting[d]
    <3>1. ~(step > Len(ConnectChain))
      BY <1>4, ChainAssumption
    <3>2. /\ UNCHANGED <<managerVars, connectionStates, userConnections>>
          /\ connecting' = Put(connecting, c, h)
      BY <3>1 DEF ConnectGoesOn
    <3> HIDE DEF h
    <3> QED
      BY <3>2 DEF Put
  <2>2. ManagerInv' /\ \A d \in Connection : GetRooms(d)' = GetRooms(d)
    BY <2>1, ManagerUnchanged DEF SubscriptionInv
  <2>3. ConnectOK(h)
    BY <1>4, ChainAssumption DEF ConnectOK
  <2> HIDE DEF h
  <2>4. Typed'
    BY <1>1, <2>1, <2>3 DEF SubscriptionInv, Typed
  <2>5. NewIsUnknown'
    BY <1>1, <2>1, <2>2 DEF SubscriptionInv, NewIsUnknown, Refreshed
  <2>6. OneCall'
    BY <1>1, <2>1 DEF SubscriptionInv, OneCall
  <2>7. UserIndexAgrees' /\ RoomsMatchContext'
    BY <1>1, <2>1, <2>2 DEF SubscriptionInv, UserIndexAgrees, RoomsMatchContext
  <2> QED
    BY <1>2, <2>2, <2>4, <2>5, <2>6, <2>7 DEF SubscriptionInv
<1> QED
    BY <1>3, <1>4, ChainAssumption

(* The user context has been resolved, or a resolver returns its rooms.    *)
LEMMA ConnectStepKeepsInv ==
    ASSUME SubscriptionInv,
           NEW c \in Connection, NEW u \in User, NEW rs \in SUBSET Room,
           UserContextResolved(c, u) \/ OnConnectReturns(c, u, rs)
    PROVE  SubscriptionInv'
<1>1. CASE UserContextResolved(c, u)
  <2>1. [x \in {} |-> {}] \in RoomMap
    BY DEF RoomMap
  <2>2. 1 <= Len(ConnectChain) + 1
    BY ChainAssumption
  <2> QED
    BY <1>1, <2>1, <2>2, ConnectGoesOnKeepsInv DEF UserContextResolved
<1>2. CASE OnConnectReturns(c, u, rs)
  <2> DEFINE h == connecting[c]
  <2>1. h.step \in 1 .. Len(ConnectChain) /\ h.resolverRooms \in RoomMap
    BY <1>2 DEF OnConnectReturns, SubscriptionInv, Typed, ConnectOK
  <2>2. ConnectChain[h.step] \in Resolver
    BY <2>1, ChainAssumption
  <2>3. Put(h.resolverRooms, ConnectChain[h.step], rs) \in RoomMap
    BY <2>1, <2>2, RoomMaps
  <2>4. h.step + 1 \in Nat \ {0} /\ h.step + 1 <= Len(ConnectChain) + 1
    BY <2>1, ChainAssumption
  <2> QED
    BY <1>2, <2>3, <2>4, ConnectGoesOnKeepsInv DEF OnConnectReturns
<1> QED
    BY <1>1, <1>2

(* handleConnect rejects: nothing is kept of the call.                     *)
LEMMA ConnectRejectsKeepsInv ==
    ASSUME SubscriptionInv, NEW c \in Connection, ConnectRejects(c)
    PROVE  SubscriptionInv'
<1>1. /\ DOMAIN connecting' = DOMAIN connecting \ {c}
      /\ \A d \in DOMAIN connecting : d # c => connecting'[d] = connecting[d]
    BY DEF ConnectRejects, Delete, Restrict
<1>2. ManagerInv' /\ \A d \in Connection : GetRooms(d)' = GetRooms(d)
    BY ManagerUnchanged DEF SubscriptionInv, ConnectRejects
<1>3. UNCHANGED <<phase, connectionStates, userConnections, refreshing, todo, raced>>
    BY DEF ConnectRejects
<1>4. Typed'
    BY <1>1, <1>3 DEF SubscriptionInv, Typed
<1>5. NewIsUnknown'
    BY <1>1, <1>2, <1>3 DEF SubscriptionInv, NewIsUnknown, Refreshed
<1>6. OneCall'
    BY <1>1, <1>3 DEF SubscriptionInv, OneCall
<1>7. FailedKeep' /\ UserIndexAgrees' /\ RoomsMatchContext'
    BY <1>2, <1>3 DEF SubscriptionInv, FailedKeep, Asked, UserIndexAgrees, RoomsMatchContext
<1> QED
    BY <1>2, <1>4, <1>5, <1>6, <1>7 DEF SubscriptionInv

-----------------------------------------------------------------------------
(* The session closes: when a call on the connection awaits, calls overlap, *)
(* and otherwise no trace is left but its rooms.                            *)
LEMMA HandleDisconnectKeepsInv ==
    ASSUME SubscriptionInv, NEW c \in Connection, HandleDisconnect(c)
    PROVE  SubscriptionInv'
<1>1. /\ phase[c] = "open" /\ phase' = [phase EXCEPT ![c] = "closing"]
      /\ raced' = IF Refreshed(c) \/ c \in DOMAIN connecting THEN raced \cup {c} ELSE raced
      /\ UNCHANGED <<managerVars, connecting, refreshing, todo>>
    BY DEF HandleDisconnect, Track
<1>2. /\ DOMAIN connectionStates' = DOMAIN connectionStates \ {c}
      /\ \A d \in DOMAIN connectionStates :
            d # c => connectionStates'[d] = connectionStates[d]
    BY DEF HandleDisconnect, Delete, Restrict
<1>3. /\ IndexOK(userConnections')
      /\ \A d \in Connection, v \in User :
            InIndex(userConnections', d, v)
               <=> /\ InIndex(userConnections, d, v)
                   /\ ~(d = c /\ c \in DOMAIN connectionStates
                                /\ v = connectionStates[c].user)
    BY UnindexedIs DEF HandleDisconnect, SubscriptionInv, Typed
<1>4. ManagerInv' /\ \A d \in Connection : GetRooms(d)' = GetRooms(d)
    BY <1>1, ManagerUnchanged DEF SubscriptionInv
<1>5. Typed'
    BY <1>1, <1>2, <1>3 DEF SubscriptionInv, Typed
<1>6. NewIsUnknown'
    BY <1>1, <1>2, <1>4 DEF SubscriptionInv, Typed, NewIsUnknown, Refreshed
<1>7. OneCall'
    BY <1>1, <1>2 DEF SubscriptionInv, Typed, OneCall, Refreshed
<1>8. FailedKeep'
    BY <1>1 DEF SubscriptionInv, FailedKeep, Asked
<1>9. UserIndexAgrees'
    BY <1>1, <1>2, <1>3 DEF SubscriptionInv, UserIndexAgrees, InIndex
<1>10. RoomsMatchContext'
    BY <1>1, <1>2, <1>4 DEF SubscriptionInv, Typed, RoomsMatchContext
<1> QED
    BY <1>4, <1>5, <1>6, <1>7, <1>8, <1>9, <1>10 DEF SubscriptionInv

(* The controller forgets the connection, which leaves its rooms.          *)
LEMMA UnregisterKeepsInv ==
    ASSUME SubscriptionInv, NEW c \in Connection, UnregisterConnection(c)
    PROVE  SubscriptionInv'
<1>1. /\ phase[c] = "closing" /\ phase' = [phase EXCEPT ![c] = "closed"]
      /\ UNCHANGED <<connecting, connectionStates, userConnections, refreshing,
                     todo, raced>>
      /\ LeaveAll(c)
    BY DEF UnregisterConnection
<1>2. ManagerInv'
    BY <1>1, RoomsTyped, LeaveKeepsInv DEF LeaveAll, SubscriptionInv, ManagerInv
<1>3. \A d \in Connection : GetRooms(d)' = IF d = c THEN {} ELSE GetRooms(d)
    BY <1>1, LeaveAllSetsRooms
<1>4. Typed'
    BY <1>1 DEF SubscriptionInv, Typed
<1>5. NewIsUnknown'
    BY <1>1, <1>3 DEF SubscriptionInv, Typed, NewIsUnknown, Refreshed
<1>6. OneCall'
    BY <1>1 DEF SubscriptionInv, Typed, OneCall
<1>7. FailedKeep' /\ UserIndexAgrees'
    BY <1>1 DEF SubscriptionInv, FailedKeep, Asked, UserIndexAgrees
<1>8. RoomsMatchContext'
    BY <1>1, <1>3 DEF SubscriptionInv, Typed, OneCall, RoomsMatchContext
<1> QED
    BY <1>2, <1>4, <1>5, <1>6, <1>7, <1>8 DEF SubscriptionInv

(* A refresh begins and reads the state of the connection: two of them on  *)
(* one connection overlap.                                                 *)
LEMMA BeginRefreshKeepsInv ==
    ASSUME SubscriptionInv,
           NEW k \in Call, NEW c \in Connection,
           k \notin DOMAIN refreshing,
           BeginRefresh(k, c),
           todo' \in [Call -> SUBSET Connection]
    PROVE  SubscriptionInv'
<1>1. /\ raced' = IF Refreshed(c) THEN raced \cup {c} ELSE raced
      /\ UNCHANGED <<managerVars, phase, connecting, connectionStates, userConnections>>
    BY DEF BeginRefresh, Track
<1>2. ManagerInv' /\ \A d \in Connection : GetRooms(d)' = GetRooms(d)
    BY <1>1, ManagerUnchanged DEF SubscriptionInv
<1>3. raced \subseteq raced' /\ raced' \subseteq Connection
    BY <1>1 DEF SubscriptionInv, Typed
<1>4. UserIndexAgrees' /\ RoomsMatchContext'
    BY <1>1, <1>2, <1>3 DEF SubscriptionInv, UserIndexAgrees, RoomsMatchContext
<1>5. CASE c \notin DOMAIN connectionStates
  <2>1. refreshing' = refreshing
    BY <1>5 DEF BeginRefresh
  <2>2. Typed' /\ NewIsUnknown' /\ OneCall' /\ FailedKeep'
    BY <1>1, <1>2, <1>3, <2>1
    DEF SubscriptionInv, Typed, NewIsUnknown, OneCall, FailedKeep, Refreshed, Asked
  <2> QED
    BY <1>2, <1>4, <2>2 DEF SubscriptionInv
<1>6. CASE c \in DOMAIN connectionStates
  <2> DEFINE s == connectionStates[c]
             f == [conn |-> c, step |-> 1, was |-> s, user |-> s.user,
                   resolverRooms |-> s.resolverRooms, failed |-> {}]
  <2>1. refreshing' = Put(refreshing, k, f)
    BY <1>6 DEF BeginRefresh
  <2>2. s \in Tracked /\ f \in Pending
    BY <1>6, ChainAssumption DEF SubscriptionInv, Typed, Tracked, Pending
  <2>3. /\ f.conn = c /\ f.was = s /\ Asked(f) = {} /\ f.failed = {}
        /\ f.resolverRooms = s.resolverRooms
    BY DEF Asked
  <2> HIDE DEF f
  <2>4. /\ DOMAIN refreshing' = DOMAIN refreshing \cup {k}
        /\ refreshing'[k] = f
        /\ \A j \in DOMAIN refreshing : refreshing'[j] = refreshing[j]
    BY <2>1 DEF Put
  <2>5. Typed'
    BY <1>1, <1>3, <2>2, <2>4 DEF SubscriptionInv, Typed
  <2>6. NewIsUnknown'
    BY <1>1, <1>2, <1>6, <2>3, <2>4 DEF SubscriptionInv, NewIsUnknown, Refreshed
  <2>7. OneCall'
    BY <1>1, <1>6, <2>3, <2>4 DEF SubscriptionInv, OneCall, Refreshed
  <2>8. FailedKeep'
    BY <2>3, <2>4 DEF SubscriptionInv, FailedKeep, Asked
  <2> QED
    BY <1>2, <1>4, <2>5, <2>6, <2>7, <2>8 DEF SubscriptionInv
<1> QED
    BY <1>5, <1>6

(* A step of a refresh that changes nothing but what the call holds, and   *)
(* not the connection or the state it read.                                *)
LEMMA RefreshStepKeepsInv ==
    ASSUME SubscriptionInv,
           NEW k \in DOMAIN refreshing, NEW g \in Pending,
           g.conn = refreshing[k].conn, g.was = refreshing[k].was,
           g.failed \subseteq Asked(g),
           \A x \in DOMAIN g.was.resolverRooms :
              x \in g.failed \/ x \notin Asked(g) =>
                  x \in DOMAIN g.resolverRooms /\ g.resolverRooms[x] = g.was.resolverRooms[x],
           DOMAIN refreshing' = DOMAIN refreshing,
           refreshing'[k] = g,
           \A j \in DOMAIN refreshing : j # k => refreshing'[j] = refreshing[j],
           UNCHANGED <<managerVars, phase, connecting, connectionStates,
                       userConnections, todo, raced>>
    PROVE  SubscriptionInv'
<1>1. ManagerInv' /\ \A d \in Connection : GetRooms(d)' = GetRooms(d)
    BY ManagerUnchanged DEF SubscriptionInv
<1>2. Typed'
    BY DEF SubscriptionInv, Typed
<1>3. \A j \in DOMAIN refreshing : /\ refreshing'[j].conn = refreshing[j].conn
                                    /\ refreshing'[j].was = refreshing[j].was
    OBVIOUS
<1>4. NewIsUnknown'
    BY <1>1, <1>3 DEF SubscriptionInv, NewIsUnknown, Refreshed
<1>5. OneCall'
    BY <1>3 DEF SubscriptionInv, OneCall
<1>6. FailedKeep'
    BY DEF SubscriptionInv, FailedKeep, Asked
<1>7. UserIndexAgrees' /\ RoomsMatchContext'
    BY <1>1 DEF SubscriptionInv, UserIndexAgrees, RoomsMatchContext
<1> QED
    BY <1>1, <1>2, <1>4, <1>5, <1>6, <1>7 DEF SubscriptionInv

(* The resolver whose answer comes has not been asked before: resolvers    *)
(* have different names.                                                   *)
LEMMA AskedGrows ==
    ASSUME NEW f \in Pending, NEW g \in Pending,
           f.step <= Len(RefreshChain), g.step = f.step + 1
    PROVE  /\ RefreshChain[f.step] \in Resolver
           /\ RefreshChain[f.step] \notin Asked(f)
           /\ Asked(g) = Asked(f) \cup {RefreshChain[f.step]}
<1>1. /\ f.step \in 1 .. Len(RefreshChain)
      /\ g.step \in Nat
      /\ Len(RefreshChain) \in Nat
      /\ DOMAIN RefreshChain = 1 .. Len(RefreshChain)
    BY ChainAssumption DEF Pending
<1>2. RefreshChain[f.step] \in Resolver
    BY <1>1, ChainAssumption
<1>3. RefreshChain[f.step] \notin Asked(f)
    BY <1>1, NamesAssumption DEF Asked, IsInjective
<1>4. Asked(g) = Asked(f) \cup {RefreshChain[f.step]}
  <2>1. 1 .. g.step - 1 = (1 .. f.step - 1) \cup {f.step}
    BY <1>1
  <2> QED
    BY <2>1 DEF Asked
<1> QED
    BY <1>2, <1>3, <1>4

(* A resolver returns its new rooms: they replace those it had.            *)
LEMMA RefreshReturnsKeepsInv ==
    ASSUME SubscriptionInv,
           NEW k \in Call, NEW u \in User, NEW rs \in SUBSET Room,
           RefreshReturns(k, u, rs)
    PROVE  SubscriptionInv'
<1> DEFINE f == refreshing[k]
           x == RefreshChain[f.step]
           g == [f EXCEPT !.step = @ + 1, !.user = u,
                          !.resolverRooms = Put(@, x, rs)]
<1>1. k \in DOMAIN refreshing /\ f \in Pending /\ f.step <= Len(RefreshChain)
    BY DEF RefreshReturns, Awaits, SubscriptionInv, Typed
<1>2. x \in Resolver
    BY <1>1, ChainAssumption DEF Pending
<1>3. Put(f.resolverRooms, x, rs) \in RoomMap
    BY <1>1, <1>2, RoomMaps DEF Pending
<1>4. g \in Pending
  <2>1. f.step + 1 \in 1 .. Len(RefreshChain) + 1
    BY <1>1, ChainAssumption DEF Pending
  <2> QED
    BY <1>1, <1>3, <2>1 DEF Pending
<1>5. /\ g.conn = f.conn /\ g.was = f.was /\ g.failed = f.failed
      /\ g.step = f.step + 1
      /\ g.resolverRooms = Put(f.resolverRooms, x, rs)
    BY <1>1 DEF Pending
<1>6. x \notin Asked(f) /\ Asked(g) = Asked(f) \cup {x}
    BY <1>1, <1>4, <1>5, AskedGrows
<1>7. /\ f.failed \subseteq Asked(f)
      /\ \A y \in DOMAIN f.was.resolverRooms :
            y \in f.failed \/ y \notin Asked(f) =>
                y \in DOMAIN f.resolverRooms /\ f.resolverRooms[y] = f.was.resolverRooms[y]
    BY <1>1 DEF SubscriptionInv, FailedKeep
<1>8. /\ DOMAIN refreshing' = DOMAIN refreshing
      /\ refreshing'[k] = g
      /\ \A j \in DOMAIN refreshing : j # k => refreshing'[j] = refreshing[j]
    BY <1>1 DEF RefreshReturns
<1>9. UNCHANGED <<managerVars, phase, connecting, connectionStates,
                  userConnections, todo, raced>>
    BY DEF RefreshReturns
<1> HIDE DEF f, g, x
<1>10. /\ g.failed \subseteq Asked(g)
       /\ \A y \in DOMAIN g.was.resolverRooms :
             y \in g.failed \/ y \notin Asked(g) =>
                y \in DOMAIN g.resolverRooms /\ g.resolverRooms[y] = g.was.resolverRooms[y]
    BY <1>5, <1>6, <1>7 DEF Put
<1>11. g.conn = refreshing[k].conn /\ g.was = refreshing[k].was
    BY <1>5 DEF f
<1> QED
    BY <1>1, <1>4, <1>8, <1>9, <1>10, <1>11, RefreshStepKeepsInv

(* A resolver throws: it keeps its rooms.                                  *)
LEMMA RefreshThrowsKeepsInv ==
    ASSUME SubscriptionInv, NEW k \in Call, RefreshThrows(k)
    PROVE  SubscriptionInv'
<1> DEFINE f == refreshing[k]
           x == RefreshChain[f.step]
           g == [f EXCEPT !.step = @ + 1, !.failed = @ \cup {x}]
<1>1. k \in DOMAIN refreshing /\ f \in Pending /\ f.step <= Len(RefreshChain)
    BY DEF RefreshThrows, Awaits, SubscriptionInv, Typed
<1>2. x \in Resolver
    BY <1>1, ChainAssumption DEF Pending
<1>3. g \in Pending
  <2>1. f.step + 1 \in 1 .. Len(RefreshChain) + 1
    BY <1>1, ChainAssumption DEF Pending
  <2> QED
    BY <1>1, <1>2, <2>1 DEF Pending
<1>4. /\ g.conn = f.conn /\ g.was = f.was /\ g.failed = f.failed \cup {x}
      /\ g.step = f.step + 1 /\ g.resolverRooms = f.resolverRooms
    BY <1>1 DEF Pending
<1>5. x \notin Asked(f) /\ Asked(g) = Asked(f) \cup {x}
    BY <1>1, <1>3, <1>4, AskedGrows
<1>6. /\ f.failed \subseteq Asked(f)
      /\ \A y \in DOMAIN f.was.resolverRooms :
            y \in f.failed \/ y \notin Asked(f) =>
                y \in DOMAIN f.resolverRooms /\ f.resolverRooms[y] = f.was.resolverRooms[y]
    BY <1>1 DEF SubscriptionInv, FailedKeep
<1>7. /\ DOMAIN refreshing' = DOMAIN refreshing
      /\ refreshing'[k] = g
      /\ \A j \in DOMAIN refreshing : j # k => refreshing'[j] = refreshing[j]
    BY <1>1 DEF RefreshThrows
<1>8. UNCHANGED <<managerVars, phase, connecting, connectionStates,
                  userConnections, todo, raced>>
    BY DEF RefreshThrows
<1> HIDE DEF f, g, x
<1>9. /\ g.failed \subseteq Asked(g)
      /\ \A y \in DOMAIN g.was.resolverRooms :
             y \in g.failed \/ y \notin Asked(g) =>
                y \in DOMAIN g.resolverRooms /\ g.resolverRooms[y] = g.was.resolverRooms[y]
    BY <1>4, <1>5, <1>6
<1>10. g.conn = refreshing[k].conn /\ g.was = refreshing[k].was
    BY <1>4 DEF f
<1> QED
    BY <1>1, <1>3, <1>7, <1>8, <1>9, <1>10, RefreshStepKeepsInv

(* What a refresh does when its chain has returned, as facts.              *)
LEMMA ApplyRefreshIs ==
    ASSUME SubscriptionInv, NEW k \in Call, ApplyRefresh(k)
    PROVE  LET f == refreshing[k]
               new == ComputeRoomUnion(f.resolverRooms)
           IN  /\ k \in DOMAIN refreshing /\ f \in Pending
               /\ ManagerInv'
               /\ \A d \in Connection :
                     GetRooms(d)' = IF d # f.conn THEN GetRooms(d)
                                    ELSE (GetRooms(d) \cup (new \ f.was.rooms))
                                            \ (f.was.rooms \ new)
               /\ connectionStates'[f.conn] =
                      [user |-> f.user, rooms |-> new, resolverRooms |-> f.resolverRooms]
               /\ connectionStates'[f.conn] \in Tracked
<1> DEFINE f == refreshing[k]
           new == ComputeRoomUnion(f.resolverRooms)
<1>1. k \in DOMAIN refreshing /\ f \in Pending
    BY DEF ApplyRefresh, SubscriptionInv, Typed
<1>2. /\ f.conn \in Connection /\ f.was.rooms \in SUBSET Room
      /\ f.resolverRooms \in RoomMap /\ f.user \in User
    BY <1>1 DEF Pending, Tracked
<1>3. new \in SUBSET Room
    BY <1>2, RoomMaps
<1>4. /\ ApplyRoomDiff(f.conn, f.was.rooms, new)
      /\ connectionStates' = Put(connectionStates, f.conn,
            [user |-> f.user, rooms |-> new, resolverRooms |-> f.resolverRooms])
    BY DEF ApplyRefresh
<1>5. connectionStates'[f.conn] =
            [user |-> f.user, rooms |-> new, resolverRooms |-> f.resolverRooms]
    BY <1>4 DEF Put
<1>6. connectionStates'[f.conn] \in Tracked
    BY <1>2, <1>3, <1>5 DEF Tracked
<1>7. /\ ManagerInv'
      /\ \A d \in Connection :
            GetRooms(d)' = IF d # f.conn THEN GetRooms(d)
                           ELSE (GetRooms(d) \cup (new \ f.was.rooms))
                                   \ (f.was.rooms \ new)
  <2> HIDE DEF f, new
  <2> QED
    BY <1>2, <1>3, <1>4, ApplyRoomDiffKeepsInv DEF SubscriptionInv
<1> QED
    BY <1>1, <1>5, <1>6, <1>7

(* The refresh moves the connection between rooms and users and replaces   *)
(* its state: what it compares with is still true when no calls overlapped. *)
LEMMA ApplyRefreshKeepsInv ==
    ASSUME SubscriptionInv, NEW k \in Call, ApplyRefresh(k)
    PROVE  SubscriptionInv'
<1> DEFINE f == refreshing[k]
           c == f.conn
           new == ComputeRoomUnion(f.resolverRooms)
<1>1. /\ k \in DOMAIN refreshing /\ f \in Pending
      /\ ManagerInv'
      /\ \A d \in Connection :
            GetRooms(d)' = IF d # c THEN GetRooms(d)
                           ELSE (GetRooms(d) \cup (new \ f.was.rooms)) \ (f.was.rooms \ new)
      /\ connectionStates'[c] =
             [user |-> f.user, rooms |-> new, resolverRooms |-> f.resolverRooms]
      /\ connectionStates'[c] \in Tracked
    BY ApplyRefreshIs
<1>2. c \in Connection /\ f.user \in User
    BY <1>1 DEF Pending
<1>3. /\ DOMAIN connectionStates' = DOMAIN connectionStates \cup {c}
      /\ \A d \in DOMAIN connectionStates :
            d # c => connectionStates'[d] = connectionStates[d]
    BY DEF ApplyRefresh, Put
<1>4. /\ IndexOK(userConnections')
      /\ \A d \in Connection, v \in User :
            InIndex(userConnections', d, v)
               <=> IF d = c /\ f.was.user # f.user
                   THEN v = f.user \/ (InIndex(userConnections, c, v) /\ v # f.was.user)
                   ELSE InIndex(userConnections, d, v)
    BY <1>2, RekeyIs DEF ApplyRefresh, SubscriptionInv, Typed
<1>5. /\ DOMAIN refreshing' = DOMAIN refreshing \ {k}
      /\ \A j \in DOMAIN refreshing : j # k => refreshing'[j] = refreshing[j]
    BY DEF ApplyRefresh, Delete, Restrict
<1>6. UNCHANGED <<phase, connecting, todo, raced>>
    BY DEF ApplyRefresh
<1>7. /\ connectionStates'[c].user = f.user
      /\ connectionStates'[c].rooms = new
    BY <1>1
<1>8. Refreshed(c)
    BY <1>1 DEF Refreshed
<1>9. c \notin raced => /\ c \in DOMAIN connectionStates
                        /\ f.was = connectionStates[c]
                        /\ phase[c] = "open"
                        /\ c \notin DOMAIN connecting
                        /\ \A j \in DOMAIN refreshing : refreshing[j].conn = c => j = k
    BY <1>1, <1>2 DEF SubscriptionInv, OneCall
<1> HIDE DEF f, c, new
<1>10. Typed'
    BY <1>1, <1>2, <1>3, <1>4, <1>5, <1>6 DEF SubscriptionInv, Typed
<1>11. NewIsUnknown'
    BY <1>1, <1>2, <1>3, <1>5, <1>6, <1>8 DEF SubscriptionInv, NewIsUnknown, Refreshed
<1>12. OneCall'
    BY <1>2, <1>3, <1>5, <1>6, <1>9 DEF SubscriptionInv, OneCall
<1>13. FailedKeep'
    BY <1>5 DEF SubscriptionInv, FailedKeep, Asked
<1>14. UserIndexAgrees'
    BY <1>2, <1>3, <1>4, <1>6, <1>7, <1>9 DEF SubscriptionInv, UserIndexAgrees, InIndex
<1>15. RoomsMatchContext'
  <2>1. ASSUME NEW d \in Connection \ raced, d = c
        PROVE  GetRooms(d)' = new
    <3>1. GetRooms(d) = f.was.rooms
      BY <1>9, <2>1 DEF SubscriptionInv, RoomsMatchContext
    <3>2. GetRooms(d)' = (GetRooms(d) \cup (new \ f.was.rooms)) \ (f.was.rooms \ new)
      BY <1>1, <2>1
    <3>3. (f.was.rooms \cup (new \ f.was.rooms)) \ (f.was.rooms \ new) = new
      OBVIOUS
    <3> QED
      BY <3>1, <3>2, <3>3
  <2> SUFFICES ASSUME NEW d \in Connection \ raced, phase[d] # "closing"
               PROVE  GetRooms(d)' = IF d \in DOMAIN connectionStates'
                                     THEN connectionStates'[d].rooms ELSE {}
    BY <1>6 DEF RoomsMatchContext
  <2>2. CASE d = c
    BY <1>3, <1>7, <2>1, <2>2
  <2>3. CASE d # c
    <3>1. GetRooms(d)' = GetRooms(d)
      BY <1>1, <2>3
    <3> QED
      BY <1>3, <2>3, <3>1 DEF SubscriptionInv, RoomsMatchContext
  <2> QED
    BY <2>2, <2>3
<1> QED
    BY <1>1, <1>10, <1>11, <1>12, <1>13, <1>14, <1>15 DEF SubscriptionInv

-----------------------------------------------------------------------------
(* SubscriptionInv is inductive.                                           *)
LEMMA NextKeepsInv == SubscriptionInv /\ [Next]_vars => SubscriptionInv'
<1> SUFFICES ASSUME SubscriptionInv, [Next]_vars
             PROVE  SubscriptionInv'
    OBVIOUS
<1>1. ASSUME NEW c \in Connection, HandleConnect(c)
      PROVE  SubscriptionInv'
    BY <1>1, HandleConnectKeepsInv
<1>2. ASSUME NEW c \in Connection, NEW u \in User, NEW rs \in SUBSET Room,
             UserContextResolved(c, u) \/ OnConnectReturns(c, u, rs)
      PROVE  SubscriptionInv'
    BY <1>2, ConnectStepKeepsInv
<1>3. ASSUME NEW c \in Connection, ConnectRejects(c)
      PROVE  SubscriptionInv'
    BY <1>3, ConnectRejectsKeepsInv
<1>4. ASSUME NEW c \in Connection, HandleDisconnect(c)
      PROVE  SubscriptionInv'
    BY <1>4, HandleDisconnectKeepsInv
<1>5. ASSUME NEW c \in Connection, UnregisterConnection(c)
      PROVE  SubscriptionInv'
    BY <1>5, UnregisterKeepsInv
<1>6. ASSUME NEW k \in Call, NEW c \in Connection,
             RefreshConnection(k, c) \/ RefreshUserGoesOn(k, c)
      PROVE  SubscriptionInv'
  <2>1. k \notin DOMAIN refreshing /\ BeginRefresh(k, c)
    BY <1>6 DEF RefreshConnection, RefreshUserGoesOn, Idle
  <2>2. todo' \in [Call -> SUBSET Connection]
    BY <1>6 DEF RefreshConnection, RefreshUserGoesOn, SubscriptionInv, Typed
  <2> QED
    BY <2>1, <2>2, BeginRefreshKeepsInv
<1>7. ASSUME NEW k \in Call, NEW u \in User, NEW c \in Connection, RefreshUser(k, u, c)
      PROVE  SubscriptionInv'
  <2>1. k \notin DOMAIN refreshing /\ BeginRefresh(k, c)
    BY <1>7 DEF RefreshUser, Idle
  <2>2. todo' \in [Call -> SUBSET Connection]
    BY <1>7 DEF RefreshUser, SubscriptionInv, Typed, IndexOK
  <2> QED
    BY <2>1, <2>2, BeginRefreshKeepsInv
<1>8. ASSUME NEW k \in Call, NEW u \in User, NEW rs \in SUBSET Room, RefreshReturns(k, u, rs)
      PROVE  SubscriptionInv'
    BY <1>8, RefreshReturnsKeepsInv
<1>9. ASSUME NEW k \in Call, RefreshThrows(k)
      PROVE  SubscriptionInv'
    BY <1>9, RefreshThrowsKeepsInv
<1>10. ASSUME NEW k \in Call, ApplyRefresh(k)
       PROVE  SubscriptionInv'
    BY <1>10, ApplyRefreshKeepsInv
<1>11. CASE UNCHANGED vars
  <2>1. ManagerInv' /\ \A d \in Connection : GetRooms(d)' = GetRooms(d)
    BY <1>11, ManagerUnchanged DEF vars, SubscriptionInv
  <2>2. UNCHANGED <<phase, connecting, connectionStates, userConnections, refreshing,
                    todo, raced>>
    BY <1>11 DEF vars, subscriptionVars
  <2> QED
    BY <2>1, <2>2 DEF SubscriptionInv, Typed, NewIsUnknown, OneCall, FailedKeep,
        Refreshed, Asked, UserIndexAgrees, RoomsMatchContext
<1>12. CASE Next
  <2>1. {} \in SUBSET Room
    OBVIOUS
  <2> QED
    BY <1>1, <1>2, <1>3, <1>4, <1>5, <1>6, <1>7, <1>8, <1>9, <1>10, <1>12, <2>1 DEF Next
<1> QED
    BY <1>11, <1>12

(* In every state the manager reaches: the index by user, the contexts and *)
(* the room manager's Maps agree about every connection on which no two    *)
(* calls overlapped.                                                       *)
THEOREM SubscriptionInvariant == Spec => []SubscriptionInv
<1>1. Init => SubscriptionInv
  <2> SUFFICES ASSUME Init PROVE SubscriptionInv
    OBVIOUS
  <2>1. ManagerInv /\ \A c \in Connection : GetRooms(c) = {}
    BY DEF Init, InitManager, ManagerInv, ManagerTypeOK, MapsAgree, NoEmptySets,
        GetRooms, GetConnectionsInRoom
  <2>2. /\ DOMAIN connecting = {} /\ DOMAIN connectionStates = {}
        /\ DOMAIN userConnections = {} /\ DOMAIN refreshing = {}
        /\ phase = [c \in Connection |-> "new"]
        /\ todo = [k \in Call |-> {}] /\ raced = {}
    BY DEF Init
  <2> QED
    BY <2>1, <2>2 DEF SubscriptionInv, Typed, IndexOK, NewIsUnknown, OneCall,
        FailedKeep, Refreshed, UserIndexAgrees, RoomsMatchContext
<1> QED
    BY <1>1, NextKeepsInv, PTL DEF Spec

(* Types are kept, and no user keeps an entry in the index without a       *)
(* connection in it.                                                       *)
COROLLARY SubscriptionsTypeCorrect == Spec => []TypeOK
BY SubscriptionInvariant, TypedIsTypeOK, PTL

(* refreshUser reaches exactly the connections that are the user's.        *)
COROLLARY UserIndexAlwaysAgrees == Spec => []UserIndexAgrees
<1>1. SubscriptionInv => UserIndexAgrees
    BY DEF SubscriptionInv
<1> QED
    BY <1>1, SubscriptionInvariant, PTL

(* A connection is in the rooms its context names and in no other.         *)
COROLLARY RoomsAlwaysMatch == Spec => []RoomsMatchContext
<1>1. SubscriptionInv => RoomsMatchContext
    BY DEF SubscriptionInv
<1> QED
    BY <1>1, SubscriptionInvariant, PTL

(* Nothing is kept for a connection that closed between two calls.         *)
COROLLARY GoneAlwaysForgotten == Spec => []GoneIsForgotten
<1>1. SubscriptionInv => GoneIsForgotten
    BY DEF SubscriptionInv, OneCall, GoneIsForgotten
<1> QED
    BY <1>1, SubscriptionInvariant, PTL

(* A call of refresh ends with ApplyRefresh only.                          *)
LEMMA OnlyApplyEnds ==
    ASSUME [Next]_vars, NEW k \in DOMAIN refreshing, k \notin DOMAIN refreshing'
    PROVE  ApplyRefresh(k)
<1>1. ASSUME NEW c \in Connection,
             \/ HandleConnect(c) \/ ConnectRejects(c)
             \/ HandleDisconnect(c) \/ UnregisterConnection(c)
             \/ \E u \in User : UserContextResolved(c, u)
             \/ \E u \in User, rs \in SUBSET Room : OnConnectReturns(c, u, rs)
      PROVE  refreshing' = refreshing
    BY <1>1 DEF HandleConnect, ConnectRejects, HandleDisconnect, UnregisterConnection,
        UserContextResolved, OnConnectReturns, ConnectGoesOn
<1>2. ASSUME NEW j \in Call, NEW c \in Connection, BeginRefresh(j, c)
      PROVE  DOMAIN refreshing \subseteq DOMAIN refreshing'
    BY <1>2 DEF BeginRefresh, Put
<1>3. ASSUME NEW j \in Call, NEW c \in Connection, NEW u \in User, RefreshUser(j, u, c)
      PROVE  DOMAIN refreshing \subseteq DOMAIN refreshing'
    BY <1>2, <1>3 DEF RefreshUser
<1>4. ASSUME NEW j \in Call,
             \/ RefreshThrows(j)
             \/ \E u \in User, rs \in SUBSET Room : RefreshReturns(j, u, rs)
      PROVE  DOMAIN refreshing' = DOMAIN refreshing
    BY <1>4 DEF RefreshThrows, RefreshReturns
<1>5. ASSUME NEW j \in Call, NEW c \in Connection,
             RefreshConnection(j, c) \/ RefreshUserGoesOn(j, c)
      PROVE  DOMAIN refreshing \subseteq DOMAIN refreshing'
    BY <1>2, <1>5 DEF RefreshConnection, RefreshUserGoesOn
<1>6. ASSUME NEW j \in Call, ApplyRefresh(j)
      PROVE  DOMAIN refreshing' = DOMAIN refreshing \ {j}
    BY <1>6 DEF ApplyRefresh, Delete, Restrict
<1>7. UNCHANGED vars => refreshing' = refreshing
    BY DEF vars, subscriptionVars
<1> QED
    BY <1>1, <1>3, <1>4, <1>5, <1>6, <1>7 DEF Next

(* No refresh that ends costs a connection a room of a resolver that threw. *)
THEOREM FailuresKeepRooms == Spec => FailureKeepsRooms
<1>1. SubscriptionInv /\ SubscriptionInv' /\ [Next]_vars =>
        [\A c \in Connection \ raced, k \in DOMAIN refreshing \ DOMAIN refreshing' :
            LET f == refreshing[k]
            IN  f.conn = c =>
                    \A x \in f.failed \cap DOMAIN f.was.resolverRooms :
                        \A r \in f.was.resolverRooms[x] : IsInRoom(c, r)']_vars
  <2> SUFFICES ASSUME SubscriptionInv, SubscriptionInv', [Next]_vars,
                      NEW c \in Connection \ raced,
                      NEW k \in DOMAIN refreshing, k \notin DOMAIN refreshing',
                      refreshing[k].conn = c,
                      NEW x \in refreshing[k].failed
                                  \cap DOMAIN refreshing[k].was.resolverRooms,
                      NEW r \in refreshing[k].was.resolverRooms[x]
               PROVE  IsInRoom(c, r)'
    OBVIOUS
  <2> DEFINE f == refreshing[k]
             new == ComputeRoomUnion(f.resolverRooms)
  <2>1. ApplyRefresh(k) /\ k \in Call
    BY OnlyApplyEnds DEF SubscriptionInv, Typed
  <2>2. /\ f \in Pending
        /\ connectionStates'[c] =
              [user |-> f.user, rooms |-> new, resolverRooms |-> f.resolverRooms]
    BY <2>1, ApplyRefreshIs
  <2>3. /\ c \in DOMAIN connectionStates' /\ c \notin raced'
        /\ phase'[c] = "open"
    BY <2>1 DEF ApplyRefresh, Put, SubscriptionInv, OneCall
  <2>4. GetRooms(c)' = new
    BY <2>2, <2>3 DEF SubscriptionInv, RoomsMatchContext
  <2>5. x \in DOMAIN f.resolverRooms /\ r \in f.resolverRooms[x]
    BY DEF SubscriptionInv, FailedKeep
  <2>6. f.resolverRooms[x] \subseteq new
    BY <2>2, <2>5, RoomMaps DEF Pending
  <2> QED
    BY <2>4, <2>5, <2>6 DEF IsInRoom
<1> QED
    BY <1>1, SubscriptionInvariant, PTL DEF Spec, FailureKeepsRooms

-----------------------------------------------------------------------------
(* What is delivered takes nothing from what the manager does: every step  *)
(* of a delivery is one of the manager or leaves it alone, and all that is *)
(* proved of the manager holds while messages are delivered.               *)
THEOREM DeliveryIsSubscriptions == DeliverySpec => Spec
<1>1. InitDelivery => Init
    BY DEF InitDelivery
<1>2. [NextDelivery]_allVars => [Next]_vars
    BY DEF NextDelivery, allVars, Meanwhile, Publish, PublishToAllConnections,
        ShouldDeliver, Evaluate, TurnEnds
<1> QED
    BY <1>1, <1>2, PTL DEF DeliverySpec, Spec

(* The verdicts that are asked for.                                        *)
LEMMA VerdictsTyped ==
    ASSUME message \in Message, NEW u \in User
    PROVE  /\ Verdict[message][u] \in Seq({"allow", "deny", "defer", "throw"})
           /\ Len(Verdict[message][u]) \in Nat
           /\ DOMAIN Verdict[message][u] = 1 .. Len(Verdict[message][u])
BY VerdictAssumption

(* A pipeline that has heard all verdicts decides as Permitted says; one   *)
(* that has not goes on.                                                   *)
LEMMA PipelineDecides ==
    ASSUME message \in Message, NEW t \in Turn, t.is = "asked" => HeardSoFar(t)
    PROVE  LET w == EvaluatePipeline(t)
           IN  /\ w \in Turn /\ w.had = t.had
               /\ StillAsking(w)
               /\ w.is = "allowed" /\ t.is = "asked" => t.user \in User /\ Permitted(t.user)
               /\ w.is = "denied" /\ t.is = "asked" => t.user \in User /\ ~Permitted(t.user)
               /\ t.is # "asked" => w = t
<1> DEFINE verdicts == Verdict[message][t.user]
           w == EvaluatePipeline(t)
<1>1. CASE t.is = "asked" /\ t.asked = Len(verdicts)
  <2>1. HeardSoFar(t) /\ t.user \in User
    BY <1>1 DEF HeardSoFar
  <2>2. DOMAIN verdicts = 1 .. t.asked
    BY <1>1, <2>1, VerdictsTyped
  <2>3. /\ Range(verdicts) \cap {"deny", "throw"} = {}
        /\ t.hasAllow <=> "allow" \in Range(verdicts)
    BY <2>1, <2>2 DEF HeardSoFar, Range
  <2>4. Permitted(t.user) <=> t.hasAllow \/ DefaultPolicy = "allow"
    BY <2>3 DEF Permitted
  <2>5. w = [t EXCEPT !.is = IF t.hasAllow \/ DefaultPolicy = "allow"
                             THEN "allowed" ELSE "denied"]
    BY <1>1 DEF EvaluatePipeline
  <2>6. w \in Turn /\ w.had = t.had
    BY <2>5 DEF Turn
  <2>7. w.is = IF t.hasAllow \/ DefaultPolicy = "allow" THEN "allowed" ELSE "denied"
    BY <2>5 DEF Turn
  <2> QED
    BY <1>1, <2>1, <2>4, <2>6, <2>7 DEF StillAsking
<1>2. CASE ~(t.is = "asked" /\ t.asked = Len(verdicts))
  <2>1. w = t
    BY <1>2 DEF EvaluatePipeline
  <2>2. StillAsking(t)
    BY <1>2, VerdictsTyped DEF StillAsking, HeardSoFar
  <2> QED
    BY <2>1, <2>2
<1> QED
    BY <1>1, <1>2

(* One more verdict is heard: one that denies or throws decides at once.   *)
LEMMA HearsOne ==
    ASSUME message \in Message, NEW t \in Turn, t.is = "asked", StillAsking(t)
    PROVE  LET g == Hear(t, Verdict[message][t.user][t.asked + 1])
           IN  /\ g \in Turn /\ g.had = t.had /\ g.user = t.user
               /\ t.user \in User /\ t.user \in t.had
               /\ g.is # "allowed"
               /\ g.is = "asked" => HeardSoFar(g)
               /\ g.is = "denied" => ~Permitted(t.user)
<1> DEFINE verdicts == Verdict[message][t.user]
           v == verdicts[t.asked + 1]
           g == Hear(t, v)
<1>1. HeardSoFar(t) /\ t.asked < Len(verdicts) /\ t.user \in User /\ t.user \in t.had
    BY DEF StillAsking, HeardSoFar
<1>2. /\ t.asked + 1 \in DOMAIN verdicts /\ t.asked \in Nat
      /\ Len(verdicts) \in Nat
      /\ 1 .. t.asked + 1 = (1 .. t.asked) \cup {t.asked + 1}
    BY <1>1, VerdictsTyped DEF HeardSoFar
<1> HIDE DEF v
<1>3. /\ g \in Turn /\ g.had = t.had /\ g.user = t.user
      /\ g.asked = t.asked + 1
      /\ g.is = IF v \in {"deny", "throw"} THEN "denied" ELSE "asked"
      /\ g.hasAllow <=> t.hasAllow \/ v = "allow"
  <2> DEFINE allow == t.hasAllow \/ v = "allow"
  <2>1. g = [t EXCEPT !.is = IF v \in {"deny", "throw"} THEN "denied" ELSE @,
                      !.asked = @ + 1,
                      !.hasAllow = allow]
    BY DEF Hear
  <2>2. allow \in BOOLEAN /\ t.asked + 1 \in Nat
    BY <1>2
  <2> HIDE DEF allow
  <2>3. /\ g.had = t.had /\ g.user = t.user
        /\ g.asked = t.asked + 1
        /\ g.is = IF v \in {"deny", "throw"} THEN "denied" ELSE "asked"
        /\ g.hasAllow = allow
    BY <2>1 DEF Turn
  <2>4. g \in Turn
    BY <1>2, <2>1, <2>2 DEF Turn
  <2> USE DEF allow
  <2> QED
    BY <2>3, <2>4
<1> HIDE DEF g
<1>4. ASSUME g.is = "asked"
      PROVE  HeardSoFar(g)
  <2>1. v \notin {"deny", "throw"}
    BY <1>3, <1>4
  <2>2. \A i \in 1 .. t.asked + 1 : verdicts[i] \notin {"deny", "throw"}
    BY <1>1, <1>2, <2>1 DEF HeardSoFar, v
  <2>3. (t.hasAllow \/ v = "allow") <=> \E i \in 1 .. t.asked + 1 : verdicts[i] = "allow"
    BY <1>1, <1>2 DEF HeardSoFar, v
  <2>4. t.asked + 1 \in 0 .. Len(verdicts)
    BY <1>1, <1>2
  <2> QED
    BY <1>1, <1>3, <2>2, <2>3, <2>4 DEF HeardSoFar
<1>5. ASSUME g.is = "denied"
      PROVE  ~Permitted(t.user)
  <2>1. v \in {"deny", "throw"}
    BY <1>3, <1>5
  <2>2. v \in Range(verdicts)
    BY <1>2 DEF Range, v
  <2> QED
    BY <2>1, <2>2 DEF Permitted
<1> QED
    BY <1>1, <1>3, <1>4, <1>5 DEF g, v

(* The user of a connection is one, or nobody.                             *)
LEMMA UserOfIs ==
    ASSUME Typed, NEW c \in Connection
    PROVE  UserOf(c) \in User \cup {Nobody}
BY DEF Typed, UserOf, Tracked

(* A turn that goes on while the rest of the program does something.       *)
LEMMA MeanwhileKeepsTurn ==
    ASSUME DeliveryInv, SubscriptionInv', Meanwhile
    PROVE  DeliveryInv'
<1>1. UNCHANGED <<message, waiting>>
    BY DEF Meanwhile
<1>2. CASE turn.is # "asked"
  <2>1. turn' = turn
    BY <1>2 DEF Meanwhile
  <2> QED
    BY <1>1, <2>1 DEF DeliveryInv, StillAsking, HeardSoFar, DeliveredToThePermitted, Permitted
<1>3. CASE turn.is = "asked"
  <2>1. turn \in Turn /\ turn # NoTurn
    BY <1>3 DEF DeliveryInv, NoTurn
  <2>2. PICK u \in User \cup {Nobody} : turn' = [turn EXCEPT !.had = @ \cup {u}]
    <3>1. PICK c \in Connection : turn' = [turn EXCEPT !.had = @ \cup {UserOf(c)'}]
      BY <1>3, <2>1 DEF Meanwhile, Turn
    <3>2. UserOf(c)' \in User \cup {Nobody}
      BY UserOfIs DEF SubscriptionInv, Typed, UserOf, Tracked
    <3> QED
      BY <3>1, <3>2
  <2>3. /\ turn' \in Turn /\ turn'.is = "asked" /\ turn'.user = turn.user
        /\ turn'.asked = turn.asked /\ turn'.hasAllow = turn.hasAllow
        /\ turn.had \subseteq turn'.had
    BY <1>3, <2>1, <2>2 DEF Turn
  <2>4. HeardSoFar(turn) /\ turn.asked < Len(Verdict[message][turn.user])
    BY <1>3 DEF DeliveryInv, StillAsking
  <2>5. StillAsking(turn)'
    BY <1>1, <2>3, <2>4 DEF StillAsking, HeardSoFar
  <2>6. DeliveredToThePermitted'
    BY <2>3 DEF DeliveredToThePermitted
  <2> QED
    BY <1>1, <2>1, <2>3, <2>5, <2>6 DEF DeliveryInv
<1> QED
    BY <1>2, <1>3

(* A member of the audience is asked about as the user it is at its turn.  *)
LEMMA ShouldDeliverKeepsTurn ==
    ASSUME DeliveryInv, SubscriptionInv, NEW c \in Connection, ShouldDeliver(c)
    PROVE  DeliveryInv'
<1> DEFINE t == [is |-> IF UserOf(c) = Nobody THEN "allowed" ELSE "asked",
                 conn |-> c, user |-> UserOf(c), had |-> {UserOf(c)},
                 asked |-> 0, hasAllow |-> FALSE]
<1>1. /\ c = waiting /\ waiting' = Nobody /\ message' = message
      /\ turn' = EvaluatePipeline(t)
    BY DEF ShouldDeliver
<1>2. message \in Message
    BY <1>1, VerdictAssumption DEF DeliveryInv
<1>3. UserOf(c) \in User \cup {Nobody}
    BY UserOfIs DEF SubscriptionInv
<1>4. t \in Turn
    BY <1>3 DEF Turn
<1>5. ASSUME t.is = "asked" PROVE HeardSoFar(t)
  <2>1. UserOf(c) \in User
    BY <1>3, <1>5
  <2> QED
    BY <1>2, <2>1, VerdictsTyped DEF HeardSoFar
<1>6. /\ t.is = "asked" \/ t.is = "allowed"
      /\ t.user \in t.had
      /\ t.is = "allowed" => t.user = Nobody
    OBVIOUS
<1> HIDE DEF t
<1>7. LET w == EvaluatePipeline(t)
      IN  /\ w \in Turn /\ w.had = t.had
          /\ StillAsking(w)
          /\ w.is = "allowed" /\ t.is = "asked" => t.user \in User /\ Permitted(t.user)
          /\ w.is = "denied" /\ t.is = "asked" => t.user \in User /\ ~Permitted(t.user)
          /\ t.is # "asked" => w = t
    BY <1>2, <1>4, <1>5, PipelineDecides
<1>8. StillAsking(turn)'
    BY <1>1, <1>7 DEF StillAsking, HeardSoFar
<1>9. /\ turn'.is = "allowed" => \E u \in turn'.had : u = Nobody \/ Permitted(u)
      /\ turn'.is = "denied"  => \E u \in turn'.had \ {Nobody} : ~Permitted(u)
    BY <1>1, <1>6, <1>7, VerdictAssumption
<1>10. DeliveredToThePermitted'
    BY <1>1, <1>9 DEF DeliveredToThePermitted, Permitted
<1> QED
    BY <1>1, <1>2, <1>7, <1>8, <1>10 DEF DeliveryInv

(* One resolver after the other is asked about that user.                  *)
LEMMA EvaluateKeepsTurn ==
    ASSUME DeliveryInv, Evaluate
    PROVE  DeliveryInv'
<1> DEFINE g == Hear(turn, Verdict[message][turn.user][turn.asked + 1])
<1>1. /\ turn.is = "asked" /\ turn' = EvaluatePipeline(g)
      /\ message' = message /\ waiting' = waiting
    BY DEF Evaluate
<1>2. turn # NoTurn /\ turn \in Turn /\ message \in Message /\ waiting = Nobody
    BY <1>1 DEF DeliveryInv, NoTurn
<1>3. /\ g \in Turn /\ g.had = turn.had /\ g.user = turn.user
      /\ turn.user \in User /\ turn.user \in turn.had
      /\ g.is # "allowed"
      /\ g.is = "asked" => HeardSoFar(g)
      /\ g.is = "denied" => ~Permitted(turn.user)
    BY <1>1, <1>2, HearsOne DEF DeliveryInv
<1> HIDE DEF g
<1>4. LET w == EvaluatePipeline(g)
      IN  /\ w \in Turn /\ w.had = g.had
          /\ StillAsking(w)
          /\ w.is = "allowed" /\ g.is = "asked" => g.user \in User /\ Permitted(g.user)
          /\ w.is = "denied" /\ g.is = "asked" => g.user \in User /\ ~Permitted(g.user)
          /\ g.is # "asked" => w = g
    BY <1>2, <1>3, PipelineDecides
<1>5. StillAsking(turn)'
    BY <1>1, <1>4 DEF StillAsking, HeardSoFar
<1>6. /\ turn'.is = "allowed" => Permitted(turn.user)
      /\ turn'.is = "denied" => ~Permitted(turn.user)
    BY <1>1, <1>3, <1>4
<1>7. turn.user \in turn'.had /\ turn.user # Nobody
    BY <1>1, <1>3, <1>4, VerdictAssumption
<1>8. DeliveredToThePermitted'
    BY <1>1, <1>6, <1>7 DEF DeliveredToThePermitted, Permitted
<1> QED
    BY <1>1, <1>2, <1>4, <1>5, <1>8 DEF DeliveryInv

(* A message is published, or its turn ends.                               *)
LEMMA OthersKeepTurn ==
    ASSUME DeliveryInv, SubscriptionInv,
           \/ \E m \in Message, rooms \in SUBSET Room : Publish(m, rooms)
           \/ \E m \in Message : PublishToAllConnections(m)
           \/ TurnEnds
           \/ UNCHANGED deliveryVars
    PROVE  DeliveryInv'
<1>1. ASSUME NEW m \in Message, NEW rooms, Publish(m, rooms)
      PROVE  DeliveryInv'
  <2>1. message = "none" /\ message' = m /\ turn' = turn
    BY <1>1 DEF Publish
  <2>2. turn = NoTurn
    BY <2>1, VerdictAssumption DEF DeliveryInv
  <2>3. turn.is = "none"
    BY <2>2 DEF NoTurn
  <2>4. waiting' \in Connection
    BY <1>1 DEF Publish, Members, GetConnectionsInRoom, SubscriptionInv, ManagerInv,
        ManagerTypeOK
  <2> QED
    BY <2>1, <2>2, <2>3, <2>4 DEF DeliveryInv, StillAsking, DeliveredToThePermitted
<1>2. CASE TurnEnds
  <2>1. turn' = NoTurn /\ waiting' = waiting /\ turn # NoTurn
    BY <1>2 DEF TurnEnds, NoTurn
  <2>2. turn'.is = "none"
    BY <2>1 DEF NoTurn
  <2> QED
    BY <2>1, <2>2 DEF DeliveryInv, StillAsking, DeliveredToThePermitted
<1>3. CASE UNCHANGED deliveryVars
    BY <1>3 DEF deliveryVars, DeliveryInv, StillAsking, HeardSoFar,
        DeliveredToThePermitted, Permitted
<1> QED
    BY <1>1, <1>2, <1>3 DEF PublishToAllConnections

(* A message reaches those whom the resolvers permit, and only them, as a  *)
(* user they are during their own turn: for any number of resolvers, which *)
(* may deny, throw, allow or defer in any order, and whatever is refreshed *)
(* or closed between two of their answers.                                 *)
THEOREM AlwaysDeliveredToThePermitted == DeliverySpec => []DeliveredToThePermitted
<1>1. InitDelivery => DeliveryInv
  <2> SUFFICES ASSUME InitDelivery PROVE DeliveryInv
    OBVIOUS
  <2>1. turn = NoTurn /\ turn.is = "none" /\ waiting = Nobody
    BY DEF InitDelivery, NoTurn
  <2> QED
    BY <2>1 DEF DeliveryInv, StillAsking, DeliveredToThePermitted
<1>2. /\ DeliveryInv /\ SubscriptionInv /\ SubscriptionInv'
      /\ [NextDelivery]_allVars
      => DeliveryInv'
  <2> SUFFICES ASSUME DeliveryInv, SubscriptionInv, SubscriptionInv',
                      [NextDelivery]_allVars
               PROVE  DeliveryInv'
    OBVIOUS
  <2>1. CASE Meanwhile
    BY <2>1, MeanwhileKeepsTurn
  <2>2. ASSUME NEW c \in Connection, ShouldDeliver(c)
        PROVE  DeliveryInv'
    BY <2>2, ShouldDeliverKeepsTurn
  <2>3. CASE Evaluate
    BY <2>3, EvaluateKeepsTurn
  <2>4. CASE UNCHANGED allVars
    BY <2>4, OthersKeepTurn DEF allVars
  <2> QED
    BY <2>1, <2>2, <2>3, <2>4, OthersKeepTurn DEF NextDelivery
<1>3. DeliveryInv => DeliveredToThePermitted
    BY DEF DeliveryInv
<1> QED
    BY <1>1, <1>2, <1>3, SubscriptionInvariant, DeliveryIsSubscriptions, PTL
    DEF DeliverySpec
=============================================================================
