-------------------------- MODULE SSESubscriptions --------------------------
(***************************************************************************)
(* The subscription manager of one node,                                   *)
(* lib/sse/subscriptions/SSESubscriptionManager.ts, over the room manager. *)
(* A session that connects runs through a chain of application resolvers,  *)
(* each awaited, and joins the rooms they name; a refresh runs them again  *)
(* and moves the connection between rooms.  A refresh works on the state   *)
(* it read before its first await.                                         *)
(*                                                                         *)
(* A user context is abstracted to the user id resolveUserId reads off it. *)
(* The application wires the manager as README.md "Integrating with a      *)
(* Controller" does: handleConnect is not awaited by the handler, and      *)
(* onClose calls handleDisconnect, after which the controller unregisters  *)
(* the connection, which leaves its rooms.  Nothing keeps these calls from *)
(* overlapping at their awaits; raced remembers the connections on which   *)
(* they did.                                                               *)
(***************************************************************************)
EXTENDS SSERoomManager, Naturals, Sequences

CONSTANTS
    User,          \* user ids
    Resolver,      \* names of the resolvers
    ConnectChain,  \* the resolvers that have onConnect, in order
    RefreshChain,  \* the resolvers that have refresh, in order
    Call,          \* calls of refreshConnection or refreshUser at a time
    RoomsOf        \* bound: the rooms each resolver may declare

ASSUME ChainAssumption ==
    /\ ConnectChain \in Seq(Resolver) /\ RefreshChain \in Seq(Resolver)
    /\ RoomsOf \in [Resolver -> SUBSET Room]

\* "Unique resolver name" (types.ts:78): the Map of rooms is keyed by it
ASSUME NamesAssumption == IsInjective(RefreshChain)

VARIABLES
    phase,             \* of the session: "new", "open", "closing", "closed"
    connecting,        \* handleConnect calls that await, by connection
    connectionStates,  \* connection -> its user, rooms, rooms by resolver
    userConnections,   \* user id -> connections
    refreshing,        \* refreshes that await, by call
    todo,              \* connections refreshUser has still to refresh, by call
    raced              \* history: connections that closed or were refreshed
                       \* while another call on them awaited

subscriptionVars ==
    <<phase, connecting, connectionStates, userConnections, refreshing, todo,
      raced>>
vars == <<managerVars, subscriptionVars>>

\* the functions here are Maps: a key is present when it is in the domain
Put(f, k, v) == [x \in DOMAIN f \cup {k} |-> IF x = k THEN v ELSE f[x]]
Delete(f, k) == Restrict(f, DOMAIN f \ {k})

ComputeRoomUnion(resolverRooms) ==
    UNION {resolverRooms[x] : x \in DOMAIN resolverRooms}

\* deviation: the empty set stays
UnindexedKeepsSet(index, c, u) ==
    IF u \in DOMAIN index THEN [index EXCEPT ![u] = @ \ {c}] ELSE index

\* a set left empty is deleted from the index
Unindexed(index, c, u) ==
    IF u \notin DOMAIN index THEN index
    ELSE IF index[u] \subseteq {c} THEN Delete(index, u)
    ELSE [index EXCEPT ![u] = @ \ {c}]

Indexed(index, c, u) ==
    Put(index, u, {c} \cup IF u \in DOMAIN index THEN index[u] ELSE {})

-----------------------------------------------------------------------------
Init ==
    /\ InitManager
    /\ phase = [c \in Connection |-> "new"]
    /\ connecting = [c \in {} |-> {}]
    /\ connectionStates = [c \in {} |-> {}]
    /\ userConnections = [u \in {} |-> {}]
    /\ refreshing = [k \in {} |-> {}]
    /\ todo = [k \in Call |-> {}]
    /\ raced = {}

-----------------------------------------------------------------------------
(* handleConnect                                                           *)

HandleConnect(c) ==
    /\ phase[c] = "new"
    /\ phase' = [phase EXCEPT ![c] = "open"]
    /\ connecting' = Put(connecting, c, [step |-> 0])
    /\ UNCHANGED <<managerVars, connectionStates, userConnections, refreshing, todo,
                   raced>>

\* all that follows the last await, in one go
FinishConnect(c, u, resolverRooms) ==
    LET rooms == ComputeRoomUnion(resolverRooms)
    IN  /\ Join(c, rooms)
        /\ connectionStates' = Put(connectionStates, c,
               [user |-> u, rooms |-> rooms, resolverRooms |-> resolverRooms])
        /\ userConnections' = Indexed(userConnections, c, u)
        /\ connecting' = Delete(connecting, c)

ConnectGoesOn(c, step, u, resolverRooms) ==
    /\ IF step > Len(ConnectChain)
       THEN FinishConnect(c, u, resolverRooms)
       ELSE /\ connecting' = Put(connecting, c,
                   [step |-> step, user |-> u, resolverRooms |-> resolverRooms])
            /\ UNCHANGED <<managerVars, connectionStates, userConnections>>
    /\ UNCHANGED <<phase, refreshing, todo, raced>>

UserContextResolved(c, u) ==
    /\ c \in DOMAIN connecting
    /\ connecting[c].step = 0
    /\ ConnectGoesOn(c, 1, u, [x \in {} |-> {}])

OnConnectReturns(c, u, rooms) ==
    /\ c \in DOMAIN connecting
    /\ connecting[c].step > 0
    /\ LET h == connecting[c]
       IN  /\ rooms \subseteq RoomsOf[ConnectChain[h.step]]
           /\ ConnectGoesOn(c, h.step + 1, u,
                            Put(h.resolverRooms, ConnectChain[h.step], rooms))

\* resolveUserContext or a resolver throws: the connection stays untracked
ConnectRejects(c) ==
    /\ c \in DOMAIN connecting
    /\ connecting' = Delete(connecting, c)
    /\ UNCHANGED <<managerVars, phase, connectionStates, userConnections,
                   refreshing, todo, raced>>

-----------------------------------------------------------------------------
(* The session closes                                                      *)

Refreshed(c) == \E k \in DOMAIN refreshing : refreshing[k].conn = c
Track(c, overlap) == raced' = IF overlap THEN raced \cup {c} ELSE raced

\* deviation: only the index is cleaned up
HandleDisconnectKeepsState(c) ==
    /\ phase[c] = "open"
    /\ phase' = [phase EXCEPT ![c] = "closing"]
    /\ Track(c, Refreshed(c) \/ c \in DOMAIN connecting)
    /\ userConnections' = IF c \in DOMAIN connectionStates
                          THEN Unindexed(userConnections, c, connectionStates[c].user)
                          ELSE userConnections
    /\ UNCHANGED <<managerVars, connecting, connectionStates, refreshing, todo>>

\* onClose -> handleDisconnect, a no-op for a connection without state
HandleDisconnect(c) ==
    /\ phase[c] = "open"
    /\ phase' = [phase EXCEPT ![c] = "closing"]
    /\ Track(c, Refreshed(c) \/ c \in DOMAIN connecting)
    /\ IF c \in DOMAIN connectionStates
       THEN /\ userConnections' =
                  Unindexed(userConnections, c, connectionStates[c].user)
            /\ connectionStates' = Delete(connectionStates, c)
       ELSE UNCHANGED <<connectionStates, userConnections>>
    /\ UNCHANGED <<managerVars, connecting, refreshing, todo>>

\* unregisterConnection, once onClose has settled
UnregisterConnection(c) ==
    /\ phase[c] = "closing"
    /\ phase' = [phase EXCEPT ![c] = "closed"]
    /\ LeaveAll(c)
    /\ UNCHANGED <<connecting, connectionStates, userConnections, refreshing, todo,
                   raced>>

-----------------------------------------------------------------------------
(* refreshConnection, refreshUser                                          *)

Idle(k) == k \notin DOMAIN refreshing /\ todo[k] = {}

\* up to the first await: the state of the connection is read here
BeginRefresh(k, c) ==
    /\ Track(c, Refreshed(c))
    /\ refreshing' =
          IF c \notin DOMAIN connectionStates THEN refreshing
          ELSE LET s == connectionStates[c]
               IN  Put(refreshing, k,
                       [conn |-> c, step |-> 1, was |-> s, user |-> s.user,
                        resolverRooms |-> s.resolverRooms, failed |-> {}])
    /\ UNCHANGED <<managerVars, phase, connecting, connectionStates, userConnections>>

RefreshConnection(k, c) ==
    /\ Idle(k)
    /\ BeginRefresh(k, c)
    /\ UNCHANGED todo

\* the connections are a snapshot; their order in the Set is left open
RefreshUser(k, u, c) ==
    /\ Idle(k)
    /\ u \in DOMAIN userConnections
    /\ c \in userConnections[u]
    /\ BeginRefresh(k, c)
    /\ todo' = [todo EXCEPT ![k] = userConnections[u] \ {c}]

RefreshUserGoesOn(k, c) ==
    /\ k \notin DOMAIN refreshing
    /\ c \in todo[k]
    /\ BeginRefresh(k, c)
    /\ todo' = [todo EXCEPT ![k] = @ \ {c}]

Awaits(k) == k \in DOMAIN refreshing /\ refreshing[k].step <= Len(RefreshChain)

RefreshReturns(k, u, rooms) ==
    /\ Awaits(k)
    /\ rooms \subseteq RoomsOf[RefreshChain[refreshing[k].step]]
    /\ refreshing' = [refreshing EXCEPT
          ![k].step = @ + 1, ![k].user = u,
          ![k].resolverRooms = Put(@, RefreshChain[refreshing[k].step], rooms)]
    /\ UNCHANGED <<managerVars, phase, connecting, connectionStates,
                   userConnections, todo, raced>>

\* deviation: the rooms of a resolver that throws are dropped
RefreshThrowsRoomsAway(k) ==
    /\ Awaits(k)
    /\ refreshing' = [refreshing EXCEPT
          ![k].step = @ + 1,
          ![k].resolverRooms = Delete(@, RefreshChain[refreshing[k].step]),
          ![k].failed = @ \cup {RefreshChain[refreshing[k].step]}]
    /\ UNCHANGED <<managerVars, phase, connecting, connectionStates,
                   userConnections, todo, raced>>

\* the resolver keeps its rooms, the chain goes on with the user so far
RefreshThrows(k) ==
    /\ Awaits(k)
    /\ refreshing' = [refreshing EXCEPT
          ![k].step = @ + 1,
          ![k].failed = @ \cup {RefreshChain[refreshing[k].step]}]
    /\ UNCHANGED <<managerVars, phase, connecting, connectionStates,
                   userConnections, todo, raced>>

\* deviation: the rooms that are no longer declared are not left
ApplyRoomDiffJoinsOnly(c, current, new) == Join(c, new \ current)

\* applyRoomDiff: joins, then leaves; the two sets of rooms are disjoint
ApplyRoomDiff(c, current, new) ==
    LET toJoin == new \ current
        toLeave == current \ new
        mine == (GetRooms(c) \cup toJoin) \ toLeave
        emptied == {r \in toLeave : GetConnectionsInRoom(r) \subseteq {c}}
    IN  /\ connectionRooms' = IF mine = {} THEN Delete(connectionRooms, c)
                                           ELSE Put(connectionRooms, c, mine)
        /\ roomConnections' =
              [r \in (DOMAIN roomConnections \cup toJoin) \ emptied |->
                  CASE r \in toJoin  -> GetConnectionsInRoom(r) \cup {c}
                    [] r \in toLeave -> roomConnections[r] \ {c}
                    [] OTHER         -> roomConnections[r]]

\* deviation: the connection is added under its new user only
RekeyAddsOnly(index, c, previous, next) == Indexed(index, c, next)

RekeyUserConnection(index, c, previous, next) ==
    IF previous = next THEN index
    ELSE Indexed(Unindexed(index, c, previous), c, next)

\* runRefreshChain has returned: what was read before the chain is compared
\* with what it returned, and the state is replaced
ApplyRefresh(k) ==
    /\ k \in DOMAIN refreshing
    /\ ~Awaits(k)
    /\ LET f == refreshing[k]
           new == ComputeRoomUnion(f.resolverRooms)
       IN  /\ ApplyRoomDiff(f.conn, f.was.rooms, new)
           /\ connectionStates' = Put(connectionStates, f.conn,
                  [user |-> f.user, rooms |-> new, resolverRooms |-> f.resolverRooms])
           /\ userConnections' =
                  RekeyUserConnection(userConnections, f.conn, f.was.user, f.user)
    /\ refreshing' = Delete(refreshing, k)
    /\ UNCHANGED <<phase, connecting, todo, raced>>

-----------------------------------------------------------------------------
Next ==
    \/ \E c \in Connection : HandleConnect(c)
    \/ \E c \in Connection, u \in User : UserContextResolved(c, u)
    \/ \E c \in Connection, u \in User, rs \in SUBSET Room : OnConnectReturns(c, u, rs)
    \/ \E c \in Connection : ConnectRejects(c)
    \/ \E c \in Connection : HandleDisconnect(c)
    \/ \E c \in Connection : UnregisterConnection(c)
    \/ \E k \in Call, c \in Connection : RefreshConnection(k, c)
    \/ \E k \in Call, u \in User, c \in Connection : RefreshUser(k, u, c)
    \/ \E k \in Call, c \in Connection : RefreshUserGoesOn(k, c)
    \/ \E k \in Call, u \in User, rs \in SUBSET Room : RefreshReturns(k, u, rs)
    \/ \E k \in Call : RefreshThrows(k)
    \/ \E k \in Call : ApplyRefresh(k)

Spec == Init /\ [][Next]_vars

-----------------------------------------------------------------------------
\* The index by user is exact: refreshUser(u) reaches the connections whose
\* current user is u, all of them and no other, also after a refresh moved a
\* connection to another user and while calls on other connections overlap.
UserIndexAgrees ==
    \A c \in Connection \ raced, u \in User :
        (u \in DOMAIN userConnections /\ c \in userConnections[u])
            <=> (c \in DOMAIN connectionStates /\ connectionStates[c].user = u)

\* The room manager has a connection in the rooms its context names, and in
\* no room when the manager does not know it: in a room without a state,
\* shouldDeliver lets every message through.  (Between onClose and
\* unregisterConnection the rooms of a closing connection are still to leave.)
RoomsMatchContext ==
    \A c \in Connection \ raced : phase[c] # "closing" =>
        GetRooms(c) = IF c \in DOMAIN connectionStates
                      THEN connectionStates[c].rooms ELSE {}

\* Nothing is kept for a connection that closed between two calls on it: a
\* refreshUser that still has it in its list finds no state and does nothing
\* (SSESubscriptionManager.ts:201).
GoneIsForgotten ==
    \A c \in Connection \ raced :
        phase[c] = "closed" => c \notin DOMAIN connectionStates

\* A resolver whose refresh throws costs the connection none of the rooms it
\* had declared, whatever the other resolvers of the chain return.
FailureKeepsRooms ==
    [][\A c \in Connection \ raced, k \in DOMAIN refreshing \ DOMAIN refreshing' :
          LET f == refreshing[k]
          IN  f.conn = c =>
                  \A x \in f.failed \cap DOMAIN f.was.resolverRooms :
                      \A r \in f.was.resolverRooms[x] : IsInRoom(c, r)']_vars

\* "When a connection closes (client disconnect or server close), it
\* automatically leaves all rooms" (README.md:1823).
ClosedLeavesRooms ==
    \A c \in Connection : phase[c] = "closed" => GetRooms(c) = {}

TypeOK ==
    LET Tracked == [user : User, rooms : SUBSET Room,
                    resolverRooms : UNION {[R -> SUBSET Room] : R \in SUBSET Resolver}]
    IN  /\ ManagerTypeOK
        /\ phase \in [Connection -> {"new", "open", "closing", "closed"}]
        /\ DOMAIN connecting \subseteq Connection
        /\ DOMAIN connectionStates \subseteq Connection
        /\ \A c \in DOMAIN connectionStates : connectionStates[c] \in Tracked
        /\ DOMAIN userConnections \subseteq User
        /\ \A u \in DOMAIN userConnections :
              userConnections[u] \in (SUBSET Connection) \ {{}}
        /\ DOMAIN refreshing \subseteq Call
        /\ \A k \in DOMAIN refreshing : refreshing[k].was \in Tracked
        /\ todo \in [Call -> SUBSET Connection]
        /\ raced \subseteq Connection
=============================================================================
