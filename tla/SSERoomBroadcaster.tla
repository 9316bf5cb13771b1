------------------------- MODULE SSERoomBroadcaster -------------------------
(***************************************************************************)
(* Room broadcasts over several nodes, lib/sse/rooms/SSERoomBroadcaster.ts *)
(* with the parts of AbstractSSEController, SSERoomManager and the Redis   *)
(* adapter a message passes through.  A delivery loop awaits the filter    *)
(* and the send of one connection after the other; at each await anything  *)
(* may happen, other loops, joins, leaves and disconnects, and between two *)
(* awaits nothing else on that node does (Quiet).                          *)
(*                                                                         *)
(* A loop is named <<n, b, r>>: node n handles broadcast b as received     *)
(* over room r, or as its publisher when r = Local.  Membership is the     *)
(* relation RoomMembership, which SSERoomManager implements.  Redis        *)
(* (external) delivers each published copy to some of the nodes, in any    *)
(* order: which nodes are subscribed is the matter of RedisSubscriptions.  *)
(***************************************************************************)
EXTENDS Naturals, FiniteSets, Sequences, SequencesExt

CONSTANTS
    Node, Connection, Room,
    Broadcast,   \* the messages, one broadcast each
    Local,       \* stands for "no room" in the name of the publisher's loop
    Origin,      \* [Broadcast -> Node]
    ManagerId,   \* [Node -> nodeId of its SSERoomManager]
    AdapterId,   \* [Node -> nodeId of its RedisAdapter]
    HasFilter,   \* whether a pre-delivery filter is set
    CacheSize,   \* MAX_DEDUP_CACHE_SIZE
    Setups       \* bound: where the connections are, who is connected, and how
                 \* many rooms all broadcasts together are sent to

ASSUME BroadcastAssumption ==
    /\ Origin \in [Broadcast -> Node]
    /\ Node \subseteq DOMAIN ManagerId /\ Node \subseteq DOMAIN AdapterId
    /\ HasFilter \in BOOLEAN
    /\ CacheSize \in Nat \ {0}
    /\ Local \notin Room /\ Local \notin Connection
    /\ IsFiniteSet(Room)
    /\ Setups \subseteq [nodeOf : [Connection -> Node],
                         registered : SUBSET Connection, budget : Nat]

VARIABLES
    nodeOf,      \* connection -> the node that has it; chosen once
    registered,  \* connections in their controller's map
    members,     \* pairs <<c, r>>: c is in room r on its node
    loops,       \* the delivery loops
    unpublished, \* broadcast -> rooms its publisher has still to publish
    channel,     \* copies on their way from Redis: <<n, b, r>>
    dedupCache,  \* connection -> ids of remote messages, oldest first
    delivered,   \* broadcast -> the publisher's count of deliveries
    filtered,    \* broadcast -> the publisher's count of denials
    served,      \* history: connection -> broadcast -> copies its publisher
                 \* sent
    relayed,     \* history: ... copies that loops for messages from Redis sent
    denied,      \* history: pairs <<c, b>> the publisher's filter denied
    screened,    \* history: pairs <<c, b>> another loop's filter denied
    evicted,     \* history: pairs <<c, b>> the cache of c had no place for
    unnamed,     \* broadcasts whose message has no id
    budget       \* rooms that broadcasts may still be sent to

\* what a delivery loop leaves behind
records == <<delivered, filtered, served, relayed, denied, screened>>
vars == <<nodeOf, registered, members, loops, unpublished, channel, dedupCache,
          records, evicted, unnamed, budget>>

LoopId == {<<Origin[b], b, Local>> : b \in Broadcast}
            \cup (Node \X Broadcast \X Room)

NoConnection == Local
Idle == [pc |-> "idle", audience |-> {}, todo |-> {}, cur |-> NoConnection]

PublisherLoop(b) == <<Origin[b], b, Local>>
IsRemote(l) == l[3] # Local

\* a loop between two awaits: it has just begun or moved past a connection
Running(l) == loops[l].pc = "next" /\ loops[l].todo # {}

\* nothing on node n is between two awaits, so an event can be handled
Quiet(n) == \A l \in LoopId : l[1] = n => ~Running(l)

Init ==
    /\ \E s \in Setups : /\ nodeOf = s.nodeOf
                        /\ registered = s.registered
                        /\ budget = s.budget
    /\ members = {}
    /\ loops = [l \in LoopId |-> Idle]
    /\ unpublished = [b \in Broadcast |-> {}]
    /\ channel = {}
    /\ dedupCache = [c \in Connection |-> << >>]
    /\ delivered = [b \in Broadcast |-> 0]
    /\ filtered = [b \in Broadcast |-> 0]
    /\ served = [c \in Connection |-> [b \in Broadcast |-> 0]]
    /\ relayed = [c \in Connection |-> [b \in Broadcast |-> 0]]
    /\ denied = {} /\ screened = {}
    /\ evicted = {}
    /\ unnamed = {}

-----------------------------------------------------------------------------
(* Membership and disconnection                                            *)

JoinRoom(c, r) ==
    /\ c \in registered
    /\ Quiet(nodeOf[c])
    /\ members' = members \cup {<<c, r>>}
    /\ UNCHANGED <<nodeOf, registered, loops, unpublished, channel, dedupCache,
                   records, evicted, unnamed, budget>>

LeaveRoom(c, r) ==
    /\ <<c, r>> \in members
    /\ Quiet(nodeOf[c])
    /\ members' = members \ {<<c, r>>}
    /\ UNCHANGED <<nodeOf, registered, loops, unpublished, channel, dedupCache,
                   records, evicted, unnamed, budget>>

\* unregisterConnection: leaveAll, cleanupConnection, connections.delete
Drop(c) ==
    /\ registered' = registered \ {c}
    /\ members' = {m \in members : m[1] # c}
    /\ dedupCache' = [dedupCache EXCEPT ![c] = << >>]

UnregisterConnection(c) ==
    /\ c \in registered
    /\ Quiet(nodeOf[c])
    /\ Drop(c)
    /\ UNCHANGED <<nodeOf, loops, unpublished, channel, records, evicted,
                   unnamed, budget>>

-----------------------------------------------------------------------------
(* The delivery loop                                                       *)

\* the connections of node n that are in one of the rooms now
CollectRoomConnections(n, rs) ==
    {c \in Connection : nodeOf[c] = n /\ \E r \in rs : <<c, r>> \in members}

Begin(l, conns) ==
    loops' = [loops EXCEPT ![l] = [pc |-> "next", audience |-> conns,
                                   todo |-> conns, cur |-> NoConnection]]

\* the loop moves on to the connections after c
PastIt(l, c) == [loops[l] EXCEPT !.pc = "next", !.todo = @ \ {c},
                                 !.cur = NoConnection]

\* sendToConnection(c): no sender owns an unregistered connection; a message
\* the connection's event schema rejects makes the call, and with it the loop, throw
Offer(l, c, rejects) ==
    [PastIt(l, c) EXCEPT !.cur = c,
        !.pc = IF c \notin registered THEN "unowned"
               ELSE IF rejects THEN "failed" ELSE "send"]

\* a message without an id is never taken for a duplicate
IsDuplicateMessage(c, b) == b \notin unnamed /\ Contains(dedupCache[c], b)

\* deviation: the cache is not bounded
RememberAll(c, b) ==
    /\ dedupCache' = [dedupCache EXCEPT ![c] = Append(@, b)]
    /\ UNCHANGED evicted

\* an id enters the cache, at capacity in place of the oldest
Remember(c, b) ==
    LET full == Len(dedupCache[c]) >= CacheSize
    IN  /\ dedupCache' = [dedupCache EXCEPT
                            ![c] = Append(IF full THEN Tail(@) ELSE @, b)]
        /\ evicted' = IF full THEN evicted \cup {<<c, Head(dedupCache[c])>>}
                              ELSE evicted

\* a remote loop skips a connection that the id was already handled for
SkipDuplicate(l, c) ==
    /\ Running(l)
    /\ c \in loops[l].todo
    /\ IsRemote(l)
    /\ IsDuplicateMessage(c, l[2])
    /\ loops' = [loops EXCEPT ![l] = PastIt(l, c)]
    /\ UNCHANGED <<nodeOf, registered, members, unpublished, channel,
                   dedupCache, records, evicted, unnamed, budget>>

\* deviation: the id is not remembered before the filter is awaited
ConsiderUnremembered(l, c) ==
    /\ Running(l)
    /\ c \in loops[l].todo
    /\ IsRemote(l) => ~IsDuplicateMessage(c, l[2])
    /\ \E rejects \in BOOLEAN :
        loops' = [loops EXCEPT ![l] =
                    IF HasFilter THEN [PastIt(l, c) EXCEPT !.pc = "filter", !.cur = c]
                                 ELSE Offer(l, c, rejects)]
    /\ UNCHANGED <<nodeOf, registered, members, unpublished, channel,
                   dedupCache, records, evicted, unnamed, budget>>

\* the loop turns to c: a remote one remembers the id, if there is one, before
\* the filter runs
Consider(l, c) ==
    /\ Running(l)
    /\ c \in loops[l].todo
    /\ IsRemote(l) => ~IsDuplicateMessage(c, l[2])
    /\ IF IsRemote(l) /\ l[2] \notin unnamed THEN Remember(c, l[2])
       ELSE UNCHANGED <<dedupCache, evicted>>
    /\ \E rejects \in BOOLEAN :
        loops' = [loops EXCEPT ![l] =
                    IF HasFilter THEN [PastIt(l, c) EXCEPT !.pc = "filter", !.cur = c]
                                 ELSE Offer(l, c, rejects)]
    /\ UNCHANGED <<nodeOf, registered, members, unpublished, channel, records,
                   unnamed, budget>>

FilterAllows(l) ==
    /\ loops[l].pc = "filter"
    /\ Quiet(l[1])
    /\ \E rejects \in BOOLEAN :
        loops' = [loops EXCEPT ![l] = Offer(l, loops[l].cur, rejects)]
    /\ UNCHANGED <<nodeOf, registered, members, unpublished, channel,
                   dedupCache, records, evicted, unnamed, budget>>

FilterDenies(l) ==
    /\ loops[l].pc = "filter"
    /\ Quiet(l[1])
    /\ loops' = [loops EXCEPT ![l] = PastIt(l, @.cur)]
    /\ IF IsRemote(l)
       THEN /\ screened' = screened \cup {<<loops[l].cur, l[2]>>}
            /\ UNCHANGED <<filtered, denied>>
       ELSE /\ filtered' = [filtered EXCEPT ![l[2]] = @ + 1]
            /\ denied' = denied \cup {<<loops[l].cur, l[2]>>}
            /\ UNCHANGED screened
    /\ UNCHANGED <<nodeOf, registered, members, unpublished, channel,
                   dedupCache, delivered, served, relayed, evicted, unnamed,
                   budget>>

SendSucceeds(l) ==
    /\ loops[l].pc = "send"
    /\ Quiet(l[1])
    /\ loops' = [loops EXCEPT ![l] = PastIt(l, @.cur)]
    /\ IF IsRemote(l)
       THEN /\ relayed' = [relayed EXCEPT ![loops[l].cur][l[2]] = @ + 1]
            /\ UNCHANGED <<delivered, served>>
       ELSE /\ delivered' = [delivered EXCEPT ![l[2]] = @ + 1]
            /\ served' = [served EXCEPT ![loops[l].cur][l[2]] = @ + 1]
            /\ UNCHANGED relayed
    /\ UNCHANGED <<nodeOf, registered, members, unpublished, channel,
                   dedupCache, filtered, denied, screened, evicted, unnamed,
                   budget>>

\* deviation: the attempt is counted, whatever the senders answer
CountUnowned(l) ==
    /\ loops[l].pc = "unowned"
    /\ Quiet(l[1])
    /\ loops' = [loops EXCEPT ![l] = PastIt(l, @.cur)]
    /\ delivered' = IF IsRemote(l) THEN delivered
                    ELSE [delivered EXCEPT ![l[2]] = @ + 1]
    /\ UNCHANGED <<nodeOf, registered, members, unpublished, channel,
                   dedupCache, filtered, served, relayed, denied, screened,
                   evicted, unnamed, budget>>

\* every sender answered false
SendFindsNobody(l) ==
    /\ loops[l].pc = "unowned"
    /\ Quiet(l[1])
    /\ loops' = [loops EXCEPT ![l] = PastIt(l, @.cur)]
    /\ UNCHANGED <<nodeOf, registered, members, unpublished, channel,
                   dedupCache, records, evicted, unnamed, budget>>

\* deviation: the failure is caught outside the loop, which ends
SendThrowsOut(l) ==
    /\ loops[l].pc = "send"
    /\ Quiet(l[1])
    /\ loops' = [loops EXCEPT ![l] = [PastIt(l, @.cur) EXCEPT !.todo = {}]]
    /\ Drop(loops[l].cur)
    /\ UNCHANGED <<nodeOf, unpublished, channel, records, evicted, unnamed,
                   budget>>

\* sendEvent catches the failure and unregisters the connection
SendThrows(l) ==
    /\ loops[l].pc = "send"
    /\ Quiet(l[1])
    /\ loops' = [loops EXCEPT ![l] = PastIt(l, @.cur)]
    /\ Drop(loops[l].cur)
    /\ UNCHANGED <<nodeOf, unpublished, channel, records, evicted, unnamed,
                   budget>>

-----------------------------------------------------------------------------
(* The publisher                                                           *)

\* broadcastMessage(rs, b, {local}), with or without an id in the message
BroadcastMessage(b, rs, local, hasId) ==
    /\ loops[PublisherLoop(b)].pc = "idle"
    /\ Quiet(Origin[b])
    /\ Cardinality(rs) <= budget
    /\ budget' = budget - Cardinality(rs)
    /\ unnamed' = IF hasId THEN unnamed ELSE unnamed \cup {b}
    /\ Begin(PublisherLoop(b), CollectRoomConnections(Origin[b], rs))
    /\ unpublished' = [unpublished EXCEPT ![b] = IF local THEN {} ELSE rs]
    /\ UNCHANGED <<nodeOf, registered, members, channel, dedupCache, records,
                   evicted>>

LoopEnded(l) == loops[l].pc = "next" /\ loops[l].todo = {}
Finished(b) == LoopEnded(PublisherLoop(b)) /\ unpublished[b] = {}

\* nodes that may be subscribed: a room is for the sake of a connection in it
Hosts == {nodeOf[c] : c \in Connection}

\* the publisher awaits one publish per room; a copy that no one handles is
\* one for a node, the publisher included, that is not subscribed
Publish(b, r) ==
    /\ LoopEnded(PublisherLoop(b))
    /\ r \in unpublished[b]
    /\ unpublished' = [unpublished EXCEPT ![b] = @ \ {r}]
    /\ channel' = channel \cup (Hosts \X {b} \X {r})
    /\ UNCHANGED <<nodeOf, registered, members, loops, dedupCache, records,
                   evicted, unnamed, budget>>

\* a rejected publish ends the broadcast: no room after it is published
PublishRejects(b) ==
    /\ LoopEnded(PublisherLoop(b))
    /\ unpublished[b] # {}
    /\ Quiet(Origin[b])
    /\ loops' = [loops EXCEPT ![PublisherLoop(b)].pc = "failed"]
    /\ UNCHANGED <<nodeOf, registered, members, unpublished, channel,
                   dedupCache, records, evicted, unnamed, budget>>

-----------------------------------------------------------------------------
(* The other nodes                                                         *)

\* the manager's handler drops what carries its own node id
DropEcho(n, b, r) ==
    /\ <<n, b, r>> \in channel
    /\ AdapterId[Origin[b]] = ManagerId[n]
    /\ Quiet(n)
    /\ channel' = channel \ {<<n, b, r>>}
    /\ UNCHANGED <<nodeOf, registered, members, loops, unpublished, dedupCache,
                   records, evicted, unnamed, budget>>

HandleRemoteBroadcast(n, b, r) ==
    /\ <<n, b, r>> \in channel
    /\ AdapterId[Origin[b]] # ManagerId[n]
    /\ Quiet(n)
    /\ channel' = channel \ {<<n, b, r>>}
    /\ Begin(<<n, b, r>>, CollectRoomConnections(n, {r}))
    /\ UNCHANGED <<nodeOf, registered, members, unpublished, dedupCache,
                   records, evicted, unnamed, budget>>

Next ==
    \/ \E c \in Connection, r \in Room : JoinRoom(c, r)
    \/ \E c \in Connection, r \in Room : LeaveRoom(c, r)
    \/ \E c \in Connection : UnregisterConnection(c)
    \/ \E b \in Broadcast, rs \in (SUBSET Room) \ {{}},
           local \in BOOLEAN, hasId \in BOOLEAN :
            BroadcastMessage(b, rs, local, hasId)
    \/ \E l \in LoopId, c \in Connection : SkipDuplicate(l, c)
    \/ \E l \in LoopId, c \in Connection : Consider(l, c)
    \/ \E l \in LoopId : FilterAllows(l)
    \/ \E l \in LoopId : FilterDenies(l)
    \/ \E l \in LoopId : SendSucceeds(l)
    \/ \E l \in LoopId : SendFindsNobody(l)
    \/ \E l \in LoopId : SendThrows(l)
    \/ \E b \in Broadcast, r \in Room : Publish(b, r)
    \/ \E b \in Broadcast : PublishRejects(b)
    \/ \E n \in Node, b \in Broadcast, r \in Room : DropEcho(n, b, r)
    \/ \E n \in Node, b \in Broadcast, r \in Room : HandleRemoteBroadcast(n, b, r)

Spec == Init /\ [][Next]_vars

-----------------------------------------------------------------------------
TypeOK ==
    /\ nodeOf \in [Connection -> Node]
    /\ registered \subseteq Connection
    /\ members \subseteq registered \X Room
    /\ loops \in [LoopId -> [pc : {"idle", "next", "filter", "send", "unowned",
                                    "failed"},
                             audience : SUBSET Connection,
                             todo : SUBSET Connection,
                             cur : Connection \cup {NoConnection}]]
    /\ unpublished \in [Broadcast -> SUBSET Room]
    /\ channel \subseteq Node \X Broadcast \X Room
    /\ DOMAIN dedupCache = Connection
    /\ \A c \in Connection : /\ dedupCache[c] \in Seq(Broadcast)
                             /\ Len(dedupCache[c]) <= CacheSize
    /\ delivered \in [Broadcast -> Nat]
    /\ filtered \in [Broadcast -> Nat]
    /\ served \in [Connection -> [Broadcast -> Nat]]
    /\ relayed \in [Connection -> [Broadcast -> Nat]]
    /\ denied \subseteq Connection \X Broadcast
    /\ screened \subseteq Connection \X Broadcast
    /\ evicted \subseteq Connection \X Broadcast
    /\ unnamed \subseteq Broadcast
    /\ budget \in Nat

\* A node hears its own message as another's: ManagerId and AdapterId are drawn
\* one by one unless the application gives both the same.
Echoes(n) == AdapterId[n] # ManagerId[n]

\* "Each connection receives the message only once, even if in multiple rooms"
\* (README.md:1698), whichever node it is on and whatever it joins and leaves
\* meanwhile.  Only where a node hears its echo is there one copy more, and
\* only an id that the bounded cache had no place for, and a message that has
\* no id, may come once per room.
AtMostOnce ==
    \A c \in Connection, b \in Broadcast :
        b \notin unnamed /\ <<c, b>> \notin evicted =>
            served[c][b] + relayed[c][b]
                <= IF nodeOf[c] = Origin[b] /\ Echoes(Origin[b]) THEN 2 ELSE 1

\* What broadcastMessage returns when it ends is what its own loop did:
\* delivered counts the local connections it sent the message to, filtered the
\* ones it denied it, also when broadcasts and echoes overlap.
CountsAreRight ==
    \A b \in Broadcast :
        /\ delivered[b] = Cardinality({c \in Connection : served[c][b] > 0})
        /\ filtered[b] = Cardinality({c \in Connection : <<c, b>> \in denied})

\* Some loop of the node still holds c in hand for b, or ended by throwing.
InHand(n, b, c) ==
    \E l \in LoopId : /\ l[1] = n /\ l[2] = b
                      /\ \/ loops[l].cur = c
                         \/ loops[l].pc = "failed"

\* c was sent b or denied it, by whatever loop
Reached(c, b) ==
    \/ served[c][b] > 0 \/ relayed[c][b] > 0
    \/ <<c, b>> \in denied \cup screened

\* A loop that ended has forgotten nobody: each connection that was in the
\* room when it began was sent the message or denied it, or has gone, or
\* another loop with the same id, for which it was skipped, has it in hand.
NobodyForgotten ==
    \A l \in LoopId : LoopEnded(l) =>
        \A c \in loops[l].audience :
            \/ Reached(c, l[2])
            \/ c \notin registered
            \/ InHand(l[1], l[2], c)
=============================================================================
