---------------------- MODULE SSERoomBroadcasterProofs ----------------------
(***************************************************************************)
(* Proofs about room broadcasts, for any nodes, connections, rooms and     *)
(* messages, any size of the cache, with or without a filter.              *)
(***************************************************************************)
EXTENDS SSERoomBroadcaster, FiniteSetTheorems, TLAPS

(* What a loop records is expanded wherever a step leaves it alone.        *)
USE DEF records

LoopRecord == [pc : {"idle", "next", "filter", "send", "unowned", "failed"},
               audience : SUBSET Connection, todo : SUBSET Connection,
               cur : Connection \cup {NoConnection}]

(* What a loop holds is of its own node and its audience, and a loop that  *)
(* does not await has no connection in hand.                               *)
LoopOK(l, p) ==
    /\ p \in LoopRecord
    /\ p.todo \subseteq p.audience
    /\ \A c \in p.audience : nodeOf[c] = l[1]
    /\ p.cur # NoConnection => p.cur \in p.audience /\ p.cur \notin p.todo
    /\ p.pc \in {"idle", "next"} => p.cur = NoConnection
    /\ p.pc \in {"filter", "send", "unowned"} => p.cur # NoConnection
    /\ p.pc = "idle" => p = Idle
    /\ p.pc = "unowned" => p.cur \notin registered

LoopsOK == \A l \in LoopId : LoopOK(l, loops[l])

(* A loop that is still to begin has not begun: no copy of a message comes *)
(* twice to one node over one room.                                        *)
StartedOnce ==
    \A b \in Broadcast, n \in Node, r \in Room :
        \/ r \in unpublished[b]
        \/ loops[PublisherLoop(b)].pc = "idle"
        \/ <<n, b, r>> \in channel
        => loops[<<n, b, r>>].pc = "idle"

NotYetSent ==
    \A b \in Broadcast, n \in Node, r \in Room :
        \/ r \in unpublished[b]
        \/ loops[PublisherLoop(b)].pc = "idle"
        => <<n, b, r>> \notin channel

NothingBefore ==
    \A b \in Broadcast : loops[PublisherLoop(b)].pc = "idle" => unpublished[b] = {}

(* What a node handles as another's does not carry its own id.             *)
HeardAsForeign ==
    \A l \in LoopId : IsRemote(l) /\ loops[l].pc # "idle" =>
        AdapterId[Origin[l[2]]] # ManagerId[l[1]]

(* So a connection of the publisher's own node is relayed its message only *)
(* where the node hears its echo.                                          *)
RelayedAsForeign ==
    \A c \in Connection, b \in Broadcast : relayed[c][b] > 0 =>
        AdapterId[Origin[b]] # ManagerId[nodeOf[c]]

ToServe(b) ==
    LET p == loops[PublisherLoop(b)]
    IN  p.todo \cup {c \in {p.cur} : p.pc \in {"filter", "send"}}

(* The publisher serves each of its connections once, and no others.       *)
ServedOnce ==
    \A b \in Broadcast, c \in Connection :
        /\ served[c][b] <= 1
        /\ served[c][b] > 0 => nodeOf[c] = Origin[b]
        /\ c \in ToServe(b) \/ loops[PublisherLoop(b)].pc = "idle" =>
              served[c][b] = 0 /\ <<c, b>> \notin denied

(* A loop for a message from Redis will send to c, unless a filter keeps it*)
(* from that or c goes.                                                    *)
Holds(l, c) ==
    /\ IsRemote(l)
    /\ loops[l].cur = c
    /\ \/ loops[l].pc = "send"
       \/ loops[l].pc = "filter" /\ c \in registered

(* Of these loops one at a time has the connection, the id is in the cache *)
(* from then on, and none has it once one has sent it the message.         *)
SeenOnce ==
    \A c \in Connection, b \in Broadcast :
        b \notin unnamed /\ <<c, b>> \notin evicted =>
            /\ relayed[c][b] <= 1
            /\ \A l \in LoopId : l[2] = b /\ Holds(l, c) =>
                  /\ relayed[c][b] = 0
                  /\ \A k \in LoopId : k[2] = b /\ Holds(k, c) => k = l
            /\ c \in registered /\ (relayed[c][b] > 0
                                      \/ \E l \in LoopId : l[2] = b /\ Holds(l, c))
                  => Contains(dedupCache[c], b)

DeliveredTo(b) == {c \in Connection : served[c][b] > 0}
FilteredFor(b) == {c \in Connection : <<c, b>> \in denied}

CountsOK ==
    \A b \in Broadcast :
        /\ IsFiniteSet(DeliveredTo(b)) /\ delivered[b] = Cardinality(DeliveredTo(b))
        /\ IsFiniteSet(FilteredFor(b)) /\ filtered[b] = Cardinality(FilteredFor(b))

(* What NobodyForgotten asks of a connection.                              *)
Settled(c, b) ==
    \/ Reached(c, b)
    \/ c \notin registered
    \/ InHand(nodeOf[c], b, c)

(* A connection is still to come or settled, and an id in the cache means  *)
(* that it is settled.                                                     *)
NobodyLost ==
    /\ \A l \in LoopId : \A c \in loops[l].audience \ loops[l].todo : Settled(c, l[2])
    /\ \A c \in Connection, b \in Broadcast : Contains(dedupCache[c], b) => Settled(c, b)

LoopInv == TypeOK /\ LoopsOK /\ StartedOnce /\ NotYetSent /\ NothingBefore
BroadcastInv == LoopInv /\ NobodyLost
OnceInv == HeardAsForeign /\ RelayedAsForeign /\ ServedOnce /\ SeenOnce /\ CountsOK

-----------------------------------------------------------------------------
(* The names of the loops.                                                 *)
LEMMA LoopIds ==
    /\ \A l \in LoopId : l[1] \in Node /\ l[2] \in Broadcast
    /\ \A l \in LoopId : ~IsRemote(l) => l = PublisherLoop(l[2])
    /\ \A b \in Broadcast : /\ PublisherLoop(b) \in LoopId /\ ~IsRemote(PublisherLoop(b))
                            /\ PublisherLoop(b)[1] = Origin[b]
                            /\ PublisherLoop(b)[2] = b
    /\ \A n \in Node, b \in Broadcast, r \in Room :
          /\ <<n, b, r>> \in LoopId /\ IsRemote(<<n, b, r>>)
          /\ <<n, b, r>>[1] = n /\ <<n, b, r>>[2] = b
BY BroadcastAssumption DEF LoopId, IsRemote, PublisherLoop

(* A loop that moves past a connection has none in hand.                   *)
LEMMA PastItIs ==
    ASSUME TypeOK, NEW l \in LoopId, NEW c
    PROVE  LET w == PastIt(l, c)
           IN  /\ w \in LoopRecord
               /\ w.pc = "next" /\ w.cur = NoConnection
               /\ w.todo = loops[l].todo \ {c} /\ w.audience = loops[l].audience
<1>1. loops[l] \in LoopRecord
    BY DEF TypeOK, LoopRecord
<1>2. loops[l].todo \ {c} \in SUBSET Connection
    BY <1>1 DEF LoopRecord
<1>3. NoConnection \in Connection \cup {NoConnection}
    OBVIOUS
<1> QED
    BY <1>1, <1>2, <1>3 DEF PastIt, LoopRecord

(* One that turns to it has it in hand, to filter it, to send to it or to  *)
(* find that it has gone.                                                  *)
Turned(w, l, c) ==
    /\ w \in LoopRecord
    /\ w.cur = c
    /\ w.todo = loops[l].todo \ {c} /\ w.audience = loops[l].audience
    /\ w.pc \in {"filter", "send", "unowned", "failed"}
    /\ w.pc = "unowned" => c \notin registered
    /\ w.pc = "send" => c \in registered

(* Both ways of turning to a connection are.                               *)
LEMMA TurnsTo ==
    ASSUME TypeOK, NEW l \in LoopId, NEW c \in Connection, NEW rejects \in BOOLEAN
    PROVE  /\ Turned([PastIt(l, c) EXCEPT !.pc = "filter", !.cur = c], l, c)
           /\ Turned(Offer(l, c, rejects), l, c)
<1> DEFINE u == PastIt(l, c)
<1>1. /\ u \in LoopRecord
      /\ u.todo = loops[l].todo \ {c} /\ u.audience = loops[l].audience
    BY PastItIs
<1> HIDE DEF u
<1>2. ASSUME NEW pc \in {"filter", "send", "unowned", "failed"},
             pc = "unowned" => c \notin registered,
             pc = "send" => c \in registered
      PROVE  Turned([u EXCEPT !.pc = pc, !.cur = c], l, c)
    BY <1>1, <1>2 DEF Turned, LoopRecord
<1>3. Turned([u EXCEPT !.pc = "filter", !.cur = c], l, c)
    BY <1>2
<1>4. Turned(Offer(l, c, rejects), l, c)
  <2>1. Offer(l, c, rejects) = [u EXCEPT !.cur = c,
                                 !.pc = IF c \notin registered THEN "unowned"
                                        ELSE IF rejects THEN "failed" ELSE "send"]
    BY DEF Offer, u
  <2>2. \A pc : [u EXCEPT !.cur = c, !.pc = pc] = [u EXCEPT !.pc = pc, !.cur = c]
    BY <1>1 DEF LoopRecord
  <2> DEFINE pc == IF c \notin registered THEN "unowned"
                   ELSE IF rejects THEN "failed" ELSE "send"
  <2>3. /\ pc \in {"filter", "send", "unowned", "failed"}
        /\ pc = "unowned" => c \notin registered
        /\ pc = "send" => c \in registered
    OBVIOUS
  <2> HIDE DEF pc
  <2>4. Turned([u EXCEPT !.pc = pc, !.cur = c], l, c)
    BY <1>2, <2>3
  <2> QED
    BY <2>1, <2>2, <2>4 DEF pc
<1> QED
    BY <1>3, <1>4 DEF u

(* Steps that leave the loops and the copies alone.                        *)
LEMMA NoLoopMoves ==
    ASSUME LoopInv, registered' \subseteq registered,
           UNCHANGED <<nodeOf, loops, unpublished, channel>>
    PROVE  LoopsOK' /\ StartedOnce' /\ NotYetSent' /\ NothingBefore'
BY DEF LoopInv, LoopsOK, LoopOK, StartedOnce, NotYetSent, NothingBefore

(* A connection that goes takes its rooms and its cache along.             *)
LEMMA DropKeepsTypes ==
    ASSUME TypeOK, NEW c, Drop(c)
    PROVE  /\ registered' \subseteq registered /\ registered' \subseteq Connection
           /\ members' \subseteq registered' \X Room
           /\ DOMAIN dedupCache' = Connection
           /\ \A d \in Connection : /\ dedupCache'[d] \in Seq(Broadcast)
                                    /\ Len(dedupCache'[d]) <= CacheSize
<1>1. members' \subseteq registered' \X Room
    BY DEF TypeOK, Drop
<1>2. /\ << >> \in Seq(Broadcast) /\ Len(<< >>) <= CacheSize
      /\ \A d \in Connection : dedupCache'[d] = IF d = c THEN << >> ELSE dedupCache[d]
      /\ DOMAIN dedupCache' = Connection
    BY BroadcastAssumption DEF TypeOK, Drop
<1> QED
    BY <1>1, <1>2 DEF TypeOK, Drop

(* Joins, leaves and disconnects.                                          *)
LEMMA MembershipKeepsLoopInv ==
    ASSUME LoopInv, NEW c \in Connection,
           \/ \E r \in Room : JoinRoom(c, r) \/ LeaveRoom(c, r)
           \/ UnregisterConnection(c)
    PROVE  LoopInv'
<1>1. /\ registered' \subseteq registered
      /\ UNCHANGED <<nodeOf, loops, unpublished, channel>>
    BY DEF JoinRoom, LeaveRoom, UnregisterConnection, Drop
<1>2. LoopsOK' /\ StartedOnce' /\ NotYetSent' /\ NothingBefore'
    BY <1>1, NoLoopMoves
<1>3. CASE UnregisterConnection(c)
  <2>1. TypeOK'
    BY <1>3, DropKeepsTypes DEF UnregisterConnection, LoopInv, TypeOK
  <2> QED
    BY <1>2, <2>1 DEF LoopInv
<1>4. ASSUME NEW r \in Room, JoinRoom(c, r) \/ LeaveRoom(c, r)
      PROVE  LoopInv'
  <2>1. members' \subseteq registered \X Room
    BY <1>4 DEF JoinRoom, LeaveRoom, LoopInv, TypeOK
  <2>2. TypeOK'
    BY <1>4, <2>1 DEF JoinRoom, LeaveRoom, LoopInv, TypeOK
  <2> QED
    BY <1>2, <2>2 DEF LoopInv
<1> QED
    BY <1>3, <1>4

(* The publisher publishes to one more room.                               *)
LEMMA PublishKeepsLoopInv ==
    ASSUME LoopInv, NEW b \in Broadcast, NEW r \in Room, Publish(b, r)
    PROVE  LoopInv'
<1>1. /\ loops[PublisherLoop(b)].pc = "next" /\ r \in unpublished[b]
      /\ unpublished' = [unpublished EXCEPT ![b] = @ \ {r}]
      /\ channel' = channel \cup (Hosts \X {b} \X {r})
      /\ UNCHANGED <<nodeOf, registered, members, loops, dedupCache, records,
                     evicted, unnamed, budget>>
    BY DEF Publish, LoopEnded
<1>2. TypeOK'
  <2>1. Hosts \subseteq Node
    BY DEF Hosts, LoopInv, TypeOK
  <2>2. channel' \subseteq Node \X Broadcast \X Room
    BY <1>1, <2>1 DEF LoopInv, TypeOK
  <2> QED
    BY <1>1, <2>2 DEF LoopInv, TypeOK
<1>3. LoopsOK'
    BY <1>1 DEF LoopInv, LoopsOK, LoopOK
<1>4. \A d \in Broadcast, n \in Node, q \in Room :
         <<n, d, q>> \in channel' => <<n, d, q>> \in channel \/ (d = b /\ q = r)
    BY <1>1
<1>5. \A d \in Broadcast, q \in Room :
         q \in unpublished'[d] <=> q \in unpublished[d] /\ ~(d = b /\ q = r)
    BY <1>1 DEF LoopInv, TypeOK
<1>6. StartedOnce' /\ NotYetSent'
    BY <1>1, <1>4, <1>5 DEF LoopInv, StartedOnce, NotYetSent
<1>7. NothingBefore'
    BY <1>1 DEF LoopInv, TypeOK, NothingBefore
<1> QED
    BY <1>2, <1>3, <1>6, <1>7 DEF LoopInv

(* An echo that is dropped.                                                *)
LEMMA DropEchoKeepsLoopInv ==
    ASSUME LoopInv, NEW n \in Node, NEW b \in Broadcast, NEW r \in Room, DropEcho(n, b, r)
    PROVE  LoopInv'
<1>1. /\ channel' = channel \ {<<n, b, r>>}
      /\ UNCHANGED <<nodeOf, registered, members, loops, unpublished, dedupCache, records,
                     evicted, unnamed, budget>>
    BY DEF DropEcho
<1>2. TypeOK'
    BY <1>1 DEF LoopInv, TypeOK
<1> QED
    BY <1>1, <1>2 DEF LoopInv, LoopsOK, LoopOK, StartedOnce, NotYetSent, NothingBefore

(* A publish that rejects.                                                 *)
LEMMA PublishRejectsKeepsLoopInv ==
    ASSUME LoopInv, NEW b \in Broadcast, PublishRejects(b)
    PROVE  LoopInv'
<1> DEFINE l == PublisherLoop(b)
           w == [loops[l] EXCEPT !.pc = "failed"]
<1>1. /\ loops' = [loops EXCEPT ![l] = w] /\ loops[l].pc = "next"
      /\ UNCHANGED <<nodeOf, registered, members, unpublished, channel, dedupCache,
                     records,
                     evicted, unnamed, budget>>
    BY DEF PublishRejects, LoopEnded
<1>2. l \in LoopId /\ loops \in [LoopId -> LoopRecord]
    BY LoopIds DEF LoopInv, TypeOK, LoopRecord
<1>3. /\ w \in LoopRecord /\ w.pc = "failed" /\ w.cur = loops[l].cur
      /\ w.todo = loops[l].todo /\ w.audience = loops[l].audience
    BY <1>2 DEF LoopRecord
<1>4. LoopOK(l, loops[l]) /\ loops[l].cur = NoConnection
    BY <1>1, <1>2 DEF LoopInv, LoopsOK, LoopOK
<1> HIDE DEF w, l
<1>5. /\ loops' \in [LoopId -> LoopRecord]
      /\ loops'[l] = w
      /\ \A k \in LoopId : k # l => loops'[k] = loops[k]
      /\ \A k \in LoopId : loops'[k].pc = "idle" <=> loops[k].pc = "idle"
    BY <1>1, <1>2, <1>3
<1>6. TypeOK'
    BY <1>1, <1>5 DEF LoopInv, TypeOK, LoopRecord
<1>7. ASSUME NEW k \in LoopId
      PROVE  LoopOK(k, loops[k])'
  <2>1. CASE k = l
    BY <1>1, <1>3, <1>4, <1>5, <2>1 DEF LoopOK
  <2>2. CASE k # l
    BY <1>1, <1>5, <2>2 DEF LoopInv, LoopsOK, LoopOK
  <2> QED
    BY <2>1, <2>2
<1>8. StartedOnce' /\ NotYetSent' /\ NothingBefore'
    BY <1>1, <1>5, LoopIds DEF LoopInv, StartedOnce, NotYetSent, NothingBefore
<1> QED
    BY <1>6, <1>7, <1>8 DEF LoopInv, LoopsOK

-----------------------------------------------------------------------------
(* A loop begins over an audience of its own node.                         *)
LEMMA BeginIs ==
    ASSUME LoopInv, NEW l \in LoopId, NEW conns \in SUBSET Connection,
           \A c \in conns : nodeOf[c] = l[1],
           Begin(l, conns), UNCHANGED <<nodeOf, registered>>
    PROVE  /\ loops' \in [LoopId -> LoopRecord]
           /\ \A k \in LoopId : k # l => loops'[k] = loops[k]
           /\ loops'[l] = [pc |-> "next", audience |-> conns, todo |-> conns,
                           cur |-> NoConnection]
           /\ LoopsOK'
<1> DEFINE w == [pc |-> "next", audience |-> conns, todo |-> conns, cur |-> NoConnection]
<1>1. loops \in [LoopId -> LoopRecord]
    BY DEF LoopInv, TypeOK, LoopRecord
<1>2. w \in LoopRecord
    BY DEF LoopRecord
<1>3. /\ loops' \in [LoopId -> LoopRecord]
      /\ \A k \in LoopId : k # l => loops'[k] = loops[k]
      /\ loops'[l] = w
    BY <1>1, <1>2 DEF Begin
<1>4. ASSUME NEW k \in LoopId
      PROVE  LoopOK(k, loops[k])'
  <2>1. CASE k = l
    BY <1>2, <1>3, <2>1 DEF LoopOK
  <2>2. CASE k # l
    BY <1>3, <2>2 DEF LoopInv, LoopsOK, LoopOK
  <2> QED
    BY <2>1, <2>2
<1> QED
    BY <1>3, <1>4 DEF LoopsOK

(* The publisher begins.                                                   *)
LEMMA BroadcastMessageKeepsLoopInv ==
    ASSUME LoopInv, NEW b \in Broadcast, NEW rs \in SUBSET Room, NEW local, NEW hasId,
           BroadcastMessage(b, rs, local, hasId)
    PROVE  LoopInv'
<1> DEFINE l == PublisherLoop(b)
           conns == CollectRoomConnections(Origin[b], rs)
<1>1. /\ loops[l].pc = "idle" /\ Begin(l, conns)
      /\ Cardinality(rs) <= budget /\ budget' = budget - Cardinality(rs)
      /\ unnamed' = IF hasId THEN unnamed ELSE unnamed \cup {b}
      /\ unpublished' = [unpublished EXCEPT ![b] = IF local THEN {} ELSE rs]
      /\ UNCHANGED <<nodeOf, registered, members, channel, dedupCache, records, evicted>>
    BY DEF BroadcastMessage
<1>2. /\ l \in LoopId /\ l[1] = Origin[b] /\ conns \in SUBSET Connection
      /\ \A c \in conns : nodeOf[c] = l[1]
    BY LoopIds DEF CollectRoomConnections
<1> HIDE DEF conns
<1>3. /\ loops' \in [LoopId -> LoopRecord]
      /\ \A k \in LoopId : k # l => loops'[k] = loops[k]
      /\ loops'[l] = [pc |-> "next", audience |-> conns, todo |-> conns,
                      cur |-> NoConnection]
      /\ LoopsOK'
    BY <1>1, <1>2, BeginIs
<1>4. budget' \in Nat /\ unnamed' \subseteq Broadcast
  <2>1. Cardinality(rs) \in Nat
    BY BroadcastAssumption, FS_Subset, FS_CardinalityType
  <2> QED
    BY <1>1, <2>1 DEF LoopInv, TypeOK
<1>5. TypeOK'
    BY <1>1, <1>3, <1>4 DEF LoopInv, TypeOK, LoopRecord
<1>6. /\ \A d \in Broadcast : d # b => unpublished'[d] = unpublished[d]
      /\ \A n \in Node, r \in Room :
            <<n, b, r>> \notin channel /\ loops'[<<n, b, r>>].pc = "idle"
  <2>1. /\ \A d \in Broadcast : d # b => unpublished'[d] = unpublished[d]
        /\ \A n \in Node, r \in Room :
              <<n, b, r>> \notin channel /\ loops[<<n, b, r>>].pc = "idle"
    BY <1>1 DEF LoopInv, TypeOK, StartedOnce, NotYetSent
  <2> QED
    BY <1>3, <2>1, LoopIds
<1>7. \A k \in LoopId : k # l => loops'[k].pc = loops[k].pc
    BY <1>3
<1>8. \A d \in Broadcast : d # b => PublisherLoop(d) # l
    BY LoopIds
<1>9. loops'[l].pc = "next"
    BY <1>3
<1>10. \A d \in Broadcast, n \in Node, r \in Room : d # b => <<n, d, r>> # l
    BY LoopIds
<1> HIDE DEF l
<1>11. StartedOnce'
    BY <1>1, <1>6, <1>7, <1>8, <1>10, LoopIds DEF LoopInv, StartedOnce
<1>12. NotYetSent'
    BY <1>1, <1>6, <1>7, <1>8, LoopIds DEF LoopInv, NotYetSent
<1>13. NothingBefore'
    BY <1>6, <1>7, <1>8, <1>9, LoopIds DEF l, LoopInv, NothingBefore
<1> QED
    BY <1>3, <1>5, <1>11, <1>12, <1>13 DEF LoopInv

(* A node begins with a copy that arrives.                                 *)
LEMMA HandleRemoteKeepsLoopInv ==
    ASSUME LoopInv, NEW n \in Node, NEW b \in Broadcast, NEW r \in Room,
           HandleRemoteBroadcast(n, b, r)
    PROVE  LoopInv'
<1> DEFINE l == <<n, b, r>>
           conns == CollectRoomConnections(n, {r})
<1>1. /\ l \in channel /\ Begin(l, conns) /\ channel' = channel \ {l}
      /\ UNCHANGED <<nodeOf, registered, members, unpublished, dedupCache, records,
                     evicted, unnamed, budget>>
    BY DEF HandleRemoteBroadcast
<1>2. /\ l \in LoopId /\ l[1] = n /\ conns \in SUBSET Connection /\ IsRemote(l)
      /\ \A c \in conns : nodeOf[c] = l[1]
    BY LoopIds DEF CollectRoomConnections
<1>3. r \notin unpublished[b] /\ loops[PublisherLoop(b)].pc # "idle"
    BY <1>1 DEF LoopInv, NotYetSent
<1> HIDE DEF conns
<1>4. /\ loops' \in [LoopId -> LoopRecord]
      /\ \A k \in LoopId : k # l => loops'[k] = loops[k]
      /\ loops'[l] = [pc |-> "next", audience |-> conns, todo |-> conns,
                      cur |-> NoConnection]
      /\ LoopsOK'
    BY <1>1, <1>2, BeginIs
<1>5. TypeOK'
    BY <1>1, <1>4 DEF LoopInv, TypeOK, LoopRecord
<1>6. \A d \in Broadcast : PublisherLoop(d) # l
    BY <1>2, LoopIds
<1>7. \A d \in Broadcast : loops'[PublisherLoop(d)] = loops[PublisherLoop(d)]
    BY <1>4, <1>6, LoopIds
<1>8. NotYetSent' /\ NothingBefore'
    BY <1>1, <1>7 DEF LoopInv, NotYetSent, NothingBefore
<1>9. StartedOnce'
  <2> SUFFICES ASSUME NEW d \in Broadcast, NEW m \in Node, NEW q \in Room,
                      \/ q \in unpublished[d]
                      \/ loops[PublisherLoop(d)].pc = "idle"
                      \/ <<m, d, q>> \in channel /\ <<m, d, q>> # l
               PROVE  loops'[<<m, d, q>>].pc = "idle"
    BY <1>1, <1>7 DEF StartedOnce
  <2>1. <<m, d, q>> # l
    BY <1>3
  <2>2. loops[<<m, d, q>>].pc = "idle"
    BY DEF LoopInv, StartedOnce
  <2> QED
    BY <1>4, <2>1, <2>2, LoopIds
<1> QED
    BY <1>4, <1>5, <1>8, <1>9 DEF LoopInv

-----------------------------------------------------------------------------
(* What an id does to the cache it enters: it is in it, and at most the    *)
(* oldest one, recorded as evicted, is no longer.                          *)
LEMMA RememberIs ==
    ASSUME TypeOK, NEW c \in Connection, NEW b \in Broadcast, Remember(c, b)
    PROVE  /\ DOMAIN dedupCache' = Connection
           /\ \A d \in Connection : /\ dedupCache'[d] \in Seq(Broadcast)
                                    /\ Len(dedupCache'[d]) <= CacheSize
           /\ evicted \subseteq evicted' /\ evicted' \subseteq Connection \X Broadcast
           /\ \A d \in Connection : d # c => dedupCache'[d] = dedupCache[d]
           /\ Contains(dedupCache'[c], b)
           /\ \A x \in Broadcast : Contains(dedupCache'[c], x) =>
                                      x = b \/ Contains(dedupCache[c], x)
           /\ \A x \in Broadcast : Contains(dedupCache[c], x) =>
                                      Contains(dedupCache'[c], x) \/ <<c, x>> \in evicted'
<1> DEFINE s == dedupCache[c]
           t == IF Len(s) >= CacheSize THEN Tail(s) ELSE s
<1>1. /\ s \in Seq(Broadcast) /\ Len(s) <= CacheSize
      /\ CacheSize \in Nat /\ CacheSize > 0
      /\ DOMAIN dedupCache = Connection
    BY BroadcastAssumption DEF TypeOK
<1>2. /\ dedupCache' = [dedupCache EXCEPT ![c] = Append(t, b)]
      /\ evicted' = IF Len(s) >= CacheSize THEN evicted \cup {<<c, Head(s)>>} ELSE evicted
    BY DEF Remember
<1>3. /\ t \in Seq(Broadcast) /\ Len(t) < CacheSize
      /\ Len(s) >= CacheSize => /\ Len(t) = Len(s) - 1 /\ Head(s) = s[1]
                                /\ s[1] \in Broadcast
                                /\ \A i \in 1 .. Len(t) : t[i] = s[i + 1]
      /\ ~(Len(s) >= CacheSize) => t = s
    BY <1>1
<1> HIDE DEF s, t
<1>4. /\ Append(t, b) \in Seq(Broadcast) /\ Len(Append(t, b)) = Len(t) + 1
      /\ \A i \in 1 .. Len(t) : Append(t, b)[i] = t[i]
      /\ Append(t, b)[Len(t) + 1] = b
    BY <1>3
<1>5. /\ \A d \in Connection : dedupCache'[d] = IF d = c THEN Append(t, b) ELSE dedupCache[d]
      /\ DOMAIN dedupCache' = Connection
    BY <1>1, <1>2
<1>6. \A d \in Connection : dedupCache'[d] \in Seq(Broadcast) /\ Len(dedupCache'[d]) <= CacheSize
  <2>1. Len(t) \in Nat /\ Len(Append(t, b)) <= CacheSize
    BY <1>1, <1>3, <1>4
  <2>2. \A d \in Connection : dedupCache[d] \in Seq(Broadcast) /\ Len(dedupCache[d]) <= CacheSize
    BY DEF TypeOK
  <2> QED
    BY <1>4, <1>5, <2>1, <2>2
<1>7. evicted \subseteq evicted' /\ evicted' \subseteq Connection \X Broadcast
    BY <1>2, <1>3 DEF TypeOK
<1>8. Len(t) \in Nat /\ Len(s) \in Nat
    BY <1>1, <1>3
<1>9. Contains(Append(t, b), b)
    BY <1>4, <1>8 DEF Contains
<1>10. ASSUME NEW x \in Broadcast, Contains(Append(t, b), x)
       PROVE  x = b \/ Contains(s, x)
  <2>1. PICK i \in 1 .. Len(t) + 1 : Append(t, b)[i] = x
    BY <1>4, <1>10 DEF Contains
  <2>2. CASE i = Len(t) + 1
    BY <1>4, <2>1, <2>2
  <2>3. CASE i # Len(t) + 1
    <3>1. i \in 1 .. Len(t) /\ t[i] = x
      BY <1>4, <1>8, <2>1, <2>3
    <3>2. CASE Len(s) >= CacheSize
      BY <1>3, <1>8, <3>1, <3>2 DEF Contains
    <3>3. CASE ~(Len(s) >= CacheSize)
      BY <1>3, <3>1, <3>3 DEF Contains
    <3> QED
      BY <3>2, <3>3
  <2> QED
    BY <2>2, <2>3
<1>11. ASSUME NEW x \in Broadcast, Contains(s, x)
       PROVE  Contains(Append(t, b), x) \/ <<c, x>> \in evicted'
  <2>1. PICK i \in 1 .. Len(s) : s[i] = x
    BY <1>11 DEF Contains
  <2>2. CASE Len(s) >= CacheSize /\ i = 1
    BY <1>2, <1>3, <2>1, <2>2
  <2>3. CASE Len(s) >= CacheSize /\ i # 1
    <3>1. i - 1 \in 1 .. Len(t) /\ t[i - 1] = s[(i - 1) + 1] /\ (i - 1) + 1 = i
      BY <1>3, <1>8, <2>3
    <3> QED
      BY <1>4, <1>8, <2>1, <3>1 DEF Contains
  <2>4. CASE ~(Len(s) >= CacheSize)
    BY <1>3, <1>4, <1>8, <2>1, <2>4 DEF Contains
  <2> QED
    BY <2>2, <2>3, <2>4
<1> QED
    BY <1>5, <1>6, <1>7, <1>9, <1>10, <1>11 DEF s

(* A step of a loop with one connection: one still to come, or the one in  *)
(* hand.  The loop is done with it, or has it in hand.                     *)
Passes(l) == loops'[l].pc = "next" /\ loops'[l].cur = NoConnection
Takes(l, c) ==
    /\ loops'[l].cur = c
    /\ loops'[l].pc \in {"filter", "send", "unowned", "failed"}
    /\ loops'[l].pc = "unowned" => c \notin registered'
    /\ loops'[l].pc = "send" => c \in registered

Moves(l, c) ==
    /\ c \in loops[l].audience
    /\ loops[l].pc \in {"next", "filter", "send", "unowned"}
    /\ c \in loops[l].todo \/ loops[l].cur = c
    /\ loops[l].cur \in {c, NoConnection}
    /\ loops' \in [LoopId -> LoopRecord]
    /\ \A k \in LoopId : k # l => loops'[k] = loops[k]
    /\ loops'[l].todo = loops[l].todo \ {c}
    /\ loops'[l].audience = loops[l].audience
    /\ Passes(l) \/ Takes(l, c)
    /\ registered' \subseteq registered
    /\ UNCHANGED <<nodeOf, unpublished, channel, unnamed, budget>>

(* A move keeps the loops in order and begins none.                        *)
LEMMA MovesKeepsLoops ==
    ASSUME LoopInv, NEW l \in LoopId, NEW c \in Connection, Moves(l, c)
    PROVE  LoopsOK' /\ StartedOnce' /\ NotYetSent' /\ NothingBefore'
<1> DEFINE w == loops'[l]
<1>1. loops \in [LoopId -> LoopRecord]
    BY DEF LoopInv, TypeOK, LoopRecord
<1>2. /\ loops' \in [LoopId -> LoopRecord] /\ w \in LoopRecord
      /\ \A k \in LoopId : k # l => loops'[k] = loops[k]
      /\ \A k \in LoopId : loops'[k].pc = "idle" <=> loops[k].pc = "idle"
    BY DEF Moves, Passes, Takes
<1>3. LoopOK(l, loops[l])
    BY DEF LoopInv, LoopsOK
<1>4. c # NoConnection
    BY BroadcastAssumption DEF NoConnection
<1>5. ASSUME NEW k \in LoopId
      PROVE  LoopOK(k, loops[k])'
  <2>1. CASE k = l
    BY <1>2, <1>3, <1>4, <2>1 DEF Moves, Passes, Takes, LoopOK
  <2>2. CASE k # l
    BY <1>2, <2>2 DEF Moves, LoopInv, LoopsOK, LoopOK
  <2> QED
    BY <2>1, <2>2
<1>6. StartedOnce' /\ NotYetSent' /\ NothingBefore'
    BY <1>2, LoopIds DEF Moves, LoopInv, StartedOnce, NotYetSent, NothingBefore
<1> QED
    BY <1>5, <1>6 DEF LoopsOK

(* Passing a connection moves the loop, which then has none in hand.       *)
LEMMA PassingMoves ==
    ASSUME LoopInv, NEW l \in LoopId, NEW c \in Connection,
           c \in loops[l].audience,
           loops[l].pc \in {"next", "filter", "send", "unowned"},
           c \in loops[l].todo \/ loops[l].cur = c,
           loops[l].cur \in {c, NoConnection},
           loops' = [loops EXCEPT ![l] = PastIt(l, c)],
           registered' \subseteq registered,
           UNCHANGED <<nodeOf, unpublished, channel, unnamed, budget>>
    PROVE  Moves(l, c) /\ Passes(l)
<1> DEFINE w == PastIt(l, c)
<1>1. /\ w \in LoopRecord
      /\ w.pc = "next" /\ w.cur = NoConnection
      /\ w.todo = loops[l].todo \ {c} /\ w.audience = loops[l].audience
    BY PastItIs DEF LoopInv
<1>2. loops \in [LoopId -> LoopRecord] /\ loops' = [loops EXCEPT ![l] = w]
    BY DEF LoopInv, TypeOK, LoopRecord
<1> HIDE DEF w
<1>3. /\ loops' \in [LoopId -> LoopRecord]
      /\ loops'[l] = w
      /\ \A k \in LoopId : k # l => loops'[k] = loops[k]
    BY <1>1, <1>2
<1> QED
    BY <1>1, <1>3 DEF Moves, Passes

(* Turning to a connection moves the loop, which then has it in hand.      *)
LEMMA TakingMoves ==
    ASSUME LoopInv, NEW l \in LoopId, NEW c \in Connection, NEW w,
           c \in loops[l].audience,
           loops[l].pc \in {"next", "filter"},
           c \in loops[l].todo \/ loops[l].cur = c,
           loops[l].cur \in {c, NoConnection},
           Turned(w, l, c),
           loops' = [loops EXCEPT ![l] = w],
           registered' = registered,
           UNCHANGED <<nodeOf, unpublished, channel, unnamed, budget>>
    PROVE  Moves(l, c) /\ Takes(l, c) /\ loops'[l] = w
<1>1. loops \in [LoopId -> LoopRecord]
    BY DEF LoopInv, TypeOK, LoopRecord
<1>2. /\ loops' \in [LoopId -> LoopRecord]
      /\ loops'[l] = w
      /\ \A k \in LoopId : k # l => loops'[k] = loops[k]
    BY <1>1 DEF Turned
<1> QED
    BY <1>2 DEF Turned, Moves, Takes

(* A loop that has turned to a connection has it in hand.                  *)
LEMMA InHandIs ==
    ASSUME LoopInv, NEW l \in LoopId, loops[l].pc \in {"filter", "send", "unowned"}
    PROVE  /\ loops[l].cur \in Connection /\ loops[l].cur \in loops[l].audience
           /\ loops[l].cur \notin loops[l].todo /\ nodeOf[loops[l].cur] = l[1]
<1>1. LoopOK(l, loops[l])
    BY DEF LoopInv, LoopsOK
<1> QED
    BY <1>1 DEF LoopOK, LoopRecord

(* Skipping a connection that has the id.                                  *)
LEMMA SkipIs ==
    ASSUME LoopInv, NEW l \in LoopId, NEW c \in Connection, SkipDuplicate(l, c)
    PROVE  Moves(l, c) /\ Passes(l) /\ TypeOK'
<1>1. LoopOK(l, loops[l])
    BY DEF LoopInv, LoopsOK
<1>2. Moves(l, c) /\ Passes(l)
    BY <1>1, PassingMoves DEF SkipDuplicate, Running, LoopOK
<1> QED
    BY <1>2 DEF SkipDuplicate, Moves, LoopInv, TypeOK, LoopRecord

(* Turning to a connection, which a remote loop remembers the id for.      *)
LEMMA ConsiderIs ==
    ASSUME LoopInv, NEW l \in LoopId, NEW c \in Connection, Consider(l, c)
    PROVE  Moves(l, c) /\ Takes(l, c) /\ TypeOK'
<1>1. LoopOK(l, loops[l])
    BY DEF LoopInv, LoopsOK
<1>2. PICK rejects \in BOOLEAN :
         loops' = [loops EXCEPT ![l] =
                    IF HasFilter THEN [PastIt(l, c) EXCEPT !.pc = "filter", !.cur = c]
                                 ELSE Offer(l, c, rejects)]
    BY DEF Consider
<1> DEFINE w == IF HasFilter THEN [PastIt(l, c) EXCEPT !.pc = "filter", !.cur = c]
                             ELSE Offer(l, c, rejects)
<1>3. Turned(w, l, c) /\ loops' = [loops EXCEPT ![l] = w]
    BY <1>2, TurnsTo DEF LoopInv
<1> HIDE DEF w
<1>4. Moves(l, c) /\ Takes(l, c)
    BY <1>1, <1>3, TakingMoves DEF Consider, Running, LoopOK
<1>5. l[2] \in Broadcast
    BY LoopIds
<1>6. TypeOK'
  <2>1. CASE IsRemote(l) /\ l[2] \notin unnamed
    <3>1. Remember(c, l[2])
      BY <2>1 DEF Consider
    <3> QED
      BY <1>4, <1>5, <3>1, RememberIs DEF Consider, Moves, LoopInv, TypeOK, LoopRecord
  <2>2. CASE ~(IsRemote(l) /\ l[2] \notin unnamed)
    BY <1>4, <2>2 DEF Consider, Moves, LoopInv, TypeOK, LoopRecord
  <2> QED
    BY <2>1, <2>2
<1> QED
    BY <1>4, <1>6

(* An answer of the filter that allows.                                    *)
LEMMA FilterAllowsIs ==
    ASSUME LoopInv, NEW l \in LoopId, NEW c \in Connection, loops[l].cur = c,
           FilterAllows(l)
    PROVE  Moves(l, c) /\ Takes(l, c) /\ loops'[l].pc # "filter" /\ TypeOK'
<1>1. LoopOK(l, loops[l])
    BY DEF LoopInv, LoopsOK
<1>2. PICK rejects \in BOOLEAN : loops' = [loops EXCEPT ![l] = Offer(l, c, rejects)]
    BY DEF FilterAllows
<1> DEFINE w == Offer(l, c, rejects)
<1>3. Turned(w, l, c) /\ loops' = [loops EXCEPT ![l] = w]
    BY <1>2, TurnsTo DEF LoopInv
<1>4. w.pc # "filter"
  <2>1. PastIt(l, c) \in LoopRecord
    BY PastItIs DEF LoopInv
  <2> QED
    BY <2>1 DEF Offer, LoopRecord
<1> HIDE DEF w
<1>5. Moves(l, c) /\ Takes(l, c) /\ loops'[l] = w
    BY <1>1, <1>3, TakingMoves, InHandIs DEF FilterAllows, LoopOK
<1> QED
    BY <1>4, <1>5 DEF FilterAllows, Moves, LoopInv, TypeOK, LoopRecord

(* One that denies.                                                        *)
LEMMA FilterDeniesIs ==
    ASSUME LoopInv, NEW l \in LoopId, NEW c \in Connection, loops[l].cur = c,
           FilterDenies(l)
    PROVE  Moves(l, c) /\ Passes(l) /\ TypeOK'
<1>1. Moves(l, c) /\ Passes(l)
    BY PassingMoves, InHandIs DEF FilterDenies
<1>2. l[2] \in Broadcast
    BY LoopIds
<1>3. filtered' \in [Broadcast -> Nat]
  <2>1. filtered' = filtered \/ filtered' = [filtered EXCEPT ![l[2]] = @ + 1]
    BY DEF FilterDenies
  <2> QED
    BY <1>2, <2>1 DEF LoopInv, TypeOK
<1>4. denied' \subseteq Connection \X Broadcast /\ screened' \subseteq Connection \X Broadcast
    BY <1>2 DEF FilterDenies, LoopInv, TypeOK
<1> QED
    BY <1>1, <1>3, <1>4 DEF FilterDenies, Moves, LoopInv, TypeOK, LoopRecord

(* One more copy of a message for a connection.                            *)
OneMore(f, g, c, b) ==
    \A d \in Connection, x \in Broadcast :
        g[d][x] = IF d = c /\ x = b THEN f[d][x] + 1 ELSE f[d][x]

(* It is what the history of sends is updated with.                        *)
LEMMA OneMoreIs ==
    ASSUME NEW f \in [Connection -> [Broadcast -> Nat]],
           NEW c \in Connection, NEW b \in Broadcast
    PROVE  LET g == [f EXCEPT ![c][b] = @ + 1]
           IN  g \in [Connection -> [Broadcast -> Nat]] /\ OneMore(f, g, c, b)
BY DEF OneMore

(* A send that succeeds counts one copy for that connection.               *)
LEMMA SendSucceedsIs ==
    ASSUME LoopInv, NEW l \in LoopId, NEW c \in Connection, loops[l].cur = c,
           SendSucceeds(l)
    PROVE  /\ Moves(l, c) /\ Passes(l) /\ TypeOK'
           /\ IsRemote(l) => /\ OneMore(relayed, relayed', c, l[2])
                             /\ UNCHANGED <<delivered, served>>
           /\ ~IsRemote(l) => /\ OneMore(served, served', c, l[2])
                              /\ delivered' = [delivered EXCEPT ![l[2]] = @ + 1]
                              /\ UNCHANGED relayed
<1>1. Moves(l, c) /\ Passes(l)
    BY PassingMoves, InHandIs DEF SendSucceeds
<1>2. l[2] \in Broadcast
    BY LoopIds
<1>3. /\ delivered' \in [Broadcast -> Nat]
      /\ ~IsRemote(l) => delivered' = [delivered EXCEPT ![l[2]] = @ + 1]
      /\ IsRemote(l) => UNCHANGED <<delivered, served>>
      /\ ~IsRemote(l) => UNCHANGED relayed
  <2>1. /\ ~IsRemote(l) => /\ delivered' = [delivered EXCEPT ![l[2]] = @ + 1]
                           /\ UNCHANGED relayed
        /\ IsRemote(l) => UNCHANGED <<delivered, served>>
    BY DEF SendSucceeds
  <2>2. delivered \in [Broadcast -> Nat]
    BY DEF LoopInv, TypeOK
  <2> QED
    BY <1>2, <2>1, <2>2
<1>4. /\ served \in [Connection -> [Broadcast -> Nat]]
      /\ relayed \in [Connection -> [Broadcast -> Nat]]
    BY DEF LoopInv, TypeOK
<1>5. CASE IsRemote(l)
  <2>1. relayed' = [relayed EXCEPT ![c][l[2]] = @ + 1] /\ served' = served
    BY <1>5 DEF SendSucceeds
  <2>2. /\ relayed' \in [Connection -> [Broadcast -> Nat]]
        /\ OneMore(relayed, relayed', c, l[2])
    BY <1>2, <1>4, <2>1, OneMoreIs
  <2>3. TypeOK'
    BY <1>1, <1>3, <1>4, <2>1, <2>2 DEF SendSucceeds, Moves, LoopInv, TypeOK, LoopRecord
  <2> QED
    BY <1>1, <1>3, <1>5, <2>2, <2>3
<1>6. CASE ~IsRemote(l)
  <2>1. served' = [served EXCEPT ![c][l[2]] = @ + 1] /\ relayed' = relayed
    BY <1>6 DEF SendSucceeds
  <2>2. /\ served' \in [Connection -> [Broadcast -> Nat]]
        /\ OneMore(served, served', c, l[2])
    BY <1>2, <1>4, <2>1, OneMoreIs
  <2>3. TypeOK'
    BY <1>1, <1>3, <1>4, <2>1, <2>2 DEF SendSucceeds, Moves, LoopInv, TypeOK, LoopRecord
  <2> QED
    BY <1>1, <1>3, <1>6, <2>2, <2>3
<1> QED
    BY <1>5, <1>6

(* A send to a connection that has gone.                                   *)
LEMMA SendFindsNobodyIs ==
    ASSUME LoopInv, NEW l \in LoopId, NEW c \in Connection, loops[l].cur = c,
           SendFindsNobody(l)
    PROVE  Moves(l, c) /\ Passes(l) /\ TypeOK' /\ c \notin registered
<1>1. Moves(l, c) /\ Passes(l)
    BY PassingMoves, InHandIs DEF SendFindsNobody
<1>2. c \notin registered
    BY DEF SendFindsNobody, LoopInv, LoopsOK, LoopOK
<1> QED
    BY <1>1, <1>2 DEF SendFindsNobody, Moves, LoopInv, TypeOK, LoopRecord

(* A send that fails drops the connection.                                 *)
LEMMA SendThrowsIs ==
    ASSUME LoopInv, NEW l \in LoopId, NEW c \in Connection, loops[l].cur = c,
           SendThrows(l)
    PROVE  Moves(l, c) /\ Passes(l) /\ TypeOK' /\ Drop(c)
<1>1. Drop(c) /\ registered' \subseteq registered
    BY DEF SendThrows, Drop
<1>2. Moves(l, c) /\ Passes(l)
    BY <1>1, PassingMoves, InHandIs DEF SendThrows
<1> QED
    BY <1>1, <1>2, DropKeepsTypes DEF SendThrows, Moves, LoopInv, TypeOK, LoopRecord

LoopStep(l, c) ==
    \/ SkipDuplicate(l, c)
    \/ Consider(l, c)
    \/ /\ loops[l].cur = c
       /\ \/ FilterAllows(l) \/ FilterDenies(l) \/ SendSucceeds(l)
          \/ SendFindsNobody(l) \/ SendThrows(l)

(* The steps that are no loop's.                                           *)
OtherStep ==
    \/ \E c \in Connection : \/ \E r \in Room : JoinRoom(c, r) \/ LeaveRoom(c, r)
                            \/ UnregisterConnection(c)
    \/ \E b \in Broadcast, rs \in SUBSET Room, local, hasId \in BOOLEAN :
            BroadcastMessage(b, rs, local, hasId)
    \/ \E b \in Broadcast, r \in Room : Publish(b, r)
    \/ \E b \in Broadcast : PublishRejects(b)
    \/ \E n \in Node, b \in Broadcast, r \in Room :
            DropEcho(n, b, r) \/ HandleRemoteBroadcast(n, b, r)

(* Every step is one or the other.                                         *)
LEMMA NextIs ==
    ASSUME LoopInv, Next
    PROVE  OtherStep \/ \E l \in LoopId, c \in Connection : LoopStep(l, c)
<1>1. ASSUME NEW l \in LoopId,
             \/ FilterAllows(l) \/ FilterDenies(l) \/ SendSucceeds(l)
             \/ SendFindsNobody(l) \/ SendThrows(l)
      PROVE  \E c \in Connection : LoopStep(l, c)
  <2>1. loops[l].cur \in Connection
    BY <1>1, InHandIs DEF FilterAllows, FilterDenies, SendSucceeds, SendFindsNobody, SendThrows
  <2> QED
    BY <1>1, <2>1 DEF LoopStep
<1>2. ASSUME NEW l \in LoopId, NEW c \in Connection, SkipDuplicate(l, c) \/ Consider(l, c)
      PROVE  LoopStep(l, c)
    BY <1>2 DEF LoopStep
<1>3. \/ OtherStep
      \/ \E l \in LoopId, c \in Connection : SkipDuplicate(l, c) \/ Consider(l, c)
      \/ \E l \in LoopId : \/ FilterAllows(l) \/ FilterDenies(l) \/ SendSucceeds(l)
                           \/ SendFindsNobody(l) \/ SendThrows(l)
    BY DEF Next, OtherStep
<1> QED
    BY <1>1, <1>2, <1>3

(* The loops' steps keep the invariant of the loops.                       *)
LEMMA LoopStepIs ==
    ASSUME LoopInv, NEW l \in LoopId, NEW c \in Connection, LoopStep(l, c)
    PROVE  Moves(l, c) /\ LoopInv'
<1>1. Moves(l, c) /\ TypeOK'
    BY SkipIs, ConsiderIs, FilterAllowsIs, FilterDeniesIs, SendSucceedsIs,
       SendFindsNobodyIs, SendThrowsIs DEF LoopStep
<1> QED
    BY <1>1, MovesKeepsLoops DEF LoopInv

(* So do the others.                                                       *)
LEMMA OtherStepKeepsLoopInv ==
    ASSUME LoopInv, OtherStep
    PROVE  LoopInv'
BY MembershipKeepsLoopInv, BroadcastMessageKeepsLoopInv, PublishKeepsLoopInv,
   PublishRejectsKeepsLoopInv, DropEchoKeepsLoopInv, HandleRemoteKeepsLoopInv DEF OtherStep

(* The loops begin idle.                                                   *)
LEMMA InitLoopInv == Init => LoopInv
<1> SUFFICES ASSUME Init
             PROVE  LoopInv
    OBVIOUS
<1>1. Idle \in LoopRecord /\ Idle.pc = "idle"
    BY DEF Idle, LoopRecord
<1>2. << >> \in Seq(Broadcast) /\ Len(<< >>) <= CacheSize
    BY BroadcastAssumption
<1>3. TypeOK
    BY <1>1, <1>2, BroadcastAssumption DEF Init, TypeOK, LoopRecord
<1>4. \A l \in LoopId : loops[l] = Idle
    BY DEF Init
<1>5. LoopsOK
    BY <1>1, <1>4 DEF LoopsOK, LoopOK, Idle
<1>6. StartedOnce /\ NotYetSent /\ NothingBefore
    BY <1>1, <1>4, LoopIds DEF Init, StartedOnce, NotYetSent, NothingBefore
<1> QED
    BY <1>3, <1>5, <1>6 DEF LoopInv

(* No step breaks it.                                                      *)
LEMMA NextLoopInv == LoopInv /\ [Next]_vars => LoopInv'
<1>1. LoopInv /\ Next => LoopInv'
    BY NextIs, LoopStepIs, OtherStepKeepsLoopInv
<1>2. LoopInv /\ UNCHANGED vars => LoopInv'
  <2> SUFFICES ASSUME LoopInv, UNCHANGED vars
               PROVE  LoopInv'
    OBVIOUS
  <2>1. TypeOK' /\ LoopsOK'
    BY DEF vars, LoopInv, TypeOK, LoopsOK, LoopOK
  <2> QED
    BY <2>1 DEF vars, LoopInv, StartedOnce, NotYetSent, NothingBefore
<1> QED
    BY <1>1, <1>2

(* The variables of the broadcaster keep their types, for any size of the  *)
(* cache and any number of nodes, rooms and connections: no cache grows    *)
(* past its bound, and a connection is in rooms only while it is there.    *)
THEOREM BroadcastTypeCorrect == Spec => []TypeOK
<1>1. Spec => []LoopInv
    BY InitLoopInv, NextLoopInv, PTL DEF Spec
<1>2. LoopInv => TypeOK
    BY DEF LoopInv
<1> QED
    BY <1>1, <1>2, PTL

-----------------------------------------------------------------------------
(* What each step changes of what a connection has seen, and leaves alone. *)
LEMMA OtherStepFrame ==
    ASSUME LoopInv, OtherStep
    PROVE  /\ UNCHANGED <<nodeOf, records, evicted>> /\ unnamed \subseteq unnamed'
           /\ registered' \subseteq registered
           /\ \A c \in Connection : \/ dedupCache'[c] = dedupCache[c]
                                    \/ dedupCache'[c] = << >> /\ c \notin registered'
           /\ \A l \in LoopId :
                 \/ loops'[l] = loops[l]
                 \/ /\ loops[l].pc = "idle" /\ loops'[l].pc = "next"
                    /\ loops'[l].audience = loops'[l].todo
                    /\ loops'[l].cur = NoConnection
                    /\ IsRemote(l) => AdapterId[Origin[l[2]]] # ManagerId[l[1]]
                 \/ /\ loops[l].pc = "next" /\ loops'[l].pc = "failed"
                    /\ loops[l].todo = {}
                    /\ loops'[l].audience = loops[l].audience
                    /\ loops'[l].todo = loops[l].todo
                    /\ loops'[l].cur = NoConnection
<1>1. ASSUME NEW c \in Connection, NEW r \in Room, JoinRoom(c, r) \/ LeaveRoom(c, r)
      PROVE  UNCHANGED <<nodeOf, records, evicted, unnamed, registered, dedupCache, loops>>
    BY <1>1 DEF JoinRoom, LeaveRoom
<1>2. ASSUME NEW c \in Connection, UnregisterConnection(c)
      PROVE  /\ UNCHANGED <<nodeOf, records, evicted, loops>> /\ unnamed \subseteq unnamed'
             /\ registered' \subseteq registered /\ c \notin registered'
             /\ \A d \in Connection : dedupCache'[d] = IF d = c THEN << >> ELSE dedupCache[d]
    BY <1>2 DEF UnregisterConnection, Drop, LoopInv, TypeOK
<1>3. ASSUME NEW b \in Broadcast, NEW rs \in SUBSET Room, NEW local \in BOOLEAN,
             NEW hasId \in BOOLEAN, BroadcastMessage(b, rs, local, hasId)
      PROVE  /\ UNCHANGED <<nodeOf, records, evicted, registered, dedupCache>>
             /\ unnamed \subseteq unnamed'
             /\ \A l \in LoopId : l # PublisherLoop(b) => loops'[l] = loops[l]
             /\ loops[PublisherLoop(b)].pc = "idle"
             /\ loops'[PublisherLoop(b)].pc = "next"
             /\ loops'[PublisherLoop(b)].cur = NoConnection
             /\ loops'[PublisherLoop(b)].audience = loops'[PublisherLoop(b)].todo
  <2> DEFINE l == PublisherLoop(b)
             conns == CollectRoomConnections(Origin[b], rs)
  <2>1. l \in LoopId /\ loops \in [LoopId -> LoopRecord]
    BY LoopIds DEF LoopInv, TypeOK, LoopRecord
  <2>2. loops[l].pc = "idle" /\ Begin(l, conns)
    BY <1>3 DEF BroadcastMessage
  <2> HIDE DEF l, conns
  <2>3. /\ \A k \in LoopId : k # l => loops'[k] = loops[k]
        /\ loops'[l] = [pc |-> "next", audience |-> conns, todo |-> conns,
                        cur |-> NoConnection]
    BY <2>1, <2>2 DEF Begin
  <2> QED
    BY <1>3, <2>2, <2>3 DEF BroadcastMessage, l
<1>4. ASSUME NEW b \in Broadcast, NEW r \in Room, Publish(b, r)
      PROVE  UNCHANGED <<nodeOf, records, evicted, unnamed, registered, dedupCache, loops>>
    BY <1>4 DEF Publish
<1>5. ASSUME NEW b \in Broadcast, PublishRejects(b)
      PROVE  /\ UNCHANGED <<nodeOf, records, evicted, registered, dedupCache>>
             /\ unnamed \subseteq unnamed'
             /\ \A l \in LoopId : l # PublisherLoop(b) => loops'[l] = loops[l]
             /\ loops[PublisherLoop(b)].pc = "next"
             /\ loops'[PublisherLoop(b)].pc = "failed"
             /\ loops[PublisherLoop(b)].todo = {}
             /\ loops'[PublisherLoop(b)].todo = loops[PublisherLoop(b)].todo
             /\ loops'[PublisherLoop(b)].audience = loops[PublisherLoop(b)].audience
             /\ loops'[PublisherLoop(b)].cur = NoConnection
  <2> DEFINE l == PublisherLoop(b)
  <2>1. l \in LoopId /\ loops \in [LoopId -> LoopRecord] /\ LoopOK(l, loops[l])
    BY LoopIds DEF LoopInv, TypeOK, LoopRecord, LoopsOK
  <2>2. /\ loops[l].pc = "next" /\ loops[l].todo = {}
        /\ loops' = [loops EXCEPT ![l].pc = "failed"]
    BY <1>5 DEF PublishRejects, LoopEnded
  <2> HIDE DEF l
  <2>3. /\ \A k \in LoopId : k # l => loops'[k] = loops[k]
        /\ loops'[l] = [loops[l] EXCEPT !.pc = "failed"]
    BY <2>1, <2>2
  <2>4. loops[l].cur = NoConnection
    BY <2>1, <2>2 DEF LoopOK
  <2> QED
    BY <1>5, <2>1, <2>2, <2>3, <2>4 DEF PublishRejects, l, LoopRecord
<1>6. ASSUME NEW n \in Node, NEW b \in Broadcast, NEW r \in Room, DropEcho(n, b, r)
      PROVE  UNCHANGED <<nodeOf, records, evicted, unnamed, registered, dedupCache, loops>>
    BY <1>6 DEF DropEcho
<1>7. ASSUME NEW n \in Node, NEW b \in Broadcast, NEW r \in Room,
             HandleRemoteBroadcast(n, b, r)
      PROVE  /\ UNCHANGED <<nodeOf, records, evicted, registered, dedupCache>>
             /\ unnamed \subseteq unnamed'
             /\ \A l \in LoopId : l # <<n, b, r>> => loops'[l] = loops[l]
             /\ loops[<<n, b, r>>].pc = "idle"
             /\ loops'[<<n, b, r>>].pc = "next"
             /\ loops'[<<n, b, r>>].cur = NoConnection
             /\ loops'[<<n, b, r>>].audience = loops'[<<n, b, r>>].todo
             /\ AdapterId[Origin[b]] # ManagerId[n]
  <2> DEFINE l == <<n, b, r>>
             conns == CollectRoomConnections(n, {r})
  <2>1. l \in LoopId /\ loops \in [LoopId -> LoopRecord]
    BY LoopIds DEF LoopInv, TypeOK, LoopRecord
  <2>2. loops[l].pc = "idle" /\ Begin(l, conns)
    BY <1>7 DEF HandleRemoteBroadcast, LoopInv, StartedOnce
  <2> HIDE DEF l, conns
  <2>3. /\ \A k \in LoopId : k # l => loops'[k] = loops[k]
        /\ loops'[l] = [pc |-> "next", audience |-> conns, todo |-> conns,
                        cur |-> NoConnection]
    BY <2>1, <2>2 DEF Begin
  <2> QED
    BY <1>7, <2>2, <2>3 DEF HandleRemoteBroadcast, l
<1>8. CASE \E b \in Broadcast, rs \in SUBSET Room, local, hasId \in BOOLEAN :
              BroadcastMessage(b, rs, local, hasId)
  <2>1. PICK b \in Broadcast, rs \in SUBSET Room, local, hasId \in BOOLEAN :
           BroadcastMessage(b, rs, local, hasId)
    BY <1>8
  <2>2. ~IsRemote(PublisherLoop(b))
    BY LoopIds
  <2>3. /\ UNCHANGED <<nodeOf, records, evicted, registered, dedupCache>>
        /\ unnamed \subseteq unnamed'
        /\ \A l \in LoopId : l # PublisherLoop(b) => loops'[l] = loops[l]
        /\ loops[PublisherLoop(b)].pc = "idle"
        /\ loops'[PublisherLoop(b)].pc = "next"
        /\ loops'[PublisherLoop(b)].cur = NoConnection
        /\ loops'[PublisherLoop(b)].audience = loops'[PublisherLoop(b)].todo
    BY <1>3, <2>1
  <2> QED
    BY <2>2, <2>3
<1>9. CASE \E b \in Broadcast : PublishRejects(b)
    BY <1>5, <1>9
<1>10. CASE \E n \in Node, b \in Broadcast, r \in Room : HandleRemoteBroadcast(n, b, r)
  <2>1. PICK n \in Node, b \in Broadcast, r \in Room : HandleRemoteBroadcast(n, b, r)
    BY <1>10
  <2> DEFINE k == <<n, b, r>>
  <2>2. /\ UNCHANGED <<nodeOf, records, evicted, registered, dedupCache>>
        /\ unnamed \subseteq unnamed'
        /\ \A l \in LoopId : l # k => loops'[l] = loops[l]
        /\ loops[k].pc = "idle" /\ loops'[k].pc = "next"
        /\ loops'[k].cur = NoConnection /\ loops'[k].audience = loops'[k].todo
        /\ AdapterId[Origin[k[2]]] # ManagerId[k[1]]
    BY <1>7, <2>1
  <2> HIDE DEF k
  <2> QED
    BY <2>2
<1> QED
    BY <1>1, <1>2, <1>4, <1>6, <1>8, <1>9, <1>10 DEF OtherStep

(* Nothing that a connection was sent, and no denial, is taken back, and   *)
(* who has gone stays away.                                                *)
LEMMA LoopStepFrame ==
    ASSUME LoopInv, NEW l \in LoopId, NEW c \in Connection, LoopStep(l, c)
    PROVE  /\ \A d \in Connection, b \in Broadcast : Reached(d, b) => Reached(d, b)'
           /\ loops[l].cur = c => \/ loops'[l].cur = c
                                  \/ Reached(c, l[2])'
                                  \/ c \notin registered'
           /\ c \in loops[l].todo /\ ~SkipDuplicate(l, c) => loops'[l].cur = c
<1>1. l[2] \in Broadcast
    BY LoopIds
<1>2. LoopOK(l, loops[l]) /\ c # NoConnection
    BY BroadcastAssumption DEF LoopInv, LoopsOK, NoConnection
<1>3. \A d \in Connection, b \in Broadcast : served[d][b] \in Nat /\ relayed[d][b] \in Nat
    BY DEF LoopInv, TypeOK
<1>4. CASE SkipDuplicate(l, c)
    BY <1>2, <1>4 DEF SkipDuplicate, Running, LoopOK, Reached
<1>5. CASE Consider(l, c)
    BY <1>2, <1>5, ConsiderIs DEF Consider, Running, LoopOK, Takes, Reached
<1>6. ASSUME loops[l].cur = c
      PROVE  c \notin loops[l].todo
    BY <1>2, <1>6 DEF LoopOK
<1>7. CASE loops[l].cur = c /\ FilterAllows(l)
    BY <1>6, <1>7, FilterAllowsIs DEF FilterAllows, Takes, Reached
<1>8. CASE loops[l].cur = c /\ FilterDenies(l)
    BY <1>6, <1>8 DEF FilterDenies, Reached
<1>9. CASE loops[l].cur = c /\ SendSucceeds(l)
  <2>1. UNCHANGED <<denied, screened>>
    BY <1>9 DEF SendSucceeds
  <2>2. CASE IsRemote(l)
    <3>1. OneMore(relayed, relayed', c, l[2]) /\ served' = served
      BY <1>9, <2>2, SendSucceedsIs
    <3> QED
      BY <1>1, <1>3, <1>6, <1>9, <2>1, <3>1 DEF Reached, OneMore
  <2>3. CASE ~IsRemote(l)
    <3>1. OneMore(served, served', c, l[2]) /\ relayed' = relayed
      BY <1>9, <2>3, SendSucceedsIs
    <3> QED
      BY <1>1, <1>3, <1>6, <1>9, <2>1, <3>1 DEF Reached, OneMore
  <2> QED
    BY <2>2, <2>3
<1>10. CASE loops[l].cur = c /\ SendFindsNobody(l)
    BY <1>6, <1>10, SendFindsNobodyIs DEF SendFindsNobody, Reached
<1>11. CASE loops[l].cur = c /\ SendThrows(l)
    BY <1>6, <1>11 DEF SendThrows, Drop, Reached
<1> QED
    BY <1>4, <1>5, <1>7, <1>8, <1>9, <1>10, <1>11 DEF LoopStep

(* An id enters the cache of a connection only as a loop turns to it.      *)
LEMMA CacheStep ==
    ASSUME LoopInv, NEW l \in LoopId, NEW c \in Connection, LoopStep(l, c),
           NEW d \in Connection, NEW b \in Broadcast, Contains(dedupCache'[d], b)
    PROVE  Contains(dedupCache[d], b) \/ (d = c /\ b = l[2] /\ loops'[l].cur = c)
<1>1. l[2] \in Broadcast
    BY LoopIds
<1>2. CASE Consider(l, c)
  <2>1. loops'[l].cur = c
    BY <1>2, ConsiderIs DEF Takes
  <2>2. CASE IsRemote(l) /\ l[2] \notin unnamed
    BY <1>1, <1>2, <2>1, <2>2, RememberIs DEF Consider, LoopInv
  <2>3. CASE ~(IsRemote(l) /\ l[2] \notin unnamed)
    BY <1>2, <2>3 DEF Consider
  <2> QED
    BY <2>2, <2>3
<1>3. CASE loops[l].cur = c /\ SendThrows(l)
  <2>1. ~Contains(<< >>, b)
    BY DEF Contains
  <2> QED
    BY <1>3, <2>1 DEF SendThrows, Drop, LoopInv, TypeOK
<1>4. CASE \/ SkipDuplicate(l, c) \/ FilterAllows(l) \/ FilterDenies(l)
          \/ SendSucceeds(l) \/ SendFindsNobody(l)
  <2>1. dedupCache' = dedupCache
    BY <1>4 DEF SkipDuplicate, FilterAllows, FilterDenies, SendSucceeds, SendFindsNobody
  <2> QED
    BY <2>1
<1> QED
    BY <1>2, <1>3, <1>4 DEF LoopStep

-----------------------------------------------------------------------------
(* Once a connection is settled for a message it stays so.                 *)
LEMMA SettledStays ==
    ASSUME LoopInv, NEW c \in Connection, NEW b \in Broadcast, Settled(c, b),
           OtherStep \/ \E l \in LoopId, d \in Connection : LoopStep(l, d)
    PROVE  Settled(c, b)'
<1>0. \A l \in LoopId : LoopOK(l, loops[l])
    BY DEF LoopInv, LoopsOK
<1>1. c # NoConnection
    BY BroadcastAssumption DEF NoConnection
<1>2. CASE OtherStep
  <2>1. ASSUME NEW l \in LoopId, l[2] = b, loops[l].cur = c \/ loops[l].pc = "failed"
        PROVE  loops'[l] = loops[l]
    BY <1>0, <1>1, <1>2, <2>1, OtherStepFrame DEF LoopOK
  <2> QED
    BY <1>2, <2>1, OtherStepFrame DEF Settled, InHand, Reached
<1>3. ASSUME NEW l \in LoopId, NEW d \in Connection, LoopStep(l, d)
      PROVE  Settled(c, b)'
  <2>1. /\ Moves(l, d)
        /\ registered' \subseteq registered
        /\ nodeOf' = nodeOf
    BY <1>3, LoopStepIs DEF Moves
  <2>2. CASE ~InHand(nodeOf[c], b, c)
    BY <1>3, <2>1, <2>2, LoopStepFrame DEF Settled
  <2>3. ASSUME NEW k \in LoopId, k[1] = nodeOf[c], k[2] = b,
               loops[k].cur = c \/ loops[k].pc = "failed"
        PROVE  Settled(c, b)'
    <3>1. CASE k # l
      BY <2>1, <2>3, <3>1 DEF Moves, Settled, InHand
    <3>2. CASE k = l
      <4>1. loops[l].pc # "failed" /\ loops[l].cur = c /\ d = c
        BY <1>1, <2>1, <2>3, <3>2 DEF Moves
      <4> QED
        BY <1>3, <2>1, <2>3, <3>2, <4>1, LoopStepFrame DEF Settled, InHand
    <3> QED
      BY <3>1, <3>2
  <2> QED
    BY <2>2, <2>3 DEF InHand
<1> QED
    BY <1>2, <1>3

(* No step loses a connection.                                             *)
LEMMA NextNobodyLost ==
    ASSUME BroadcastInv, OtherStep \/ \E l \in LoopId, c \in Connection : LoopStep(l, c)
    PROVE  NobodyLost'
<1>0. LoopInv /\ NobodyLost
    BY DEF BroadcastInv
<1>1. ASSUME NEW c \in Connection, NEW b \in Broadcast, Contains(dedupCache[c], b)
      PROVE  Settled(c, b)'
    BY <1>0, <1>1, SettledStays DEF NobodyLost
<1>2. ASSUME NEW l \in LoopId, NEW c \in Connection, c \in loops[l].audience \ loops[l].todo
      PROVE  Settled(c, l[2])'
    BY <1>0, <1>2, SettledStays, LoopIds DEF NobodyLost
<1>3. \A l \in LoopId : loops[l] \in LoopRecord /\ \A c \in loops[l].audience : nodeOf[c] = l[1]
    BY <1>0 DEF LoopInv, LoopsOK, LoopOK
<1>4. CASE OtherStep
  <2>1. ASSUME NEW l \in LoopId, NEW c \in loops'[l].audience \ loops'[l].todo
        PROVE  c \in loops[l].audience \ loops[l].todo /\ c \in Connection
    BY <1>0, <1>3, <1>4, <2>1, OtherStepFrame DEF LoopRecord
  <2>2. ASSUME NEW c \in Connection, NEW b \in Broadcast, Contains(dedupCache'[c], b)
        PROVE  Contains(dedupCache[c], b)
    <3>1. ~Contains(<< >>, b)
      BY DEF Contains
    <3> QED
      BY <1>0, <1>4, <2>2, <3>1, OtherStepFrame
  <2> QED
    BY <1>1, <1>2, <2>1, <2>2 DEF NobodyLost
<1>5. ASSUME NEW l \in LoopId, NEW c \in Connection, LoopStep(l, c)
      PROVE  NobodyLost'
  <2>1. Moves(l, c) /\ l[2] \in Broadcast
    BY <1>0, <1>5, LoopStepIs, LoopIds
  <2>2. loops'[l].cur = c => Settled(c, l[2])'
    BY <1>3, <2>1 DEF Moves, Settled, InHand
  <2>3. ASSUME NEW k \in LoopId, NEW d \in loops'[k].audience \ loops'[k].todo
        PROVE  Settled(d, k[2])'
    <3>1. CASE k # l
      <4>1. d \in loops[k].audience \ loops[k].todo /\ d \in Connection
        BY <1>3, <2>1, <2>3, <3>1 DEF Moves, LoopRecord
      <4> QED
        BY <1>2, <4>1
    <3>2. CASE k = l /\ d # c
      <4>1. d \in loops[k].audience \ loops[k].todo /\ d \in Connection
        BY <1>3, <2>1, <2>3, <3>2 DEF Moves, LoopRecord
      <4> QED
        BY <1>2, <4>1
    <3>3. CASE k = l /\ d = c /\ c \notin loops[l].todo
      BY <1>2, <2>1, <3>3 DEF Moves
    <3>4. CASE k = l /\ d = c /\ c \in loops[l].todo /\ SkipDuplicate(l, c)
      BY <1>1, <2>1, <3>4 DEF SkipDuplicate, IsDuplicateMessage
    <3>5. CASE k = l /\ d = c /\ c \in loops[l].todo /\ ~SkipDuplicate(l, c)
      BY <1>0, <1>5, <2>2, <3>5, LoopStepFrame
    <3> QED
      BY <3>1, <3>2, <3>3, <3>4, <3>5
  <2>4. ASSUME NEW d \in Connection, NEW b \in Broadcast, Contains(dedupCache'[d], b)
        PROVE  Settled(d, b)'
    <3>1. CASE Contains(dedupCache[d], b)
      BY <1>1, <3>1
    <3>2. CASE d = c /\ b = l[2] /\ loops'[l].cur = c
      BY <2>2, <3>2
    <3> QED
      BY <1>0, <1>5, <2>4, <3>1, <3>2, CacheStep
  <2> QED
    BY <2>3, <2>4 DEF NobodyLost
<1> QED
    BY <1>4, <1>5

(* A loop that ended has forgotten nobody, whatever joins, leaves and goes *)
(* while it awaits, however many rooms bring the message, and however      *)
(* small the cache is (broadcastMessage, handleRemoteBroadcast).            *)
THEOREM NobodyEverForgotten == Spec => []NobodyForgotten
<1>1. Init => BroadcastInv
  <2> SUFFICES ASSUME Init
               PROVE  BroadcastInv
    OBVIOUS
  <2>1. LoopInv
    BY InitLoopInv
  <2>2. \A l \in LoopId : loops[l].audience = {}
    BY DEF Init, Idle
  <2>3. \A c \in Connection, b \in Broadcast : ~Contains(dedupCache[c], b)
    BY DEF Init, Contains
  <2> QED
    BY <2>1, <2>2, <2>3 DEF BroadcastInv, NobodyLost
<1>2. BroadcastInv /\ [Next]_vars => BroadcastInv'
  <2>1. BroadcastInv /\ Next => BroadcastInv'
    <3> SUFFICES ASSUME BroadcastInv, Next
                 PROVE  BroadcastInv'
      OBVIOUS
    <3>1. LoopInv /\ LoopInv'
      BY NextLoopInv DEF BroadcastInv
    <3>2. NobodyLost'
      BY <3>1, NextIs, NextNobodyLost
    <3> QED
      BY <3>1, <3>2 DEF BroadcastInv
  <2>2. BroadcastInv /\ UNCHANGED vars => BroadcastInv'
    <3> SUFFICES ASSUME BroadcastInv, UNCHANGED vars
                 PROVE  BroadcastInv'
      OBVIOUS
    <3>1. LoopInv'
      BY NextLoopInv DEF BroadcastInv
    <3>2. NobodyLost'
      BY DEF vars, BroadcastInv, NobodyLost, Settled, InHand, Reached
    <3> QED
      BY <3>1, <3>2 DEF BroadcastInv
  <2> QED
    BY <2>1, <2>2
<1>3. BroadcastInv => NobodyForgotten
  <2> SUFFICES ASSUME BroadcastInv, NEW l \in LoopId, LoopEnded(l),
                      NEW c \in loops[l].audience
               PROVE  \/ Reached(c, l[2])
                      \/ c \notin registered
                      \/ InHand(l[1], l[2], c)
    BY DEF NobodyForgotten
  <2>1. Settled(c, l[2])
    BY DEF BroadcastInv, NobodyLost, LoopEnded
  <2>2. nodeOf[c] = l[1]
    BY DEF BroadcastInv, LoopInv, LoopsOK, LoopOK
  <2> QED
    BY <2>1, <2>2 DEF Settled
<1> QED
    BY <1>1, <1>2, <1>3, PTL DEF Spec

-----------------------------------------------------------------------------
(* A loop serves connections of its own node, the publisher's at home.     *)
LEMMA AtHome ==
    ASSUME LoopInv, NEW l \in LoopId, NEW c \in Connection, LoopStep(l, c)
    PROVE  /\ l[2] \in Broadcast /\ nodeOf[c] = l[1] /\ loops[l].pc # "idle"
           /\ ~IsRemote(l) => l = PublisherLoop(l[2]) /\ nodeOf[c] = Origin[l[2]]
<1>1. Moves(l, c) /\ l[2] \in Broadcast
    BY LoopStepIs, LoopIds
<1>2. nodeOf[c] = l[1] /\ loops[l].pc # "idle"
    BY <1>1 DEF Moves, LoopInv, LoopsOK, LoopOK
<1>3. ~IsRemote(l) => l = PublisherLoop(l[2]) /\ nodeOf[c] = Origin[l[2]]
    BY <1>1, <1>2, LoopIds
<1> QED
    BY <1>1, <1>2, <1>3

(* A node drops what carries its own id before it begins a loop.           *)
LEMMA NextHeardAsForeign ==
    ASSUME LoopInv, HeardAsForeign,
           OtherStep \/ \E l \in LoopId, c \in Connection : LoopStep(l, c)
    PROVE  HeardAsForeign'
<1>1. CASE OtherStep
  <2>1. \A l \in LoopId :
           \/ loops'[l] = loops[l] \/ loops[l].pc = "next"
           \/ IsRemote(l) => AdapterId[Origin[l[2]]] # ManagerId[l[1]]
    BY <1>1, OtherStepFrame
  <2> QED
    BY <2>1 DEF HeardAsForeign
<1>2. ASSUME NEW l \in LoopId, NEW c \in Connection, LoopStep(l, c)
      PROVE  HeardAsForeign'
  <2>1. Moves(l, c)
    BY <1>2, LoopStepIs
  <2>2. \A k \in LoopId : loops'[k].pc # "idle" => loops[k].pc # "idle"
    BY <2>1 DEF Moves
  <2> QED
    BY <2>2 DEF HeardAsForeign
<1> QED
    BY <1>1, <1>2

(* Every loop step but a send and a denial leaves the histories alone.     *)
LEMMA SilentStep ==
    ASSUME NEW l \in LoopId, NEW c \in Connection, LoopStep(l, c),
           ~(loops[l].cur = c /\ SendSucceeds(l)), ~(loops[l].cur = c /\ FilterDenies(l))
    PROVE  UNCHANGED <<nodeOf, records>>
BY DEF LoopStep, SkipDuplicate, Consider, FilterAllows, SendFindsNobody, SendThrows

(* What is still to serve was to serve before.                             *)
LEMMA ToServeShrinks ==
    ASSUME LoopInv, NEW l \in LoopId, NEW c \in Connection, LoopStep(l, c),
           NEW b \in Broadcast, NEW d \in Connection
    PROVE  /\ loops'[PublisherLoop(b)].pc = "idle" => loops[PublisherLoop(b)].pc = "idle"
           /\ d \in ToServe(b)' => d \in ToServe(b)
           /\ l = PublisherLoop(b) /\ Passes(l) => c \notin ToServe(b)'
<1>1. Moves(l, c) /\ PublisherLoop(b) \in LoopId
    BY LoopStepIs, LoopIds
<1>2. CASE l # PublisherLoop(b)
    BY <1>1, <1>2 DEF Moves, ToServe
<1>3. CASE l = PublisherLoop(b) /\ Passes(l)
    BY <1>1, <1>3 DEF Moves, Passes, ToServe
<1>4. CASE l = PublisherLoop(b) /\ Takes(l, c)
  <2>1. c \in ToServe(b)
    <3>1. CASE c \in loops[l].todo
      BY <1>4, <3>1 DEF ToServe
    <3>2. CASE c \notin loops[l].todo
      <4>1. FilterAllows(l) /\ loops[l].cur = c
        <5>1. c # NoConnection
          BY BroadcastAssumption DEF NoConnection
        <5> QED
          BY <1>4, <3>2, <5>1, FilterDeniesIs, SendSucceedsIs, SendFindsNobodyIs, SendThrowsIs
             DEF LoopStep, SkipDuplicate, Consider, Passes, Takes
      <4> QED
        BY <1>4, <4>1 DEF FilterAllows, ToServe
    <3> QED
      BY <3>1, <3>2
  <2> QED
    BY <1>1, <1>4, <2>1 DEF Moves, Passes, Takes, ToServe
<1> QED
    BY <1>1, <1>2, <1>3, <1>4 DEF Moves

(* What a connection is relayed it is relayed as another node's.           *)
LEMMA NextRelayedAsForeign ==
    ASSUME LoopInv, HeardAsForeign, RelayedAsForeign,
           OtherStep \/ \E l \in LoopId, c \in Connection : LoopStep(l, c)
    PROVE  RelayedAsForeign'
<1>1. CASE UNCHANGED <<nodeOf, relayed>>
    BY <1>1 DEF RelayedAsForeign
<1>2. ASSUME NEW l \in LoopId, NEW c \in Connection, LoopStep(l, c),
             loops[l].cur = c, SendSucceeds(l), IsRemote(l)
      PROVE  RelayedAsForeign'
  <2>1. OneMore(relayed, relayed', c, l[2])
    BY <1>2, SendSucceedsIs
  <2>2. nodeOf' = nodeOf /\ AdapterId[Origin[l[2]]] # ManagerId[nodeOf[c]]
    BY <1>2, AtHome, LoopStepIs DEF HeardAsForeign, Moves
  <2> QED
    BY <2>1, <2>2 DEF RelayedAsForeign, OneMore
<1>3. ASSUME NEW l \in LoopId, NEW c \in Connection, LoopStep(l, c),
             ~(loops[l].cur = c /\ SendSucceeds(l) /\ IsRemote(l))
      PROVE  UNCHANGED <<nodeOf, relayed>>
  <2>1. CASE loops[l].cur = c /\ SendSucceeds(l)
    BY <1>3, <2>1, SendSucceedsIs DEF Moves
  <2>2. CASE loops[l].cur = c /\ FilterDenies(l)
    BY <2>2 DEF FilterDenies
  <2> QED
    BY <1>3, <2>1, <2>2, SilentStep
<1> QED
    BY <1>1, <1>2, <1>3, OtherStepFrame

(* The publisher goes on serving each of its connections once.             *)
LEMMA NextServedOnce ==
    ASSUME LoopInv, ServedOnce,
           OtherStep \/ \E l \in LoopId, c \in Connection : LoopStep(l, c)
    PROVE  ServedOnce'
<1>0. \A c \in Connection, b \in Broadcast : served[c][b] \in Nat
    BY DEF LoopInv, TypeOK
<1>1. CASE OtherStep
  <2>1. UNCHANGED <<nodeOf, served, denied>>
    BY <1>1, OtherStepFrame
  <2>2. ASSUME NEW b \in Broadcast, NEW c \in Connection,
               c \in ToServe(b)' \/ loops'[PublisherLoop(b)].pc = "idle"
        PROVE  c \in ToServe(b) \/ loops[PublisherLoop(b)].pc = "idle"
    <3>1. PublisherLoop(b) \in LoopId /\ c # NoConnection
      BY LoopIds, BroadcastAssumption DEF NoConnection
    <3> QED
      BY <1>1, <2>2, <3>1, OtherStepFrame DEF ToServe
  <2> QED
    BY <2>1, <2>2 DEF ServedOnce
<1>2. ASSUME NEW l \in LoopId, NEW c \in Connection, LoopStep(l, c)
      PROVE  ServedOnce'
  <2> SUFFICES ASSUME NEW b \in Broadcast, NEW d \in Connection
               PROVE  /\ served'[d][b] <= 1
                      /\ served'[d][b] > 0 => nodeOf[d] = Origin[b]
                      /\ d \in ToServe(b)' \/ loops'[PublisherLoop(b)].pc = "idle" =>
                            served'[d][b] = 0 /\ <<d, b>> \notin denied'
    <3>1. nodeOf' = nodeOf
      BY <1>2, LoopStepIs DEF Moves
    <3> QED
      BY <3>1 DEF ServedOnce
  <2>1. /\ served[d][b] <= 1
        /\ served[d][b] > 0 => nodeOf[d] = Origin[b]
        /\ d \in ToServe(b) \/ loops[PublisherLoop(b)].pc = "idle" =>
              served[d][b] = 0 /\ <<d, b>> \notin denied
    BY DEF ServedOnce
  <2>2. /\ loops'[PublisherLoop(b)].pc = "idle" => loops[PublisherLoop(b)].pc = "idle"
        /\ d \in ToServe(b)' => d \in ToServe(b)
        /\ l = PublisherLoop(b) /\ Passes(l) => c \notin ToServe(b)'
    BY <1>2, ToServeShrinks
  <2>3. CASE UNCHANGED <<served, denied>>
    BY <2>1, <2>2, <2>3
  <2>4. ASSUME loops[l].cur = c, SendSucceeds(l), ~IsRemote(l), d = c, b = l[2]
        PROVE  /\ served'[d][b] = 1 /\ nodeOf[d] = Origin[b] /\ d \notin ToServe(b)'
               /\ loops'[PublisherLoop(b)].pc # "idle"
    <3>1. l = PublisherLoop(b) /\ nodeOf[d] = Origin[b]
      BY <1>2, <2>4, AtHome
    <3>2. Passes(l) /\ OneMore(served, served', c, l[2])
      BY <2>4, SendSucceedsIs
    <3>3. c \in ToServe(b)
      BY <2>4, <3>1 DEF SendSucceeds, ToServe
    <3>4. served[d][b] = 0
      BY <2>1, <2>4, <3>3
    <3>5. served'[d][b] = 1
      BY <2>4, <3>2, <3>4 DEF OneMore
    <3>6. loops'[PublisherLoop(b)].pc # "idle"
      BY <3>1, <3>2 DEF Passes
    <3>7. d \notin ToServe(b)'
      BY <2>2, <2>4, <3>1, <3>2
    <3> QED
      BY <3>1, <3>5, <3>6, <3>7
  <2>5. ASSUME loops[l].cur = c, FilterDenies(l), ~IsRemote(l), d = c, b = l[2]
        PROVE  /\ served' = served /\ d \notin ToServe(b)'
               /\ loops'[PublisherLoop(b)].pc # "idle"
    <3>1. l = PublisherLoop(b)
      BY <1>2, <2>5, AtHome
    <3>2. Passes(l) /\ served' = served
      BY <2>5, FilterDeniesIs DEF FilterDenies
    <3> QED
      BY <2>2, <2>5, <3>1, <3>2 DEF Passes
  <2>6. CASE loops[l].cur = c /\ SendSucceeds(l)
    <3>1. denied' = denied
      BY <2>6 DEF SendSucceeds
    <3>2. CASE IsRemote(l)
      BY <2>3, <2>6, <3>1, <3>2, SendSucceedsIs
    <3>3. CASE ~IsRemote(l) /\ (d # c \/ b # l[2])
      <4>1. served'[d][b] = served[d][b]
        BY <2>6, <3>3, SendSucceedsIs DEF OneMore
      <4> QED
        BY <2>1, <2>2, <3>1, <4>1
    <3> QED
      BY <2>4, <2>6, <3>2, <3>3
  <2>7. CASE loops[l].cur = c /\ FilterDenies(l)
    <3>1. served' = served
      BY <2>7 DEF FilterDenies
    <3>2. CASE IsRemote(l)
      BY <2>3, <2>7, <3>1, <3>2 DEF FilterDenies
    <3>3. CASE ~IsRemote(l) /\ (d # c \/ b # l[2])
      <4>1. <<d, b>> \in denied' <=> <<d, b>> \in denied
        BY <2>7, <3>3 DEF FilterDenies
      <4> QED
        BY <2>1, <2>2, <3>1, <4>1
    <3> QED
      BY <2>1, <2>5, <2>7, <3>2, <3>3
  <2> QED
    BY <1>2, <2>3, <2>6, <2>7, SilentStep
<1> QED
    BY <1>1, <1>2

(* The counts follow.                                                      *)
LEMMA NextCountsOK ==
    ASSUME LoopInv, ServedOnce, CountsOK,
           OtherStep \/ \E l \in LoopId, c \in Connection : LoopStep(l, c)
    PROVE  CountsOK'
<1>1. CASE UNCHANGED <<served, delivered, filtered, denied>>
  <2>1. \A b \in Broadcast : /\ DeliveredTo(b)' = DeliveredTo(b)
                              /\ FilteredFor(b)' = FilteredFor(b)
    BY <1>1 DEF DeliveredTo, FilteredFor
  <2> QED
    BY <1>1, <2>1 DEF CountsOK
<1>2. ASSUME NEW l \in LoopId, NEW c \in Connection, LoopStep(l, c),
             loops[l].cur = c, SendSucceeds(l), ~IsRemote(l)
      PROVE  CountsOK'
  <2>1. /\ OneMore(served, served', c, l[2])
        /\ UNCHANGED <<filtered, denied>> /\ l[2] \in Broadcast
        /\ \A d \in Connection, b \in Broadcast : served[d][b] \in Nat
        /\ delivered \in [Broadcast -> Nat]
        /\ delivered' = [delivered EXCEPT ![l[2]] = @ + 1]
    <3>1. /\ OneMore(served, served', c, l[2])
          /\ delivered' = [delivered EXCEPT ![l[2]] = @ + 1]
      BY <1>2, SendSucceedsIs
    <3>2. UNCHANGED <<filtered, denied>> /\ l[2] \in Broadcast
      BY <1>2, LoopIds DEF SendSucceeds
    <3> QED
      BY <3>1, <3>2 DEF LoopInv, TypeOK
  <2>2. \A b \in Broadcast : FilteredFor(b)' = FilteredFor(b)
    BY <2>1 DEF FilteredFor
  <2>3. served[c][l[2]] = 0
    <3>1. l = PublisherLoop(l[2])
      BY <1>2, AtHome
    <3>2. c \in ToServe(l[2])
      BY <1>2, <3>1 DEF SendSucceeds, ToServe
    <3> QED
      BY <2>1, <3>2 DEF ServedOnce
  <2>4. \A b \in Broadcast : DeliveredTo(b)' = IF b = l[2] THEN DeliveredTo(b) \cup {c}
                                               ELSE DeliveredTo(b)
    BY <2>1 DEF DeliveredTo, OneMore
  <2>5. c \notin DeliveredTo(l[2])
    BY <2>3 DEF DeliveredTo
  <2>6. \A b \in Broadcast : delivered'[b] = IF b = l[2] THEN delivered[b] + 1
                                             ELSE delivered[b]
    BY <2>1
  <2>7. /\ IsFiniteSet(DeliveredTo(l[2]) \cup {c})
        /\ Cardinality(DeliveredTo(l[2]) \cup {c}) = Cardinality(DeliveredTo(l[2])) + 1
    BY <2>1, <2>5, FS_AddElement DEF CountsOK
  <2>8. ASSUME NEW b \in Broadcast
        PROVE  /\ IsFiniteSet(DeliveredTo(b)')
               /\ delivered'[b] = Cardinality(DeliveredTo(b)')
    <3>1. CASE b = l[2]
      BY <2>4, <2>6, <2>7, <3>1 DEF CountsOK
    <3>2. CASE b # l[2]
      BY <2>4, <2>6, <3>2 DEF CountsOK
    <3> QED
      BY <3>1, <3>2
  <2> QED
    BY <2>1, <2>2, <2>8 DEF CountsOK
<1>3. ASSUME NEW l \in LoopId, NEW c \in Connection, LoopStep(l, c),
             loops[l].cur = c, FilterDenies(l), ~IsRemote(l)
      PROVE  CountsOK'
  <2>1. /\ denied' = denied \cup {<<c, l[2]>>}
        /\ UNCHANGED <<served, delivered>> /\ l[2] \in Broadcast
        /\ filtered \in [Broadcast -> Nat]
        /\ filtered' = [filtered EXCEPT ![l[2]] = @ + 1]
    BY <1>3, LoopIds DEF FilterDenies, LoopInv, TypeOK
  <2>2. \A b \in Broadcast : DeliveredTo(b)' = DeliveredTo(b)
    BY <2>1 DEF DeliveredTo
  <2>3. c \notin FilteredFor(l[2])
    <3>1. l = PublisherLoop(l[2])
      BY <1>3, AtHome
    <3>2. c \in ToServe(l[2])
      BY <1>3, <3>1 DEF FilterDenies, ToServe
    <3> QED
      BY <2>1, <3>2 DEF ServedOnce, FilteredFor
  <2>4. \A b \in Broadcast : FilteredFor(b)' = IF b = l[2] THEN FilteredFor(b) \cup {c}
                                               ELSE FilteredFor(b)
    BY <2>1 DEF FilteredFor
  <2>5. \A b \in Broadcast : filtered'[b] = IF b = l[2] THEN filtered[b] + 1
                                            ELSE filtered[b]
    BY <2>1
  <2>6. /\ IsFiniteSet(FilteredFor(l[2]) \cup {c})
        /\ Cardinality(FilteredFor(l[2]) \cup {c}) = Cardinality(FilteredFor(l[2])) + 1
    BY <2>1, <2>3, FS_AddElement DEF CountsOK
  <2> QED
    BY <2>1, <2>2, <2>4, <2>5, <2>6 DEF CountsOK
<1>4. ASSUME NEW l \in LoopId, NEW c \in Connection, LoopStep(l, c),
             ~(loops[l].cur = c /\ SendSucceeds(l) /\ ~IsRemote(l)),
             ~(loops[l].cur = c /\ FilterDenies(l) /\ ~IsRemote(l))
      PROVE  UNCHANGED <<served, delivered, filtered, denied>>
  <2>1. CASE loops[l].cur = c /\ SendSucceeds(l)
    BY <1>4, <2>1, SendSucceedsIs DEF SendSucceeds
  <2>2. CASE loops[l].cur = c /\ FilterDenies(l)
    BY <1>4, <2>2 DEF FilterDenies
  <2> QED
    BY <1>4, <2>1, <2>2, SilentStep
<1> QED
    BY <1>1, <1>2, <1>3, <1>4, OtherStepFrame

-----------------------------------------------------------------------------
(* What SeenOnce asks of one connection and message.                       *)
SeenOK(c, b) ==
    /\ relayed[c][b] <= 1
    /\ \A l \in LoopId : l[2] = b /\ Holds(l, c) =>
          /\ relayed[c][b] = 0
          /\ \A k \in LoopId : k[2] = b /\ Holds(k, c) => k = l
    /\ c \in registered /\ (relayed[c][b] > 0
                              \/ \E l \in LoopId : l[2] = b /\ Holds(l, c))
          => Contains(dedupCache[c], b)

(* A step that gives no loop a connection to send to, and takes no id from *)
(* a cache unrecorded.                                                     *)
LEMMA SeenStays ==
    ASSUME SeenOnce, relayed' = relayed, evicted \subseteq evicted', unnamed \subseteq unnamed',
           registered' \subseteq registered,
           \A l \in LoopId, c \in Connection : Holds(l, c)' => Holds(l, c),
           \A c \in Connection, b \in Broadcast :
               c \in registered' /\ Contains(dedupCache[c], b)
                   => Contains(dedupCache'[c], b) \/ <<c, b>> \in evicted'
    PROVE  SeenOnce'
<1> SUFFICES ASSUME NEW c \in Connection, NEW b \in Broadcast,
                    b \notin unnamed', <<c, b>> \notin evicted'
             PROVE  SeenOK(c, b)'
    BY DEF SeenOnce, SeenOK
<1>1. SeenOK(c, b)
    BY DEF SeenOnce, SeenOK
<1> QED
    BY <1>1 DEF SeenOK

(* A remote loop that turns to a connection is the first to do so.         *)
LEMMA ConsiderKeepsSeen ==
    ASSUME LoopInv, SeenOnce,
           NEW l \in LoopId, NEW c \in Connection, Consider(l, c)
    PROVE  SeenOnce'
<1>1. Moves(l, c) /\ Takes(l, c) /\ c # NoConnection
    BY ConsiderIs, BroadcastAssumption DEF NoConnection
<1>2. loops[l].cur = NoConnection /\ l[2] \in Broadcast
    BY LoopIds DEF Consider, Running, LoopInv, LoopsOK, LoopOK
<1>3. UNCHANGED <<nodeOf, registered, relayed, unnamed>>
    BY DEF Consider
<1>4. \A k \in LoopId, d \in Connection :
         Holds(k, d)' => Holds(k, d) \/ (k = l /\ d = c /\ IsRemote(l))
    BY <1>1, <1>3 DEF Moves, Takes, Holds
<1>5. Holds(l, c)' => c \in registered
    BY <1>1, <1>3 DEF Takes, Holds
<1>6. CASE ~(IsRemote(l) /\ l[2] \notin unnamed)
  <2>1. UNCHANGED <<dedupCache, evicted>>
    BY <1>6 DEF Consider
  <2> SUFFICES ASSUME NEW d \in Connection, NEW b \in Broadcast,
                      b \notin unnamed, <<d, b>> \notin evicted
               PROVE  SeenOK(d, b)'
    BY <1>3, <2>1 DEF SeenOnce, SeenOK
  <2>2. SeenOK(d, b)
    BY DEF SeenOnce, SeenOK
  <2>3. \A k \in LoopId : k[2] = b /\ Holds(k, d)' => Holds(k, d)
    BY <1>4, <1>6
  <2> QED
    BY <1>3, <2>1, <2>2, <2>3 DEF SeenOK
<1>7. CASE IsRemote(l) /\ l[2] \notin unnamed
  <2>1. Remember(c, l[2]) /\ ~Contains(dedupCache[c], l[2])
    BY <1>7 DEF Consider, IsDuplicateMessage
  <2>2. /\ evicted \subseteq evicted'
        /\ \A d \in Connection : d # c => dedupCache'[d] = dedupCache[d]
        /\ Contains(dedupCache'[c], l[2])
        /\ \A x \in Broadcast : Contains(dedupCache[c], x) =>
                                  Contains(dedupCache'[c], x) \/ <<c, x>> \in evicted'
    BY <1>2, <2>1, RememberIs DEF LoopInv
  <2> SUFFICES ASSUME NEW d \in Connection, NEW b \in Broadcast,
                      b \notin unnamed, <<d, b>> \notin evicted'
               PROVE  SeenOK(d, b)'
    BY <1>3 DEF SeenOnce, SeenOK
  <2>3. SeenOK(d, b)
    BY <2>2 DEF SeenOnce, SeenOK
  <2>4. CASE d = c /\ b = l[2] /\ c \in registered
    <3>1. relayed[d][b] = 0 /\ \A k \in LoopId : k[2] = b => ~Holds(k, d)
      <4>1. relayed[d][b] \in Nat
        BY DEF LoopInv, TypeOK
      <4> QED
        BY <2>1, <2>3, <2>4, <4>1 DEF SeenOK
    <3> QED
      BY <1>3, <1>4, <2>2, <2>4, <3>1 DEF SeenOK
  <2>5. CASE ~(d = c /\ b = l[2] /\ c \in registered)
    <3>1. \A k \in LoopId : k[2] = b /\ Holds(k, d)' => Holds(k, d)
      BY <1>4, <1>5, <2>5
    <3>2. Contains(dedupCache[d], b) => Contains(dedupCache'[d], b)
      BY <2>2
    <3> QED
      BY <1>3, <2>3, <3>1, <3>2 DEF SeenOK
  <2> QED
    BY <2>4, <2>5
<1> QED
    BY <1>6, <1>7

(* The one loop that has a connection sends to it once.                    *)
LEMMA SendKeepsSeen ==
    ASSUME LoopInv, SeenOnce, NEW l \in LoopId, NEW c \in Connection,
           loops[l].cur = c, SendSucceeds(l), IsRemote(l)
    PROVE  SeenOnce'
<1>1. /\ Moves(l, c) /\ Passes(l) /\ c # NoConnection
      /\ OneMore(relayed, relayed', c, l[2])
    BY SendSucceedsIs, BroadcastAssumption DEF NoConnection
<1>2. UNCHANGED <<registered, dedupCache, evicted, unnamed>> /\ Holds(l, c)
    BY DEF SendSucceeds, Holds
<1>3. \A k \in LoopId, d \in Connection : Holds(k, d)' => Holds(k, d) /\ k # l
    BY <1>1, <1>2 DEF Moves, Passes, Holds
<1> SUFFICES ASSUME NEW d \in Connection, NEW b \in Broadcast,
                    b \notin unnamed, <<d, b>> \notin evicted
             PROVE  SeenOK(d, b)'
    BY <1>2 DEF SeenOnce, SeenOK
<1>4. SeenOK(d, b)
    BY DEF SeenOnce, SeenOK
<1>5. CASE d = c /\ b = l[2]
  <2>1. relayed[d][b] = 0
    BY <1>2, <1>4, <1>5 DEF SeenOK
  <2>2. relayed'[d][b] = 1
    BY <1>1, <1>5, <2>1 DEF OneMore
  <2>3. \A k \in LoopId : k[2] = b => ~Holds(k, d)'
    BY <1>2, <1>3, <1>4, <1>5 DEF SeenOK
  <2>4. d \in registered => Contains(dedupCache[d], b)
    BY <1>2, <1>4, <1>5 DEF SeenOK
  <2> QED
    BY <1>2, <2>2, <2>3, <2>4 DEF SeenOK
<1>6. CASE ~(d = c /\ b = l[2])
  <2>1. relayed'[d][b] = relayed[d][b]
    BY <1>1, <1>6 DEF OneMore
  <2> QED
    BY <1>2, <1>3, <1>4, <2>1 DEF SeenOK
<1> QED
    BY <1>5, <1>6

(* Every other step leaves who has the connections and who saw what.       *)
LEMMA NextSeenOnce ==
    ASSUME LoopInv, SeenOnce,
           OtherStep \/ \E l \in LoopId, c \in Connection : LoopStep(l, c)
    PROVE  SeenOnce'
<1>0. \A c \in Connection : c # NoConnection
    BY BroadcastAssumption DEF NoConnection
<1>1. CASE OtherStep
  <2>1. /\ relayed' = relayed /\ evicted \subseteq evicted' /\ unnamed \subseteq unnamed'
        /\ registered' \subseteq registered
    BY <1>1, OtherStepFrame
  <2>2. \A l \in LoopId, c \in Connection : Holds(l, c)' => Holds(l, c)
    BY <1>0, <1>1, OtherStepFrame DEF Holds
  <2>3. \A c \in Connection, b \in Broadcast :
           c \in registered' /\ Contains(dedupCache[c], b)
               => Contains(dedupCache'[c], b) \/ <<c, b>> \in evicted'
    BY <1>1, OtherStepFrame
  <2> QED
    BY <2>1, <2>2, <2>3, SeenStays
<1>2. ASSUME NEW l \in LoopId, NEW c \in Connection, LoopStep(l, c)
      PROVE  SeenOnce'
  <2>1. CASE Consider(l, c)
    BY <2>1, ConsiderKeepsSeen
  <2>2. CASE loops[l].cur = c /\ SendSucceeds(l) /\ IsRemote(l)
    BY <2>2, SendKeepsSeen
  <2>3. Moves(l, c) /\ registered' \subseteq registered /\ unnamed' = unnamed
    BY <1>2, LoopStepIs DEF Moves
  <2>4. CASE \/ SkipDuplicate(l, c)
             \/ /\ loops[l].cur = c
                /\ \/ FilterDenies(l) \/ SendFindsNobody(l) \/ SendThrows(l)
                   \/ SendSucceeds(l) /\ ~IsRemote(l)
    <3>1. Passes(l)
      BY <2>4, SkipIs, FilterDeniesIs, SendSucceedsIs, SendFindsNobodyIs, SendThrowsIs
    <3>2. \A k \in LoopId, d \in Connection : Holds(k, d)' => Holds(k, d)
      BY <1>0, <2>3, <3>1 DEF Moves, Passes, Holds
    <3>3. UNCHANGED <<relayed, evicted>>
      BY <2>4 DEF SkipDuplicate, FilterDenies, SendSucceeds, SendFindsNobody, SendThrows
    <3>4. ASSUME NEW d \in Connection, d \in registered'
          PROVE  dedupCache'[d] = dedupCache[d]
      <4>1. CASE loops[l].cur = c /\ SendThrows(l)
        BY <3>4, <4>1 DEF SendThrows, Drop, LoopInv, TypeOK
      <4>2. CASE ~(loops[l].cur = c /\ SendThrows(l))
        BY <2>4, <4>2 DEF SkipDuplicate, FilterDenies, SendSucceeds, SendFindsNobody
      <4> QED
        BY <4>1, <4>2
    <3> QED
      BY <2>3, <3>2, <3>3, <3>4, SeenStays
  <2>5. CASE loops[l].cur = c /\ FilterAllows(l)
    <3>1. Takes(l, c) /\ loops'[l].pc # "filter"
      BY <2>5, FilterAllowsIs
    <3>2. \A k \in LoopId, d \in Connection : Holds(k, d)' => Holds(k, d)
      BY <2>3, <2>5, <3>1 DEF FilterAllows, Moves, Takes, Holds
    <3>3. UNCHANGED <<relayed, evicted, dedupCache, registered>>
      BY <2>5 DEF FilterAllows
    <3> QED
      BY <2>3, <3>2, <3>3, SeenStays
  <2> QED
    BY <1>2, <2>1, <2>2, <2>4, <2>5 DEF LoopStep
<1> QED
    BY <1>1, <1>2

-----------------------------------------------------------------------------
(* The strengthening of AtMostOnce and CountsAreRight that steps keep.     *)
OnceAll == LoopInv /\ OnceInv

(* It holds of a system that has sent nothing.                             *)
LEMMA InitOnceAll == Init => OnceAll
<1> SUFFICES ASSUME Init
             PROVE  OnceAll
    OBVIOUS
<1>1. LoopInv
    BY InitLoopInv
<1>2. \A l \in LoopId : loops[l].pc = "idle" /\ loops[l].cur = NoConnection
    BY DEF Init, Idle
<1>3. /\ \A c \in Connection, b \in Broadcast : served[c][b] = 0 /\ relayed[c][b] = 0
      /\ denied = {}
      /\ \A b \in Broadcast : delivered[b] = 0 /\ filtered[b] = 0
    BY DEF Init
<1>4. HeardAsForeign /\ RelayedAsForeign /\ ServedOnce
    BY <1>2, <1>3 DEF HeardAsForeign, RelayedAsForeign, ServedOnce
<1>5. \A l \in LoopId, c \in Connection : ~Holds(l, c)
    BY <1>2 DEF Holds
<1>6. SeenOnce
    BY <1>3, <1>5 DEF SeenOnce
<1>7. \A b \in Broadcast : DeliveredTo(b) = {} /\ FilteredFor(b) = {}
    BY <1>3 DEF DeliveredTo, FilteredFor
<1>8. CountsOK
    BY <1>3, <1>7, FS_EmptySet DEF CountsOK
<1> QED
    BY <1>1, <1>4, <1>6, <1>8 DEF OnceAll, OnceInv

(* No step breaks it.                                                      *)
LEMMA NextOnceAll == OnceAll /\ [Next]_vars => OnceAll'
<1> SUFFICES ASSUME OnceAll, [Next]_vars
             PROVE  OnceAll'
    OBVIOUS
<1>1. /\ LoopInv /\ LoopInv' /\ HeardAsForeign /\ RelayedAsForeign
      /\ ServedOnce /\ SeenOnce /\ CountsOK
    BY NextLoopInv DEF OnceAll, OnceInv
<1>2. CASE Next
  <2>1. OtherStep \/ \E l \in LoopId, c \in Connection : LoopStep(l, c)
    BY <1>1, <1>2, NextIs
  <2> QED
    BY <1>1, <2>1, NextHeardAsForeign, NextRelayedAsForeign, NextServedOnce, NextSeenOnce,
       NextCountsOK DEF OnceAll, OnceInv
<1>3. CASE UNCHANGED vars
  <2>1. HeardAsForeign' /\ RelayedAsForeign' /\ ServedOnce'
    BY <1>1, <1>3 DEF vars, HeardAsForeign, RelayedAsForeign, ServedOnce, ToServe
  <2>2. SeenOnce'
    BY <1>1, <1>3 DEF vars, SeenOnce, Holds
  <2>3. CountsOK'
    BY <1>1, <1>3 DEF vars, CountsOK, DeliveredTo, FilteredFor
  <2> QED
    BY <1>1, <2>1, <2>2, <2>3 DEF OnceAll, OnceInv
<1> QED
    BY <1>2, <1>3

(* So it always holds.                                                     *)
LEMMA AlwaysOnceAll == Spec => []OnceAll
BY InitOnceAll, NextOnceAll, PTL DEF Spec

(* However many rooms a message goes to and whatever ids nodes have, its   *)
(* publisher sends it to a connection once, and the loops for what comes   *)
(* from Redis send it once, and not at all to a connection of a publisher  *)
(* that knows its own id; all this of messages that have an id, which the  *)
(* connection's cache has not had to give up (SSERoomBroadcaster.ts,       *)
(* isDuplicateMessage).                                                    *)
THEOREM DeliveredAtMostOnce == Spec => []AtMostOnce
<1>1. OnceAll => AtMostOnce
  <2> SUFFICES ASSUME OnceAll, NEW c \in Connection, NEW b \in Broadcast,
                      b \notin unnamed, <<c, b>> \notin evicted
               PROVE  served[c][b] + relayed[c][b]
                        <= IF nodeOf[c] = Origin[b] /\ Echoes(Origin[b]) THEN 2 ELSE 1
    BY DEF AtMostOnce
  <2>1. served[c][b] \in Nat /\ relayed[c][b] \in Nat
    BY DEF OnceAll, LoopInv, TypeOK
  <2>2. relayed[c][b] <= 1 /\ served[c][b] <= 1
    BY DEF OnceAll, OnceInv, ServedOnce, SeenOnce
  <2>3. /\ served[c][b] > 0 => nodeOf[c] = Origin[b]
        /\ relayed[c][b] > 0 => AdapterId[Origin[b]] # ManagerId[nodeOf[c]]
    BY DEF OnceAll, OnceInv, ServedOnce, RelayedAsForeign
  <2>4. CASE nodeOf[c] = Origin[b] /\ Echoes(Origin[b])
    BY <2>1, <2>2, <2>4
  <2>5. CASE ~(nodeOf[c] = Origin[b] /\ Echoes(Origin[b]))
    <3>1. served[c][b] = 0 \/ relayed[c][b] = 0
      BY <2>1, <2>3, <2>5 DEF Echoes
    <3> QED
      BY <2>1, <2>2, <2>5, <3>1
  <2> QED
    BY <2>4, <2>5
<1> QED
    BY <1>1, AlwaysOnceAll, PTL

(* What broadcastMessage returns is what its loop did, for any broadcasts  *)
(* and echoes at the same time.                                            *)
THEOREM CountsAlwaysRight == Spec => []CountsAreRight
<1>1. OnceAll => CountsAreRight
    BY DEF OnceAll, OnceInv, CountsOK, DeliveredTo, FilteredFor, CountsAreRight
<1> QED
    BY <1>1, AlwaysOnceAll, PTL
=============================================================================
