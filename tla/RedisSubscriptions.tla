------------------------- MODULE RedisSubscriptions -------------------------
(***************************************************************************)
(* The room manager of one node over the Redis adapter,                    *)
(* packages/sse-rooms-redis/src/RedisAdapter.ts.  The manager calls        *)
(* adapter.subscribe when a room gets its first local connection and       *)
(* adapter.unsubscribe when it loses its last one, and awaits neither.     *)
(* The adapter compares the call with the channels it has a reply for,     *)
(* sends a command, and updates its record when the reply arrives, so any  *)
(* number of joins and leaves fit between the two.                         *)
(*                                                                         *)
(* Redis (external) executes the commands of one client in order and       *)
(* replies in order.  The commands one call of join or leave sends travel  *)
(* together as a batch.  A batch may be rejected, without effect.          *)
(***************************************************************************)
EXTENDS SSERoomManager, Naturals, Sequences

CONSTANTS
    MaxInFlight,  \* bound: batches between the node and Redis
    MaxFailures   \* bound: batches Redis rejects

ASSUME InFlightAssumption == MaxInFlight \in Nat
ASSUME FailuresAssumption == MaxFailures \in Nat

VARIABLES
    subscribedChannels,  \* RedisAdapter.subscribedChannels, by room
    commands,            \* batches sent and not executed, oldest first
    replies,             \* batches executed, their reply not yet processed
    redisSubs,           \* the channels Redis delivers to this node
    closing,             \* disconnect(): "open", "closing", "closed"
    failures,            \* how many batches were rejected
    raced                \* history: rooms whose last call met another in
                         \* flight, or whose command was rejected

adapterVars == <<subscribedChannels, commands, replies, redisSubs,
                 closing, failures, raced>>
vars == <<managerVars, adapterVars>>

Batch == [op : {"subscribe", "unsubscribe", "disconnect"}, rooms : SUBSET Room]

Named(batches) == UNION {batches[i].rooms : i \in DOMAIN batches}
InFlight == Named(commands) \cup Named(replies)

-----------------------------------------------------------------------------
Init ==
    /\ InitManager
    /\ subscribedChannels = {}
    /\ commands = << >>
    /\ replies = << >>
    /\ redisSubs = {}
    /\ closing = "open"
    /\ failures = 0
    /\ raced = {}

MayCall == Len(commands) + Len(replies) < MaxInFlight

Send(op, rs) ==
    commands' = IF rs = {} THEN commands
                ELSE Append(commands, [op |-> op, rooms |-> rs])

\* deviation: sends what is recorded already
SubscribeRecorded(rs) == Send("subscribe", rs \cap subscribedChannels)

\* subscribe(r), for every r of rs: nothing to do for a recorded channel
Subscribe(rs) == Send("subscribe", rs \ subscribedChannels)

\* deviation: the early return is inverted
UnsubscribeUnrecorded(rs) == Send("unsubscribe", rs \ subscribedChannels)

\* unsubscribe(r), for every r of rs: nothing to do for an unrecorded channel
Unsubscribe(rs) == Send("unsubscribe", rs \cap subscribedChannels)

\* history: a call finds the channel idle, or another call on its way
Track(rs) == raced' = (raced \ rs) \cup (rs \cap InFlight)

JoinRooms(c, rs) ==
    /\ MayCall
    /\ closing = "open"   \* no stream joins once the server shuts down
    /\ Join(c, rs)
    /\ Subscribe(NewlyOccupied(c, rs))
    /\ Track(NewlyOccupied(c, rs))
    /\ UNCHANGED <<subscribedChannels, replies, redisSubs, closing, failures>>

LeaveRooms(c, rs) ==
    /\ MayCall
    /\ Leave(c, rs)
    /\ Unsubscribe(NewlyEmpty(c, rs))
    /\ Track(NewlyEmpty(c, rs))
    /\ UNCHANGED <<subscribedChannels, replies, redisSubs, closing, failures>>

LeaveAllRooms(c) == LeaveRooms(c, GetRooms(c))

\* disconnect(): with channels on record it waits for their unsubscription,
\* otherwise it is over at once
Disconnect ==
    /\ MayCall
    /\ closing = "open"
    /\ closing' = IF subscribedChannels = {} THEN "closed" ELSE "closing"
    /\ Send("disconnect", subscribedChannels)
    /\ UNCHANGED <<managerVars, subscribedChannels, replies, redisSubs,
                   failures, raced>>

-----------------------------------------------------------------------------
(* Redis                                                                   *)

Execute ==
    /\ commands # << >>
    /\ LET b == Head(commands)
       IN  redisSubs' = IF b.op = "subscribe" THEN redisSubs \cup b.rooms
                                              ELSE redisSubs \ b.rooms
    /\ replies' = Append(replies, Head(commands))
    /\ commands' = Tail(commands)
    /\ UNCHANGED <<managerVars, subscribedChannels, closing, failures, raced>>

\* the awaiting call throws: its record update is skipped; join and leave log
\* the rejection, disconnect rejects and leaves its record as it was
Reject ==
    /\ commands # << >>
    /\ failures < MaxFailures
    /\ failures' = failures + 1
    /\ commands' = Tail(commands)
    /\ raced' = raced \cup Head(commands).rooms
    /\ closing' = IF Head(commands).op = "disconnect" THEN "open" ELSE closing
    /\ UNCHANGED <<managerVars, subscribedChannels, replies, redisSubs>>

-----------------------------------------------------------------------------
(* The calls resume after their await                                      *)

Subscribed ==
    /\ replies # << >>
    /\ Head(replies).op = "subscribe"
    /\ subscribedChannels' = subscribedChannels \cup Head(replies).rooms
    /\ replies' = Tail(replies)
    /\ UNCHANGED <<managerVars, commands, redisSubs, closing, failures, raced>>

\* deviation: the channel stays on record
UnsubscribedKept ==
    /\ replies # << >>
    /\ Head(replies).op = "unsubscribe"
    /\ replies' = Tail(replies)
    /\ UNCHANGED <<managerVars, subscribedChannels, commands, redisSubs, closing,
                   failures, raced>>

Unsubscribed ==
    /\ replies # << >>
    /\ Head(replies).op = "unsubscribe"
    /\ subscribedChannels' = subscribedChannels \ Head(replies).rooms
    /\ replies' = Tail(replies)
    /\ UNCHANGED <<managerVars, commands, redisSubs, closing, failures, raced>>

Disconnected ==
    /\ replies # << >>
    /\ Head(replies).op = "disconnect"
    /\ subscribedChannels' = {}
    /\ replies' = Tail(replies)
    /\ closing' = "closed"
    /\ UNCHANGED <<managerVars, commands, redisSubs, failures, raced>>

Next ==
    \/ \E c \in Connection, rs \in SUBSET Room : JoinRooms(c, rs)
    \/ \E c \in Connection, rs \in SUBSET Room : LeaveRooms(c, rs)
    \/ \E c \in Connection : LeaveAllRooms(c)
    \/ Disconnect
    \/ Execute
    \/ Reject
    \/ Subscribed
    \/ Unsubscribed
    \/ Disconnected

Spec == Init /\ [][Next]_vars

\* the client library delivers commands and replies that are not rejected
FairSpec == Spec /\ WF_vars(Execute)
                 /\ WF_vars(Subscribed \/ Unsubscribed \/ Disconnected)

-----------------------------------------------------------------------------
TypeOK ==
    /\ ManagerTypeOK
    /\ subscribedChannels \in SUBSET Room
    /\ commands \in Seq(Batch)
    /\ replies \in Seq(Batch)
    /\ redisSubs \in SUBSET Room
    /\ closing \in {"open", "closing", "closed"}
    /\ failures \in 0 .. MaxFailures
    /\ raced \in SUBSET Room

\* Until disconnect, the adapter's record of a channel with nothing in flight
\* is what Redis holds, however calls overlapped or failed.  The early returns
\* of subscribe and unsubscribe trust that record.
RecordMatchesRedis ==
    closing = "open" =>
        \A r \in Room \ InFlight : r \in subscribedChannels <=> r \in redisSubs

\* A call made while its channel is idle, and not rejected, brings the
\* subscription into line with the local membership, also when an earlier
\* race had left them apart.
SettledUnlessRaced ==
    closing = "open" =>
        \A r \in Room \ (InFlight \cup raced) :
            r \in redisSubs <=> r \in GetAllRooms

\* A room that stays occupied, on a node that stays up, is subscribed to for
\* good, unless its last call met another in flight or was rejected.
OccupiedRoomGetsSubscribed ==
    \A r \in Room :
        <>[](r \in GetAllRooms \ raced /\ closing = "open") => <>[](r \in redisSubs)

\* "Each node subscribes to channels for rooms that have local connections"
\* (RedisAdapter.ts:9): nothing in flight and nothing rejected, an occupied
\* room is subscribed to.
SubscribedWhileOccupied ==
    closing = "open" /\ failures = 0 =>
        \A r \in GetAllRooms \ InFlight : r \in redisSubs
=============================================================================
