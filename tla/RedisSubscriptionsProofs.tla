---------------------- MODULE RedisSubscriptionsProofs ----------------------
(***************************************************************************)
(* Proofs about the Redis adapter, for any connections, rooms and bounds.  *)
(***************************************************************************)
EXTENDS RedisSubscriptions, SSERoomManagerProofs

(* What the batches are, wherever they are.                                *)
BatchesOK ==
    /\ commands \in Seq(Batch)
    /\ replies \in Seq(Batch)
    /\ subscribedChannels \in SUBSET Room
    /\ redisSubs \in SUBSET Room
    /\ closing \in {"open", "closing", "closed"}

IsDisconnect(batch) == batch.op = "disconnect"

(* A disconnect is on its way only while closing, and there is one of them. *)
OneDisconnect ==
    /\ \A i \in DOMAIN commands : IsDisconnect(commands[i]) => closing = "closing"
    /\ \A i \in DOMAIN replies : IsDisconnect(replies[i]) => closing = "closing"
    /\ \A i, j \in DOMAIN commands :
          IsDisconnect(commands[i]) /\ IsDisconnect(commands[j]) => i = j
    /\ \A i, j \in DOMAIN replies :
          IsDisconnect(replies[i]) /\ IsDisconnect(replies[j]) => i = j
    /\ \A i \in DOMAIN commands, j \in DOMAIN replies :
          ~(IsDisconnect(commands[i]) /\ IsDisconnect(replies[j]))

LastWord(r, i) ==
    /\ r \in replies[i].rooms
    /\ \A j \in DOMAIN replies : j > i => r \notin replies[j].rooms

(* The last reply not yet processed that names a channel says what Redis    *)
(* holds of it; without one the record does.                                *)
RecordFollows ==
    closing # "closed" =>
        \A r \in Room :
            /\ (\A i \in DOMAIN replies : r \notin replies[i].rooms)
                  => (r \in subscribedChannels <=> r \in redisSubs)
            /\ \A i \in DOMAIN replies :
                  LastWord(r, i) => (r \in redisSubs <=> replies[i].op = "subscribe")

RecordInv == BatchesOK /\ OneDisconnect /\ RecordFollows

-----------------------------------------------------------------------------
(* Sequences: what the first element and the rest of a queue are, and what *)
(* a queue is after an arrival.                                            *)
LEMMA QueueTail ==
    ASSUME NEW S, NEW q \in Seq(S), q # << >>
    PROVE  /\ Head(q) \in S /\ Head(q) = q[1] /\ 1 \in DOMAIN q
           /\ Tail(q) \in Seq(S)
           /\ DOMAIN q = 1 .. Len(q) /\ Len(q) \in Nat
           /\ DOMAIN Tail(q) = 1 .. Len(q) - 1
           /\ \A i \in DOMAIN Tail(q) : Tail(q)[i] = q[i + 1] /\ i + 1 \in DOMAIN q
OBVIOUS

(* The same for a queue that gets one more element.                        *)
LEMMA QueueAppend ==
    ASSUME NEW S, NEW q \in Seq(S), NEW e \in S
    PROVE  /\ Append(q, e) \in Seq(S)
           /\ DOMAIN q = 1 .. Len(q) /\ Len(q) \in Nat
           /\ DOMAIN Append(q, e) = 1 .. Len(q) + 1
           /\ \A i \in DOMAIN q : Append(q, e)[i] = q[i]
           /\ Append(q, e)[Len(q) + 1] = e
OBVIOUS

(* Calls of join, leave and disconnect touch only commands and, for the    *)
(* last, closing.                                                          *)
LEMMA CallKeepsRecord ==
    ASSUME RecordInv,
           NEW op \in {"subscribe", "unsubscribe"}, NEW rs \in SUBSET Room,
           Send(op, rs),
           UNCHANGED <<subscribedChannels, replies, redisSubs, closing>>
    PROVE  RecordInv'
<1> DEFINE b == [op |-> op, rooms |-> rs]
<1>1. b \in Batch
    BY DEF Batch
<1>2. CASE rs = {}
    BY <1>2 DEF Send, RecordInv, BatchesOK, OneDisconnect, RecordFollows, LastWord
<1>3. CASE rs # {}
  <2>1. commands' = Append(commands, b)
    BY <1>3 DEF Send
  <2>2. commands' \in Seq(Batch)
    BY <2>1, <1>1, QueueAppend DEF RecordInv, BatchesOK
  <2>3. ASSUME NEW i \in DOMAIN commands', IsDisconnect(commands'[i])
        PROVE  i \in DOMAIN commands /\ commands'[i] = commands[i]
    <3>1. ~IsDisconnect(b)
      BY DEF IsDisconnect
    <3> QED
      BY <2>1, <2>3, <1>1, <3>1, QueueAppend DEF RecordInv, BatchesOK
  <2>4. OneDisconnect'
    BY <2>3 DEF RecordInv, OneDisconnect
  <2> QED
    BY <2>2, <2>4 DEF RecordInv, BatchesOK, RecordFollows, LastWord
<1> QED
    BY <1>2, <1>3

(* disconnect() sends the one batch that closes, or closes at once.        *)
LEMMA DisconnectKeepsRecord ==
    ASSUME RecordInv, Disconnect
    PROVE  RecordInv'
<1> DEFINE b == [op |-> "disconnect", rooms |-> subscribedChannels]
<1>1. CASE subscribedChannels = {}
    BY <1>1 DEF Disconnect, Send, RecordInv, BatchesOK, OneDisconnect, RecordFollows, LastWord
<1>2. CASE subscribedChannels # {}
  <2>1. commands' = Append(commands, b) /\ closing' = "closing"
    BY <1>2 DEF Disconnect, Send
  <2>2. b \in Batch
    BY DEF Batch, RecordInv, BatchesOK
  <2>3. commands' \in Seq(Batch)
    BY <2>1, <2>2, QueueAppend DEF RecordInv, BatchesOK
  <2>4. \A i \in DOMAIN commands : ~IsDisconnect(commands[i])
    BY DEF Disconnect, RecordInv, OneDisconnect
  <2>5. \A i \in DOMAIN replies : ~IsDisconnect(replies[i])
    BY DEF Disconnect, RecordInv, OneDisconnect
  <2>6. \A i \in DOMAIN commands' : IsDisconnect(commands'[i]) => i = Len(commands) + 1
    BY <2>1, <2>2, <2>4, QueueAppend DEF RecordInv, BatchesOK
  <2>7. OneDisconnect'
    BY <2>1, <2>5, <2>6 DEF Disconnect, OneDisconnect
  <2> QED
    BY <2>1, <2>3, <2>7 DEF Disconnect, RecordInv, BatchesOK, RecordFollows, LastWord
<1> QED
    BY <1>1, <1>2

(* Redis executes the oldest batch: it is the last word on its channels.   *)
LEMMA ExecuteKeepsRecord ==
    ASSUME RecordInv, Execute
    PROVE  RecordInv'
<1> DEFINE b == Head(commands)
<1>1. /\ commands # << >> /\ commands' = Tail(commands) /\ replies' = Append(replies, b)
      /\ commands \in Seq(Batch) /\ replies \in Seq(Batch)
    BY DEF Execute, RecordInv, BatchesOK
<1>2. /\ b \in Batch /\ b = commands[1] /\ 1 \in DOMAIN commands
      /\ commands' \in Seq(Batch)
      /\ \A i \in DOMAIN commands' : /\ commands'[i] = commands[i + 1]
                                     /\ i + 1 \in DOMAIN commands /\ i \in Nat \ {0}
    BY <1>1, QueueTail
<1>3. /\ replies' \in Seq(Batch)
      /\ DOMAIN replies = 1 .. Len(replies) /\ Len(replies) \in Nat
      /\ DOMAIN replies' = 1 .. Len(replies) + 1
      /\ \A i \in DOMAIN replies : replies'[i] = replies[i]
      /\ replies'[Len(replies) + 1] = b
    BY <1>1, <1>2, QueueAppend
<1>4. b.rooms \in SUBSET Room /\ b.op \in {"subscribe", "unsubscribe", "disconnect"}
    BY <1>2 DEF Batch
<1>5. BatchesOK'
    BY <1>2, <1>3, <1>4 DEF Execute, RecordInv, BatchesOK
<1>6. OneDisconnect'
  <2>1. closing' = closing
    BY DEF Execute
  <2>2. ASSUME NEW i \in DOMAIN replies', IsDisconnect(replies'[i])
        PROVE  \/ i \in DOMAIN replies /\ IsDisconnect(replies[i])
               \/ i = Len(replies) + 1 /\ IsDisconnect(commands[1])
    BY <1>2, <1>3, <2>2
  <2>3. ASSUME NEW i \in DOMAIN commands', IsDisconnect(commands'[i])
        PROVE  /\ i + 1 \in DOMAIN commands /\ IsDisconnect(commands[i + 1])
               /\ i \in Nat /\ i + 1 # 1
    BY <1>2, <2>3
  <2>4. closing' = "closing" \/ \A i \in DOMAIN commands' : ~IsDisconnect(commands'[i])
    BY <2>1, <2>3 DEF RecordInv, OneDisconnect
  <2>5. closing' = "closing" \/ \A i \in DOMAIN replies' : ~IsDisconnect(replies'[i])
    BY <1>2, <2>1, <2>2 DEF RecordInv, OneDisconnect
  <2>6. \A i, j \in DOMAIN commands' :
            IsDisconnect(commands'[i]) /\ IsDisconnect(commands'[j]) => i = j
    BY <2>3 DEF RecordInv, OneDisconnect
  <2>7. \A i, j \in DOMAIN replies' :
            IsDisconnect(replies'[i]) /\ IsDisconnect(replies'[j]) => i = j
    BY <1>2, <2>2 DEF RecordInv, OneDisconnect
  <2>8. \A i \in DOMAIN commands', j \in DOMAIN replies' :
            ~(IsDisconnect(commands'[i]) /\ IsDisconnect(replies'[j]))
    BY <1>2, <2>2, <2>3 DEF RecordInv, OneDisconnect
  <2> QED
    BY <2>4, <2>5, <2>6, <2>7, <2>8 DEF OneDisconnect
<1>7. RecordFollows'
  <2> SUFFICES ASSUME closing # "closed", NEW r \in Room
               PROVE  /\ (\A i \in DOMAIN replies' : r \notin replies'[i].rooms)
                            => (r \in subscribedChannels <=> r \in redisSubs')
                      /\ \A i \in DOMAIN replies' :
                            LastWord(r, i)' => (r \in redisSubs' <=> replies'[i].op = "subscribe")
    BY DEF Execute, RecordFollows
  <2>1. redisSubs' = IF b.op = "subscribe" THEN redisSubs \cup b.rooms ELSE redisSubs \ b.rooms
    BY DEF Execute
  <2>2. CASE r \in b.rooms
    BY <1>3, <2>1, <2>2 DEF LastWord
  <2>3. CASE r \notin b.rooms
    <3>1. r \in redisSubs' <=> r \in redisSubs
      BY <2>1, <2>3
    <3>2. ASSUME NEW i \in DOMAIN replies', LastWord(r, i)'
          PROVE  i \in DOMAIN replies /\ LastWord(r, i) /\ replies'[i] = replies[i]
      BY <1>3, <2>3, <3>2 DEF LastWord
    <3> QED
      BY <1>3, <3>1, <3>2 DEF RecordInv, RecordFollows
  <2> QED
    BY <2>2, <2>3
<1> QED
    BY <1>5, <1>6, <1>7 DEF RecordInv

(* Redis rejects the oldest batch: nothing but the queue changes.          *)
LEMMA RejectKeepsRecord ==
    ASSUME RecordInv, Reject
    PROVE  RecordInv'
<1>1. /\ commands # << >> /\ commands' = Tail(commands) /\ commands \in Seq(Batch)
    BY DEF Reject, RecordInv, BatchesOK
<1>2. /\ Head(commands) = commands[1] /\ 1 \in DOMAIN commands
      /\ commands' \in Seq(Batch)
      /\ \A i \in DOMAIN commands' : /\ commands'[i] = commands[i + 1]
                                     /\ i + 1 \in DOMAIN commands /\ i \in Nat \ {0}
    BY <1>1, QueueTail
<1>3. BatchesOK'
    BY <1>2 DEF Reject, RecordInv, BatchesOK
<1>4. OneDisconnect'
    BY <1>2 DEF Reject, RecordInv, OneDisconnect, IsDisconnect
<1>5. RecordFollows'
  <2>1. closing' # "closed" => closing # "closed"
    BY <1>2 DEF Reject, RecordInv, OneDisconnect, IsDisconnect
  <2> QED
    BY <2>1 DEF Reject, RecordInv, RecordFollows, LastWord
<1> QED
    BY <1>3, <1>4, <1>5 DEF RecordInv

(* The oldest reply is processed: what the later ones say is unchanged.    *)
LEMMA ReplyKeepsRecord ==
    ASSUME RecordInv, replies # << >>, replies' = Tail(replies),
           UNCHANGED <<commands, redisSubs, closing>>,
           ~IsDisconnect(Head(replies)),
           subscribedChannels' = IF Head(replies).op = "subscribe"
                                 THEN subscribedChannels \cup Head(replies).rooms
                                 ELSE subscribedChannels \ Head(replies).rooms
    PROVE  RecordInv'
<1> DEFINE b == Head(replies)
<1>1. /\ b \in Batch /\ b = replies[1] /\ 1 \in DOMAIN replies
      /\ replies' \in Seq(Batch)
      /\ DOMAIN replies = 1 .. Len(replies) /\ Len(replies) \in Nat
      /\ DOMAIN replies' = 1 .. Len(replies) - 1
      /\ \A i \in DOMAIN replies' : replies'[i] = replies[i + 1] /\ i + 1 \in DOMAIN replies
    BY QueueTail DEF RecordInv, BatchesOK
<1>2. BatchesOK'
    BY <1>1 DEF RecordInv, BatchesOK, Batch
<1>3. OneDisconnect'
    BY <1>1 DEF RecordInv, OneDisconnect
<1>4. RecordFollows'
  <2> SUFFICES ASSUME closing # "closed", NEW r \in Room
               PROVE  /\ (\A i \in DOMAIN replies' : r \notin replies'[i].rooms)
                            => (r \in subscribedChannels' <=> r \in redisSubs)
                      /\ \A i \in DOMAIN replies' :
                            LastWord(r, i)' => (r \in redisSubs <=> replies'[i].op = "subscribe")
    BY DEF RecordFollows
  <2>1. ASSUME NEW i \in DOMAIN replies', LastWord(r, i)'
        PROVE  r \in redisSubs <=> replies'[i].op = "subscribe"
    <3>1. i + 1 \in DOMAIN replies /\ replies'[i] = replies[i + 1]
      BY <1>1
    <3>2. ASSUME NEW j \in DOMAIN replies, j > i + 1
          PROVE  r \notin replies[j].rooms
      <4>1. j - 1 \in DOMAIN replies' /\ j - 1 > i /\ replies'[j - 1] = replies[j]
        BY <1>1, <3>2
      <4> QED
        BY <4>1, <2>1 DEF LastWord
    <3>3. LastWord(r, i + 1)
      BY <2>1, <3>1, <3>2 DEF LastWord
    <3> QED
      BY <3>1, <3>3 DEF RecordInv, RecordFollows
  <2>2. ASSUME \A i \in DOMAIN replies' : r \notin replies'[i].rooms
        PROVE  r \in subscribedChannels' <=> r \in redisSubs
    <3>1. ASSUME NEW j \in DOMAIN replies, j > 1
          PROVE  r \notin replies[j].rooms
      <4>1. j - 1 \in DOMAIN replies' /\ replies'[j - 1] = replies[j]
        BY <1>1, <3>1
      <4> QED
        BY <4>1, <2>2
    <3>2. CASE r \in b.rooms
      <4>1. LastWord(r, 1)
        BY <1>1, <3>1, <3>2 DEF LastWord
      <4> QED
        BY <1>1, <3>2, <4>1 DEF RecordInv, RecordFollows
    <3>3. CASE r \notin b.rooms
      <4>1. \A j \in DOMAIN replies : r \notin replies[j].rooms
        BY <1>1, <3>1, <3>3
      <4> QED
        BY <3>3, <4>1 DEF RecordInv, RecordFollows
    <3> QED
      BY <3>2, <3>3
  <2> QED
    BY <2>1, <2>2
<1> QED
    BY <1>2, <1>3, <1>4 DEF RecordInv

(* The reply to disconnect() closes, and the invariant asks nothing more.  *)
LEMMA DisconnectedKeepsRecord ==
    ASSUME RecordInv, Disconnected
    PROVE  RecordInv'
<1>1. /\ Head(replies) = replies[1] /\ 1 \in DOMAIN replies
      /\ replies' \in Seq(Batch)
      /\ \A i \in DOMAIN replies' : /\ replies'[i] = replies[i + 1]
                                    /\ i + 1 \in DOMAIN replies /\ i \in Nat \ {0}
    BY QueueTail DEF Disconnected, RecordInv, BatchesOK
<1>2. BatchesOK'
    BY <1>1 DEF Disconnected, RecordInv, BatchesOK
<1>3. OneDisconnect'
    BY <1>1 DEF Disconnected, RecordInv, OneDisconnect, IsDisconnect
<1>4. RecordFollows'
    BY DEF Disconnected, RecordFollows
<1> QED
    BY <1>2, <1>3, <1>4 DEF RecordInv

-----------------------------------------------------------------------------
(* RecordInv is inductive.                                                 *)
THEOREM RecordInvariant == Spec => []RecordInv
<1>1. Init => RecordInv
    BY DEF Init, RecordInv, BatchesOK, OneDisconnect, RecordFollows, LastWord
<1>2. RecordInv /\ [Next]_vars => RecordInv'
  <2> SUFFICES ASSUME RecordInv, [Next]_vars
               PROVE  RecordInv'
    OBVIOUS
  <2>1. ASSUME NEW c \in Connection, NEW rs \in SUBSET Room, JoinRooms(c, rs)
        PROVE  RecordInv'
    <3>1. NewlyOccupied(c, rs) \ subscribedChannels \in SUBSET Room
      BY DEF NewlyOccupied
    <3> QED
      BY <2>1, <3>1, CallKeepsRecord DEF JoinRooms, Subscribe
  <2>2. ASSUME NEW c \in Connection, NEW rs, LeaveRooms(c, rs)
        PROVE  RecordInv'
    <3>1. NewlyEmpty(c, rs) \cap subscribedChannels \in SUBSET Room
      BY DEF RecordInv, BatchesOK
    <3> QED
      BY <2>2, <3>1, CallKeepsRecord DEF LeaveRooms, Unsubscribe
  <2>3. ASSUME NEW c \in Connection, LeaveAllRooms(c)
        PROVE  RecordInv'
    BY <2>2, <2>3 DEF LeaveAllRooms
  <2>4. CASE Disconnect
    BY <2>4, DisconnectKeepsRecord
  <2>5. CASE Execute
    BY <2>5, ExecuteKeepsRecord
  <2>6. CASE Reject
    BY <2>6, RejectKeepsRecord
  <2>7. CASE Subscribed
    BY <2>7, ReplyKeepsRecord DEF Subscribed, IsDisconnect
  <2>8. CASE Unsubscribed
    BY <2>8, ReplyKeepsRecord DEF Unsubscribed, IsDisconnect
  <2>9. CASE Disconnected
    BY <2>9, DisconnectedKeepsRecord
  <2>10. CASE UNCHANGED vars
    BY <2>10 DEF vars, adapterVars, RecordInv, BatchesOK, OneDisconnect, RecordFollows, LastWord
  <2> QED
    BY <2>1, <2>2, <2>3, <2>4, <2>5, <2>6, <2>7, <2>8, <2>9, <2>10 DEF Next
<1> QED
    BY <1>1, <1>2, PTL DEF Spec

(* Until disconnect, the record of a channel with nothing in flight is what *)
(* Redis holds: the early returns of subscribe and unsubscribe may trust it *)
(* (RedisAdapter.ts).                                                      *)
THEOREM RecordAlwaysMatches == Spec => []RecordMatchesRedis
<1>1. RecordInv => RecordMatchesRedis
  <2> SUFFICES ASSUME RecordInv, closing = "open", NEW r \in Room \ InFlight
               PROVE  r \in subscribedChannels <=> r \in redisSubs
    BY DEF RecordMatchesRedis
  <2>1. \A i \in DOMAIN replies : r \notin replies[i].rooms
    BY DEF InFlight, Named
  <2> QED
    BY <2>1 DEF RecordInv, RecordFollows
<1> QED
    BY <1>1, RecordInvariant, PTL

-----------------------------------------------------------------------------
(* The calls of the node are calls of its manager.                         *)
LEMMA NodeStepIsManagerStep ==
    ASSUME [Next]_vars
    PROVE  [NextManager]_managerVars
<1>1. ASSUME NEW c \in Connection, NEW rs \in SUBSET Room, JoinRooms(c, rs)
      PROVE  [NextManager]_managerVars
    BY <1>1 DEF JoinRooms, NextManager
<1>2. ASSUME NEW c \in Connection, NEW rs \in SUBSET Room, LeaveRooms(c, rs)
      PROVE  [NextManager]_managerVars
    BY <1>2 DEF LeaveRooms, NextManager
<1>3. ASSUME NEW c \in Connection, LeaveAllRooms(c)
      PROVE  [NextManager]_managerVars
    BY <1>3 DEF LeaveAllRooms, LeaveRooms, LeaveAll, NextManager
<1>4. ASSUME \/ Disconnect \/ Execute \/ Reject \/ Subscribed \/ Unsubscribed
             \/ Disconnected \/ UNCHANGED vars
      PROVE  UNCHANGED managerVars
    BY <1>4 DEF Disconnect, Execute, Reject, Subscribed, Unsubscribed, Disconnected, vars
<1> QED
    BY <1>1, <1>2, <1>3, <1>4 DEF Next

(* Over the adapter, the manager keeps its invariant and its promise.      *)
THEOREM NodeKeepsManager == Spec => SpecManager
<1>1. Init => InitManager
    BY DEF Init
<1> QED
    BY <1>1, NodeStepIsManagerStep, PTL DEF Spec, SpecManager

(* So the Maps of a node mirror each other whatever its adapter is doing,  *)
(* and whatever Redis rejects.                                             *)
COROLLARY NodeMapsMirror == Spec => []MapsMirror
BY NodeKeepsManager, MapsAlwaysMirror, PTL

(* And the node implements the membership relation: a call of the adapter  *)
(* that is on its way, late or rejected never shows in the membership.     *)
COROLLARY NodeImplementsMembership == Spec => ImplementsMembership
BY NodeKeepsManager, ManagerImplementsMembership, PTL

(* Every variable of the node keeps its type.                              *)
THEOREM NodeTypeCorrect == Spec => []TypeOK
<1> DEFINE CountsOK == failures \in 0 .. MaxFailures /\ raced \in SUBSET Room
<1>1. Init => CountsOK
    BY FailuresAssumption DEF Init
<1>2. CountsOK /\ RecordInv /\ ManagerInv /\ [Next]_vars => CountsOK'
  <2> SUFFICES ASSUME CountsOK, RecordInv, ManagerInv, [Next]_vars
               PROVE  CountsOK'
    OBVIOUS
  <2>1. ASSUME NEW c \in Connection, NEW rs \in SUBSET Room, JoinRooms(c, rs)
        PROVE  CountsOK'
    BY <2>1 DEF JoinRooms, Track, NewlyOccupied
  <2>2. ASSUME NEW c \in Connection, NEW rs, LeaveRooms(c, rs)
        PROVE  CountsOK'
    BY <2>2 DEF LeaveRooms, Track, NewlyEmpty, ManagerInv, ManagerTypeOK
  <2>3. ASSUME NEW c \in Connection, LeaveAllRooms(c)
        PROVE  CountsOK'
    BY <2>2, <2>3 DEF LeaveAllRooms
  <2>4. CASE Reject
    <3>1. Head(commands) \in Batch
      BY <2>4, QueueTail DEF Reject, RecordInv, BatchesOK
    <3> QED
      BY <2>4, <3>1, FailuresAssumption DEF Reject, Batch
  <2>5. ASSUME \/ Disconnect \/ Execute \/ Subscribed \/ Unsubscribed
               \/ Disconnected \/ UNCHANGED vars
        PROVE  CountsOK'
    BY <2>5 DEF Disconnect, Execute, Subscribed, Unsubscribed, Disconnected,
                vars, adapterVars
  <2> QED
    BY <2>1, <2>2, <2>3, <2>4, <2>5 DEF Next
<1>3. CountsOK /\ RecordInv /\ ManagerInv => TypeOK
    BY DEF TypeOK, RecordInv, BatchesOK, ManagerInv
<1> QED
    BY <1>1, <1>2, <1>3, RecordInvariant, NodeKeepsManager, ManagerInvariant, PTL DEF Spec
-----------------------------------------------------------------------------
(* Settling.  Who names a channel in a queue of batches, and to what end.  *)
Names(q, r) == \E i \in DOMAIN q : r \in q[i].rooms
NamesOnce(q, r) ==
    \A i, j \in DOMAIN q : r \in q[i].rooms /\ r \in q[j].rooms => i = j
OnlySubscribes(q, r) ==
    \A i \in DOMAIN q : r \in q[i].rooms => q[i].op = "subscribe"
NeverSubscribes(q, r) ==
    \A i \in DOMAIN q : r \in q[i].rooms => q[i].op # "subscribe"
Disconnects(q, r) == \E i \in DOMAIN q : r \in q[i].rooms /\ q[i].op = "disconnect"

(* One batch at most is on its way for the channel, it will do what the    *)
(* membership asks for, and without one Redis holds it already.            *)
SettledRoom(r) ==
    /\ NamesOnce(commands, r) /\ NamesOnce(replies, r)
    /\ ~(Names(commands, r) /\ Names(replies, r))
    /\ r \in GetAllRooms =>
          /\ OnlySubscribes(commands, r) /\ OnlySubscribes(replies, r)
          /\ Names(commands, r) \/ Names(replies, r) \/ r \in redisSubs
    /\ r \notin GetAllRooms =>
          /\ NeverSubscribes(commands, r) /\ NeverSubscribes(replies, r)
          /\ Names(commands, r) \/ Names(replies, r) \/ r \notin redisSubs

SettledInv ==
    closing # "closed" =>
        \A r \in Room \ raced :
            Disconnects(commands, r) \/ Disconnects(replies, r) \/ SettledRoom(r)

(* A batch leaves the head of a queue: what that says of the channels the  *)
(* rest names.                                                             *)
LEMMA NamesTail ==
    ASSUME NEW q \in Seq(Batch), q # << >>, NEW r
    PROVE  LET h == Head(q) t == Tail(q)
           IN  /\ Names(q, r) <=> r \in h.rooms \/ Names(t, r)
               /\ NamesOnce(q, r) => /\ NamesOnce(t, r)
                                     /\ r \in h.rooms => ~Names(t, r)
               /\ OnlySubscribes(q, r) => /\ OnlySubscribes(t, r)
                                          /\ r \in h.rooms => h.op = "subscribe"
               /\ NeverSubscribes(q, r) => /\ NeverSubscribes(t, r)
                                           /\ r \in h.rooms => h.op # "subscribe"
               /\ Disconnects(q, r) <=>
                     \/ r \in h.rooms /\ h.op = "disconnect"
                     \/ Disconnects(t, r)
<1> DEFINE h == Head(q)
           t == Tail(q)
<1>1. /\ h = q[1] /\ 1 \in DOMAIN q
      /\ \A i \in DOMAIN t : t[i] = q[i + 1] /\ i + 1 \in DOMAIN q
      /\ DOMAIN q = 1 .. Len(q) /\ Len(q) \in Nat /\ DOMAIN t = 1 .. Len(q) - 1
    BY QueueTail
<1>2. ASSUME NEW i \in DOMAIN q, i # 1
      PROVE  i - 1 \in DOMAIN t /\ t[i - 1] = q[i]
    BY <1>1, <1>2
<1>3. Names(q, r) <=> r \in h.rooms \/ Names(t, r)
  <2>1. Names(q, r) => r \in h.rooms \/ Names(t, r)
    BY <1>1, <1>2 DEF Names
  <2>2. r \in h.rooms \/ Names(t, r) => Names(q, r)
    BY <1>1 DEF Names
  <2> QED
    BY <2>1, <2>2
<1>4. NamesOnce(q, r) => NamesOnce(t, r) /\ (r \in h.rooms => ~Names(t, r))
  <2> SUFFICES ASSUME NamesOnce(q, r)
               PROVE  NamesOnce(t, r) /\ (r \in h.rooms => ~Names(t, r))
    OBVIOUS
  <2>1. NamesOnce(t, r)
    BY <1>1 DEF NamesOnce
  <2>2. ASSUME r \in h.rooms, NEW i \in DOMAIN t, r \in t[i].rooms
        PROVE  FALSE
    <3>1. i + 1 = 1
      BY <1>1, <2>2 DEF NamesOnce
    <3> QED
      BY <1>1, <3>1
  <2> QED
    BY <2>1, <2>2 DEF Names
<1>5. OnlySubscribes(q, r) => OnlySubscribes(t, r) /\ (r \in h.rooms => h.op = "subscribe")
    BY <1>1 DEF OnlySubscribes
<1>6. NeverSubscribes(q, r) => NeverSubscribes(t, r) /\ (r \in h.rooms => h.op # "subscribe")
    BY <1>1 DEF NeverSubscribes
<1>7. Disconnects(q, r) <=> (r \in h.rooms /\ h.op = "disconnect") \/ Disconnects(t, r)
  <2>1. Disconnects(q, r) => (r \in h.rooms /\ h.op = "disconnect") \/ Disconnects(t, r)
    BY <1>1, <1>2 DEF Disconnects
  <2>2. (r \in h.rooms /\ h.op = "disconnect") \/ Disconnects(t, r) => Disconnects(q, r)
    BY <1>1 DEF Disconnects
  <2> QED
    BY <2>1, <2>2
<1> QED
    BY <1>3, <1>4, <1>5, <1>6, <1>7

(* A batch arrives at the end of a queue.                                  *)
LEMMA NamesAppend ==
    ASSUME NEW q \in Seq(Batch), NEW b \in Batch, NEW r
    PROVE  LET a == Append(q, b)
           IN  /\ Names(a, r) <=> Names(q, r) \/ r \in b.rooms
               /\ NamesOnce(q, r) /\ ~(Names(q, r) /\ r \in b.rooms) => NamesOnce(a, r)
               /\ OnlySubscribes(q, r) /\ (r \in b.rooms => b.op = "subscribe")
                     => OnlySubscribes(a, r)
               /\ NeverSubscribes(q, r) /\ (r \in b.rooms => b.op # "subscribe")
                     => NeverSubscribes(a, r)
               /\ Disconnects(a, r) <=>
                     Disconnects(q, r) \/ (r \in b.rooms /\ b.op = "disconnect")
<1> DEFINE a == Append(q, b)
           n == Len(q) + 1
<1>1. /\ \A i \in DOMAIN q : a[i] = q[i] /\ i \in DOMAIN a
      /\ a[n] = b /\ n \in DOMAIN a
      /\ \A i \in DOMAIN a : i \in DOMAIN q \/ i = n
    BY QueueAppend
<1>2. Names(a, r) <=> Names(q, r) \/ r \in b.rooms
    BY <1>1 DEF Names
<1>3. NamesOnce(q, r) /\ ~(Names(q, r) /\ r \in b.rooms) => NamesOnce(a, r)
    BY <1>1 DEF NamesOnce, Names
<1>4. OnlySubscribes(q, r) /\ (r \in b.rooms => b.op = "subscribe") => OnlySubscribes(a, r)
    BY <1>1 DEF OnlySubscribes
<1>5. NeverSubscribes(q, r) /\ (r \in b.rooms => b.op # "subscribe") => NeverSubscribes(a, r)
    BY <1>1 DEF NeverSubscribes
<1>6. Disconnects(a, r) <=> Disconnects(q, r) \/ (r \in b.rooms /\ b.op = "disconnect")
    BY <1>1 DEF Disconnects
<1> QED
    BY <1>2, <1>3, <1>4, <1>5, <1>6

(* A call of join or leave: the channels of called change hands, those of  *)
(* sent among them need a command.                                         *)
LEMMA CallSettles ==
    ASSUME RecordInv, SettledInv,
           NEW op \in {"subscribe", "unsubscribe"},
           NEW called \in SUBSET Room, NEW sent \in SUBSET called,
           Send(op, sent), Track(called),
           UNCHANGED <<subscribedChannels, replies, redisSubs, closing>>,
           \A r \in Room : r \in GetAllRooms' <=>
               IF r \in called THEN op = "subscribe" ELSE r \in GetAllRooms,
           \A r \in called \ sent : r \in subscribedChannels <=> op = "subscribe"
    PROVE  SettledInv'
<1> DEFINE b == [op |-> op, rooms |-> sent]
<1> SUFFICES ASSUME closing # "closed", NEW r \in Room, r \notin raced'
             PROVE  Disconnects(commands', r) \/ Disconnects(replies', r) \/ SettledRoom(r)'
    BY DEF SettledInv
<1>1. b \in Batch /\ b.op = op /\ b.rooms = sent /\ commands \in Seq(Batch)
    BY DEF Batch, RecordInv, BatchesOK
<1>2. /\ Names(commands', r) <=> Names(commands, r) \/ r \in sent
      /\ NamesOnce(commands, r) /\ ~(Names(commands, r) /\ r \in sent)
            => NamesOnce(commands', r)
      /\ OnlySubscribes(commands, r) /\ (r \in sent => op = "subscribe")
            => OnlySubscribes(commands', r)
      /\ NeverSubscribes(commands, r) /\ (r \in sent => op # "subscribe")
            => NeverSubscribes(commands', r)
      /\ Disconnects(commands', r) <=> Disconnects(commands, r)
  <2>1. CASE sent = {}
    BY <2>1 DEF Send
  <2>2. CASE sent # {}
    <3>1. commands' = Append(commands, b)
      BY <2>2 DEF Send
    <3> QED
      BY <1>1, <3>1, NamesAppend
  <2> QED
    BY <2>1, <2>2
<1>3. CASE r \notin called
  <2>1. r \notin raced /\ r \notin sent /\ (r \in GetAllRooms' <=> r \in GetAllRooms)
    BY <1>3 DEF Track
  <2> QED
    BY <1>2, <2>1 DEF SettledInv, SettledRoom
<1>4. CASE r \in called
  <2>1. r \notin InFlight
    BY <1>4 DEF Track
  <2>2. ~Names(commands, r) /\ ~Names(replies, r)
    BY <2>1 DEF InFlight, Named, Names
  <2>3. /\ NamesOnce(commands, r) /\ NamesOnce(replies, r)
        /\ OnlySubscribes(commands, r) /\ OnlySubscribes(replies, r)
        /\ NeverSubscribes(commands, r) /\ NeverSubscribes(replies, r)
    BY <2>2 DEF Names, NamesOnce, OnlySubscribes, NeverSubscribes
  <2>4. r \in subscribedChannels <=> r \in redisSubs
    BY <2>2 DEF RecordInv, RecordFollows, Names
  <2>5. r \in GetAllRooms' <=> op = "subscribe"
    BY <1>4
  <2>6. r \in sent \/ (r \in redisSubs <=> op = "subscribe")
    BY <1>4, <2>4
  <2> QED
    BY <1>2, <2>2, <2>3, <2>5, <2>6 DEF SettledRoom
<1> QED
    BY <1>3, <1>4

(* Batches move on: the channels are settled as before, or newly so.       *)
LEMMA ExecuteSettles ==
    ASSUME RecordInv, SettledInv, Execute
    PROVE  SettledInv'
<1> DEFINE b == Head(commands)
<1> SUFFICES ASSUME closing # "closed", NEW r \in Room, r \notin raced
             PROVE  Disconnects(commands', r) \/ Disconnects(replies', r) \/ SettledRoom(r)'
    BY DEF SettledInv, Execute
<1>1. /\ commands \in Seq(Batch) /\ replies \in Seq(Batch) /\ commands # << >>
      /\ commands' = Tail(commands) /\ replies' = Append(replies, b)
    BY DEF Execute, RecordInv, BatchesOK
<1>2. b \in Batch
    BY <1>1, QueueTail
<1>3. /\ Names(commands, r) <=> r \in b.rooms \/ Names(commands', r)
      /\ NamesOnce(commands, r) => /\ NamesOnce(commands', r)
                                   /\ r \in b.rooms => ~Names(commands', r)
      /\ OnlySubscribes(commands, r) => /\ OnlySubscribes(commands', r)
                                        /\ r \in b.rooms => b.op = "subscribe"
      /\ NeverSubscribes(commands, r) => /\ NeverSubscribes(commands', r)
                                         /\ r \in b.rooms => b.op # "subscribe"
      /\ Disconnects(commands, r) <=>
            (r \in b.rooms /\ b.op = "disconnect") \/ Disconnects(commands', r)
    BY <1>1, NamesTail
<1>4. /\ Names(replies', r) <=> Names(replies, r) \/ r \in b.rooms
      /\ NamesOnce(replies, r) /\ ~(Names(replies, r) /\ r \in b.rooms)
            => NamesOnce(replies', r)
      /\ OnlySubscribes(replies, r) /\ (r \in b.rooms => b.op = "subscribe")
            => OnlySubscribes(replies', r)
      /\ NeverSubscribes(replies, r) /\ (r \in b.rooms => b.op # "subscribe")
            => NeverSubscribes(replies', r)
      /\ Disconnects(replies', r) <=>
            Disconnects(replies, r) \/ (r \in b.rooms /\ b.op = "disconnect")
    BY <1>1, <1>2, NamesAppend
<1>5. r \notin b.rooms => (r \in redisSubs' <=> r \in redisSubs)
    BY DEF Execute
<1>6. r \in GetAllRooms' <=> r \in GetAllRooms
    BY DEF Execute, managerVars, GetAllRooms
<1>7. CASE Disconnects(commands, r) \/ Disconnects(replies, r)
    BY <1>3, <1>4, <1>7
<1>8. CASE SettledRoom(r)
    BY <1>3, <1>4, <1>5, <1>6, <1>8 DEF SettledRoom
<1> QED
    BY <1>7, <1>8 DEF SettledInv

(* A rejection adds the channels of its batch to the raced ones.           *)
LEMMA RejectSettles ==
    ASSUME RecordInv, SettledInv, Reject
    PROVE  SettledInv'
<1> DEFINE b == Head(commands)
<1>1. closing' # "closed" => closing # "closed"
  <2>1. Head(commands) = commands[1] /\ 1 \in DOMAIN commands
    BY QueueTail DEF Reject, RecordInv, BatchesOK
  <2> QED
    BY <2>1 DEF Reject, RecordInv, OneDisconnect, IsDisconnect
<1> SUFFICES ASSUME closing # "closed", NEW r \in Room, r \notin raced'
             PROVE  Disconnects(commands', r) \/ Disconnects(replies', r) \/ SettledRoom(r)'
    BY <1>1 DEF SettledInv
<1>2. r \notin raced /\ r \notin b.rooms
    BY DEF Reject
<1>3. /\ Names(commands, r) <=> Names(commands', r)
      /\ NamesOnce(commands, r) => NamesOnce(commands', r)
      /\ OnlySubscribes(commands, r) => OnlySubscribes(commands', r)
      /\ NeverSubscribes(commands, r) => NeverSubscribes(commands', r)
      /\ Disconnects(commands, r) <=> Disconnects(commands', r)
    BY <1>2, NamesTail DEF Reject, RecordInv, BatchesOK
<1>4. r \in GetAllRooms' <=> r \in GetAllRooms
    BY DEF Reject, managerVars, GetAllRooms
<1> QED
    BY <1>2, <1>3, <1>4 DEF SettledInv, SettledRoom, Reject

(* A reply processed by join or leave brings the record up to date.        *)
LEMMA ReplySettles ==
    ASSUME RecordInv, SettledInv, replies # << >>, replies' = Tail(replies),
           ~IsDisconnect(Head(replies)),
           UNCHANGED <<managerVars, commands, redisSubs, closing, raced>>
    PROVE  SettledInv'
<1> DEFINE b == Head(replies)
<1> SUFFICES ASSUME closing # "closed", NEW r \in Room, r \notin raced
             PROVE  Disconnects(commands', r) \/ Disconnects(replies', r) \/ SettledRoom(r)'
    BY DEF SettledInv
<1>1. replies \in Seq(Batch)
    BY DEF RecordInv, BatchesOK
<1>2. /\ Names(replies, r) <=> r \in b.rooms \/ Names(replies', r)
      /\ NamesOnce(replies, r) => /\ NamesOnce(replies', r)
                                  /\ r \in b.rooms => ~Names(replies', r)
      /\ OnlySubscribes(replies, r) => /\ OnlySubscribes(replies', r)
                                       /\ r \in b.rooms => b.op = "subscribe"
      /\ NeverSubscribes(replies, r) => /\ NeverSubscribes(replies', r)
                                        /\ r \in b.rooms => b.op # "subscribe"
      /\ Disconnects(replies, r) <=> Disconnects(replies', r)
    BY <1>1, NamesTail DEF IsDisconnect
<1>3. NamesOnce(replies, r) /\ r \in b.rooms
         => (r \in redisSubs <=> b.op = "subscribe")
  <2> SUFFICES ASSUME NamesOnce(replies, r), r \in b.rooms
               PROVE  r \in redisSubs <=> b.op = "subscribe"
    OBVIOUS
  <2>1. b = replies[1] /\ 1 \in DOMAIN replies /\ DOMAIN replies = 1 .. Len(replies)
    BY <1>1, QueueTail
  <2>2. LastWord(r, 1)
    BY <2>1 DEF NamesOnce, LastWord
  <2> QED
    BY <2>1, <2>2 DEF RecordInv, RecordFollows
<1>4. r \in GetAllRooms' <=> r \in GetAllRooms
    BY DEF managerVars, GetAllRooms
<1>5. CASE Disconnects(commands, r) \/ Disconnects(replies, r)
    BY <1>2, <1>5
<1>6. CASE SettledRoom(r)
    BY <1>2, <1>3, <1>4, <1>6 DEF SettledRoom
<1> QED
    BY <1>5, <1>6 DEF SettledInv

(* While a disconnect is on its way its channels are exempt.               *)
LEMMA DisconnectSettles ==
    ASSUME RecordInv, SettledInv, Disconnect
    PROVE  SettledInv'
<1> DEFINE b == [op |-> "disconnect", rooms |-> subscribedChannels]
<1> SUFFICES ASSUME closing' # "closed", NEW r \in Room, r \notin raced
             PROVE  Disconnects(commands', r) \/ Disconnects(replies', r) \/ SettledRoom(r)'
    BY DEF SettledInv, Disconnect
<1>1. /\ commands' = Append(commands, b) /\ closing # "closed"
      /\ commands \in Seq(Batch) /\ b \in Batch
    BY DEF Disconnect, Send, RecordInv, BatchesOK, Batch
<1>2. r \in GetAllRooms' <=> r \in GetAllRooms
    BY DEF Disconnect, managerVars, GetAllRooms
<1>3. CASE r \in subscribedChannels
    BY <1>1, <1>3, NamesAppend
<1>4. CASE r \notin subscribedChannels
  <2>1. /\ Names(commands', r) <=> Names(commands, r)
        /\ NamesOnce(commands, r) => NamesOnce(commands', r)
        /\ OnlySubscribes(commands, r) => OnlySubscribes(commands', r)
        /\ NeverSubscribes(commands, r) => NeverSubscribes(commands', r)
        /\ Disconnects(commands', r) <=> Disconnects(commands, r)
    BY <1>1, <1>4, NamesAppend
  <2> QED
    BY <1>1, <1>2, <2>1 DEF SettledInv, SettledRoom, Disconnect
<1> QED
    BY <1>3, <1>4

(* SettledInv is inductive relative to the invariants above.               *)
THEOREM SettledInvariant == Spec => []SettledInv
<1>1. Init => SettledInv
    BY DEF Init, InitManager, SettledInv, SettledRoom, Names, NamesOnce,
           OnlySubscribes, NeverSubscribes, GetAllRooms
<1>2. RecordInv /\ ManagerInv /\ SettledInv /\ [Next]_vars => SettledInv'
  <2> SUFFICES ASSUME RecordInv, ManagerInv, SettledInv, [Next]_vars
               PROVE  SettledInv'
    OBVIOUS
  <2>1. ASSUME NEW c \in Connection, NEW rs \in SUBSET Room, JoinRooms(c, rs)
        PROVE  SettledInv'
    <3> DEFINE called == NewlyOccupied(c, rs)
    <3>1. called \in SUBSET Room /\ called \ subscribedChannels \in SUBSET called
      BY DEF NewlyOccupied
    <3>2. \A r \in Room : r \in GetAllRooms' <=>
              IF r \in called THEN TRUE ELSE r \in GetAllRooms
      BY <2>1 DEF JoinRooms, Join, NewlyOccupied, GetAllRooms, GetConnectionsInRoom,
                  ManagerInv, NoEmptySets
    <3> HIDE DEF called
    <3>3. Send("subscribe", called \ subscribedChannels) /\ Track(called)
      BY <2>1 DEF JoinRooms, Subscribe, called
    <3> QED
      BY <2>1, <3>1, <3>2, <3>3, CallSettles DEF JoinRooms
  <2>2. ASSUME NEW c \in Connection, NEW rs, LeaveRooms(c, rs)
        PROVE  SettledInv'
    <3> DEFINE called == NewlyEmpty(c, rs)
    <3>1. called \in SUBSET Room /\ called \cap subscribedChannels \in SUBSET called
      BY DEF NewlyEmpty, ManagerInv, ManagerTypeOK
    <3>2. \A r \in Room : r \in GetAllRooms' <=>
              IF r \in called THEN FALSE ELSE r \in GetAllRooms
      BY <2>2 DEF LeaveRooms, Leave, GetAllRooms
    <3> HIDE DEF called
    <3>3. Send("unsubscribe", called \cap subscribedChannels) /\ Track(called)
      BY <2>2 DEF LeaveRooms, Unsubscribe, called
    <3> QED
      BY <2>2, <3>1, <3>2, <3>3, CallSettles DEF LeaveRooms
  <2>3. ASSUME NEW c \in Connection, LeaveAllRooms(c)
        PROVE  SettledInv'
    BY <2>2, <2>3 DEF LeaveAllRooms
  <2>4. CASE Disconnect
    BY <2>4, DisconnectSettles
  <2>5. CASE Execute
    BY <2>5, ExecuteSettles
  <2>6. CASE Reject
    BY <2>6, RejectSettles
  <2>7. CASE Subscribed
    BY <2>7, ReplySettles DEF Subscribed, IsDisconnect
  <2>8. CASE Unsubscribed
    BY <2>8, ReplySettles DEF Unsubscribed, IsDisconnect
  <2>9. CASE Disconnected
    BY <2>9 DEF Disconnected, SettledInv
  <2>10. CASE UNCHANGED vars
    BY <2>10 DEF vars, adapterVars, managerVars, SettledInv, SettledRoom, GetAllRooms
  <2> QED
    BY <2>1, <2>2, <2>3, <2>4, <2>5, <2>6, <2>7, <2>8, <2>9, <2>10 DEF Next
<1> QED
    BY <1>1, <1>2, RecordInvariant, NodeKeepsManager, ManagerInvariant, PTL DEF Spec

(* A room whose last call met no other and was not rejected is subscribed  *)
(* to exactly when it is occupied, once nothing is on its way, however     *)
(* long the history of races before that call.                             *)
THEOREM SettledRoomsAreRight == Spec => []SettledUnlessRaced
<1>1. OneDisconnect /\ SettledInv => SettledUnlessRaced
  <2> SUFFICES ASSUME OneDisconnect, SettledInv, closing = "open",
                      NEW r \in Room \ (InFlight \cup raced)
               PROVE  r \in redisSubs <=> r \in GetAllRooms
    BY DEF SettledUnlessRaced
  <2>1. ~Names(commands, r) /\ ~Names(replies, r)
    BY DEF InFlight, Named, Names
  <2> QED
    BY <2>1 DEF SettledInv, SettledRoom, Names, Disconnects
<1>2. RecordInv => OneDisconnect
    BY DEF RecordInv
<1> QED
    BY <1>1, <1>2, RecordInvariant, SettledInvariant, PTL
=============================================================================
