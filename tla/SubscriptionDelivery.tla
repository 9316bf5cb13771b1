------------------------ MODULE SubscriptionDelivery ------------------------
(***************************************************************************)
(* What the subscription manager lets through:                             *)
(* lib/sse/subscriptions/SSESubscriptionManager.ts, publish and the filter *)
(* shouldDeliver it gives to the broadcaster, beside everything of         *)
(* SSESubscriptions.  A message has an audience, a snapshot of who is in   *)
(* the rooms; its members have their turns one after the other, and at a   *)
(* turn the resolvers are awaited on the context read when it began, while *)
(* a refresh may replace that context or the session may close.  Turns do  *)
(* not touch each other, so one member stands for all: whoever it is, its  *)
(* turn comes at any later time.  Bound: the other connections come after  *)
(* it; their steps and its own do not touch each other either.             *)
(***************************************************************************)
EXTENDS SSESubscriptions

CONSTANTS
    Message,        \* bound: one message at a time is being delivered
    Verdict,        \* what the resolvers say, in order, by message and user
    DefaultPolicy,  \* when all defer
    Nobody          \* no user, of a connection the manager does not know, and
                    \* no connection

ASSUME VerdictAssumption ==
    /\ Verdict \in [Message -> [User -> Seq({"allow", "deny", "defer", "throw"})]]
    /\ DefaultPolicy \in {"allow", "deny"}
    /\ Nobody \notin User /\ Nobody \notin Connection
    /\ "none" \notin Message

VARIABLES
    message,  \* the one that is being delivered, or "none"
    waiting,  \* the member of its audience whose turn is still to come
    turn      \* of that member: the user of the context that is evaluated, how
              \* far that is and what came of it, and (history) the users it
              \* has been meanwhile

deliveryVars == <<message, waiting, turn>>
allVars == <<vars, deliveryVars>>

NoTurn == [is |-> "none"]
UserOf(c) == IF c \in DOMAIN connectionStates THEN connectionStates[c].user ELSE Nobody

InitDelivery == Init /\ message = "none" /\ waiting = Nobody /\ turn = NoTurn

-----------------------------------------------------------------------------
Alone(c) == \A d \in Connection \ {c} : phase[d] = "new"

Members(rooms) == UNION {GetConnectionsInRoom(r) : r \in rooms}

\* publish({targetRooms: rooms}), here or as it arrives from another node
Publish(m, rooms) ==
    /\ message = "none"
    /\ message' = m
    /\ \E c \in Members(rooms) : Alone(c) /\ waiting' = c
    /\ UNCHANGED <<vars, turn>>

\* without targetRooms: to the rooms of all the managed connections
PublishToAllConnections(m) ==
    Publish(m, UNION {connectionStates[c].rooms : c \in DOMAIN connectionStates})

\* deviation: a resolver that throws has no say
HearSkippingErrors(t, verdict) ==
    [t EXCEPT !.is = IF verdict = "deny" THEN "denied" ELSE @,
              !.asked = @ + 1,
              !.hasAllow = @ \/ verdict = "allow"]

\* a resolver answers: the first that denies or throws ends the pipeline
Hear(t, verdict) ==
    [t EXCEPT !.is = IF verdict \in {"deny", "throw"} THEN "denied" ELSE @,
              !.asked = @ + 1,
              !.hasAllow = @ \/ verdict = "allow"]

\* evaluatePipeline goes on with turn t: when all have been heard it decides
EvaluatePipeline(t) ==
    IF t.is = "asked" /\ t.asked = Len(Verdict[message][t.user])
    THEN [t EXCEPT !.is = IF t.hasAllow \/ DefaultPolicy = "allow"
                          THEN "allowed" ELSE "denied"]
    ELSE t

\* shouldDeliver, up to its first await: who is not known gets everything
ShouldDeliver(c) ==
    /\ c = waiting
    /\ waiting' = Nobody
    /\ LET t == [is |-> IF UserOf(c) = Nobody THEN "allowed" ELSE "asked",
                 conn |-> c, user |-> UserOf(c), had |-> {UserOf(c)},
                 asked |-> 0, hasAllow |-> FALSE]
       IN  turn' = EvaluatePipeline(t)
    /\ UNCHANGED <<vars, message>>

Evaluate ==
    /\ turn.is = "asked"
    /\ turn' = EvaluatePipeline(
                  Hear(turn, Verdict[message][turn.user][turn.asked + 1]))
    /\ UNCHANGED <<vars, message, waiting>>

\* it is sent or counted as filtered
TurnEnds ==
    /\ turn.is \in {"allowed", "denied"}
    /\ turn' = NoTurn
    /\ message' = "none"
    /\ UNCHANGED <<vars, waiting>>

\* the rest of the program goes on during a turn
Meanwhile ==
    /\ Next
    /\ message = "none" \/ (\E c \in Connection : phase[c] # "new" /\ Alone(c)')
    /\ IF turn.is = "asked"
       THEN \E c \in {turn.conn} : turn' = [turn EXCEPT !.had = @ \cup {UserOf(c)'}]
       ELSE UNCHANGED turn
    /\ UNCHANGED <<message, waiting>>

NextDelivery ==
    \/ Meanwhile
    \/ \E m \in Message, rooms \in SUBSET Room : Publish(m, rooms)
    \/ \E m \in Message : PublishToAllConnections(m)
    \/ \E c \in Connection : ShouldDeliver(c)
    \/ Evaluate
    \/ TurnEnds

DeliverySpec == InitDelivery /\ [][NextDelivery]_allVars

-----------------------------------------------------------------------------
Permitted(u) ==
    LET said == Range(Verdict[message][u])
    IN  /\ said \cap {"deny", "throw"} = {}
        /\ "allow" \in said \/ DefaultPolicy = "allow"

\* A message goes to a connection only as a user that the resolvers permit,
\* or as one the manager does not know, and is kept from it only as a user
\* they do not permit, and each time as a user it has been during its own
\* turn: whatever was refreshed or closed since the message was published or
\* while the resolvers were asked (SSESubscriptionManager.ts:177).
DeliveredToThePermitted ==
    /\ turn.is = "allowed" => \E u \in turn.had : u = Nobody \/ Permitted(u)
    /\ turn.is = "denied"  => \E u \in turn.had \ {Nobody} : ~Permitted(u)
=============================================================================
