---------------------------- MODULE SSESessionSpy ----------------------------
(***************************************************************************)
(* The connection spy of a controller in test mode, lib/sse/               *)
(* SSESessionSpy.ts.  The controller reports each connection and           *)
(* disconnection once; tests wait for them, with a timeout, before or      *)
(* after they happen, and may clear the spy while sessions are open.       *)
(* A waiter is a call that returned a promise; its predicate is the set of *)
(* the connections it accepts.  Every method is synchronous; timers fire   *)
(* between methods.                                                        *)
(***************************************************************************)
EXTENDS Naturals, Sequences, SequencesExt

CONSTANTS
    Connection,   \* ids of the sessions, each used once
    Waiter,       \* calls of waitForConnection
    CloseWaiter   \* calls of waitForDisconnection

\* a promise is settled with a session or with one of these words, and each
\* waiter is a call of one method
ASSUME ConnectionAssumption ==
    /\ Connection \cap {"unused", "waiting", "resolved", "timeout", "cleared"} = {}
    /\ Waiter \cap CloseWaiter = {}

VARIABLES
    session,               \* the controller's: "new", "open", "closed"
    events,                \* SSESessionSpy.events
    activeConnections,
    claimedConnections,
    connectionWaiters,     \* waiters in the order they came
    disconnectionWaiters,  \* their order shows nowhere
    timers,                \* the waiters whose timeout is scheduled
    wants,                 \* waiter -> connections it accepts
    outcome                \* waiter -> its promise

spyVars == <<events, activeConnections, claimedConnections, connectionWaiters,
             disconnectionWaiters>>
vars == <<session, spyVars, timers, wants, outcome>>

AnyWaiter == Waiter \cup CloseWaiter
Unsettled == {"unused", "waiting"}
Settled == {"resolved", "timeout", "cleared"}

Event(type, c) == [type |-> type, connectionId |-> c]

-----------------------------------------------------------------------------
Init ==
    /\ session = [c \in Connection |-> "new"]
    /\ events = << >>
    /\ activeConnections = {}
    /\ claimedConnections = {}
    /\ connectionWaiters = << >>
    /\ disconnectionWaiters = {}
    /\ timers = {}
    /\ wants = [w \in AnyWaiter |-> {}]
    /\ outcome = [w \in AnyWaiter |-> "unused"]

-----------------------------------------------------------------------------
(* What the controller reports                                             *)

\* deviation: the connection a waiter takes is not claimed
AddConnectionUnclaimed(c) ==
    LET takers == {i \in DOMAIN connectionWaiters : c \in wants[connectionWaiters[i]]}
    IN  /\ session[c] = "new"
        /\ session' = [session EXCEPT ![c] = "open"]
        /\ events' = Append(events, Event("connect", c))
        /\ activeConnections' = activeConnections \cup {c}
        /\ IF takers = {}
           THEN UNCHANGED <<connectionWaiters, timers, outcome>>
           ELSE LET i == CHOOSE i \in takers : \A j \in takers : i <= j
                    w == connectionWaiters[i]
                IN  /\ connectionWaiters' = RemoveAt(connectionWaiters, i)
                    /\ timers' = timers \ {w}
                    /\ outcome' = [outcome EXCEPT ![w] = c]
        /\ UNCHANGED <<claimedConnections, disconnectionWaiters, wants>>

\* the first waiter whose predicate accepts the connection takes it
AddConnection(c) ==
    LET takers == {i \in DOMAIN connectionWaiters : c \in wants[connectionWaiters[i]]}
    IN  /\ session[c] = "new"
        /\ session' = [session EXCEPT ![c] = "open"]
        /\ events' = Append(events, Event("connect", c))
        /\ activeConnections' = activeConnections \cup {c}
        /\ IF takers = {}
           THEN UNCHANGED <<claimedConnections, connectionWaiters, timers, outcome>>
           ELSE LET i == CHOOSE i \in takers : \A j \in takers : i <= j
                    w == connectionWaiters[i]
                IN  /\ connectionWaiters' = RemoveAt(connectionWaiters, i)
                    /\ timers' = timers \ {w}
                    /\ claimedConnections' = claimedConnections \cup {c}
                    /\ outcome' = [outcome EXCEPT ![w] = c]
        /\ UNCHANGED <<disconnectionWaiters, wants>>

Watching(c) == {w \in disconnectionWaiters : wants[w] = {c}}

\* the waiters one disconnection settles
Leaving(c, ws) ==
    /\ session[c] = "open"
    /\ session' = [session EXCEPT ![c] = "closed"]
    /\ events' = Append(events, Event("disconnect", c))
    /\ activeConnections' = activeConnections \ {c}
    /\ outcome' = [w \in AnyWaiter |-> IF w \in ws THEN "resolved" ELSE outcome[w]]
    /\ disconnectionWaiters' = disconnectionWaiters \ ws
    /\ UNCHANGED <<claimedConnections, connectionWaiters, wants>>

\* every waiter for the connection
AddDisconnection(c) == Leaving(c, Watching(c)) /\ timers' = timers \ Watching(c)

-----------------------------------------------------------------------------
(* What tests call                                                         *)

Connects == {i \in DOMAIN events : events[i].type = "connect"}

\* waitForConnection with the candidates a lookup finds, by event: the first
\* is claimed, without any a waiter is queued
Claim(w, predicate, candidates) ==
    /\ outcome[w] = "unused"
    /\ wants' = [wants EXCEPT ![w] = predicate]
    /\ IF candidates # {}
       THEN LET i == CHOOSE i \in candidates : \A j \in candidates : i <= j
                c == events[i].connectionId
            IN  /\ claimedConnections' = claimedConnections \cup {c}
                /\ outcome' = [outcome EXCEPT ![w] = c]
                /\ UNCHANGED <<connectionWaiters, timers>>
       ELSE /\ connectionWaiters' = Append(connectionWaiters, w)
            /\ timers' = timers \cup {w}
            /\ outcome' = [outcome EXCEPT ![w] = "waiting"]
            /\ UNCHANGED claimedConnections
    /\ UNCHANGED <<session, events, activeConnections, disconnectionWaiters>>

\* deviation: what happened before the call is not looked at
WaitForConnectionAhead(w, predicate) == Claim(w, predicate, {})

\* deviation: a connection that is gone will do
WaitForConnectionGone(w, predicate) ==
    Claim(w, predicate, {i \in Connects :
        events[i].connectionId \in predicate \ claimedConnections})

WaitForConnection(w, predicate) ==
    Claim(w, predicate, {i \in Connects :
        events[i].connectionId \in
            (predicate \cap activeConnections) \ claimedConnections})

WaitForDisconnection(w, c) ==
    /\ outcome[w] = "unused"
    /\ wants' = [wants EXCEPT ![w] = {c}]
    /\ IF Event("disconnect", c) \in ToSet(events)
       THEN /\ outcome' = [outcome EXCEPT ![w] = "resolved"]
            /\ UNCHANGED <<disconnectionWaiters, timers>>
       ELSE /\ outcome' = [outcome EXCEPT ![w] = "waiting"]
            /\ disconnectionWaiters' = disconnectionWaiters \cup {w}
            /\ timers' = timers \cup {w}
    /\ UNCHANGED <<session, events, activeConnections, claimedConnections,
                   connectionWaiters>>

PlaceOf(w) == {i \in DOMAIN connectionWaiters : connectionWaiters[i] = w}

\* a timer fires; rejecting a promise that has settled changes nothing
Timeout(w) ==
    /\ w \in timers
    /\ timers' = timers \ {w}
    /\ connectionWaiters' = IF PlaceOf(w) = {} THEN connectionWaiters
                            ELSE RemoveAt(connectionWaiters, CHOOSE i \in PlaceOf(w) : TRUE)
    /\ disconnectionWaiters' = disconnectionWaiters \ {w}
    /\ outcome' = [outcome EXCEPT ![w] = IF @ = "waiting" THEN "timeout" ELSE @]
    /\ UNCHANGED <<session, events, activeConnections, claimedConnections, wants>>

Queued == ToSet(connectionWaiters) \cup disconnectionWaiters

Forget ==
    /\ events' = << >>
    /\ activeConnections' = {}
    /\ claimedConnections' = {}
    /\ connectionWaiters' = << >>
    /\ disconnectionWaiters' = {}
    /\ timers' = timers \ Queued
    /\ UNCHANGED <<session, wants>>

\* deviation: the waiters are dropped, their promises stay pending
ClearSilently == Forget /\ UNCHANGED outcome

Clear ==
    /\ Forget
    /\ outcome' = [w \in AnyWaiter |-> IF w \in Queued THEN "cleared" ELSE outcome[w]]

-----------------------------------------------------------------------------
Next ==
    \/ \E c \in Connection : AddConnection(c)
    \/ \E c \in Connection : AddDisconnection(c)
    \/ \E w \in Waiter, p \in SUBSET Connection : WaitForConnection(w, p)
    \/ \E w \in CloseWaiter, c \in Connection : WaitForDisconnection(w, c)
    \/ \E w \in AnyWaiter : Timeout(w)
    \/ Clear

Spec == Init /\ [][Next]_vars

\* timers fire
FairSpec == Spec /\ \A w \in AnyWaiter : WF_vars(Timeout(w))

-----------------------------------------------------------------------------
\* "Each call returns a unique unclaimed session" (README.md:1580): no two
\* calls of waitForConnection return the same one, before and after a clear.
UniqueSessions ==
    \A c \in Connection, v, w \in Waiter : outcome[v] = c /\ outcome[w] = c => v = w

\* No call waits for what is there: every session it accepts that the spy
\* knows as active was given to another call, the disconnection it is about is
\* not on record, and the calls that wait, no others, are queued and hold a
\* timer (one left behind would keep the test process alive).
NobodyOverlooked ==
    LET waiting == {w \in AnyWaiter : outcome[w] = "waiting"}
    IN  /\ timers = waiting /\ Queued = waiting
        /\ \A w \in waiting \cap Waiter :
              wants[w] \cap activeConnections \subseteq claimedConnections
        /\ \A w \in waiting \cap CloseWaiter, c \in Connection :
              wants[w] = {c} => Event("disconnect", c) \notin ToSet(events)

\* The sessions a call returns are active at that moment.
ActiveWhenReturned ==
    [][\A w \in Waiter : outcome'[w] \in Connection /\ outcome[w] # outcome'[w] =>
          outcome'[w] \in activeConnections']_vars

\* Every call that waits is settled: by its event, its timeout or a clear.
PromisesSettle ==
    \A w \in AnyWaiter : outcome[w] = "waiting" ~> outcome[w] \in Settled \cup Connection

TypeOK ==
    /\ session \in [Connection -> {"new", "open", "closed"}]
    /\ events \in Seq([type : {"connect", "disconnect"}, connectionId : Connection])
    /\ activeConnections \in SUBSET Connection
    /\ claimedConnections \in SUBSET Connection
    /\ connectionWaiters \in Seq(Waiter) /\ IsInjective(connectionWaiters)
    /\ disconnectionWaiters \in SUBSET CloseWaiter
    /\ timers \in SUBSET AnyWaiter
    /\ wants \in [AnyWaiter -> SUBSET Connection]
    /\ outcome = [w \in AnyWaiter |-> outcome[w]]
    /\ \A w \in Waiter : outcome[w] \in Unsettled \cup Connection \cup (Settled \ {"resolved"})
    /\ \A w \in CloseWaiter : outcome[w] \in Unsettled \cup Settled
=============================================================================
