------------------------- MODULE SSESessionSpyProofs -------------------------
(***************************************************************************)
(* Proofs about the connection spy, for any number of sessions and calls.  *)
(***************************************************************************)
EXTENDS SSESessionSpy, FiniteSetTheorems, SequenceTheorems, TLAPS

\* A session is given out at most once, because from then on it is claimed or
\* the spy has forgotten it, which claims alone do not say after a clear.
Events == Seq([type : {"connect", "disconnect"}, connectionId : Connection])

UniqueInv ==
    /\ events \in Events
    /\ session \in [Connection -> {"new", "open", "closed"}]
    /\ DOMAIN outcome = AnyWaiter
    /\ activeConnections \subseteq Connection
    /\ \A c \in activeConnections : session[c] = "open"
    /\ \A w \in AnyWaiter, c \in Connection :
          outcome[w] = c => session[c] # "new" /\ c \notin activeConnections \ claimedConnections
    /\ \A v, w \in AnyWaiter, c \in Connection :
          outcome[v] = c /\ outcome[w] = c => v = w

(* Of some indexes of a sequence one is the first: the sets 1 .. i, of     *)
(* which strict inclusion is well-founded, stand for them.                 *)
LEMMA FirstExists ==
    ASSUME NEW n \in Nat, NEW I \in SUBSET (1 .. n), I # {}
    PROVE  \E i \in I : \A j \in I : i <= j
<1> DEFINE T == {1 .. i : i \in I}
<1>1. T \subseteq FiniteSubsetsOf(Nat) /\ T # {}
  <2>1. \A i \in I : 1 .. i \in SUBSET Nat /\ IsFiniteSet(1 .. i)
    BY FS_Interval
  <2> QED
    BY <2>1 DEF FiniteSubsetsOf
<1>2. PICK x \in T : \A y \in T : <<y, x>> \notin StrictSubsetOrdering(Nat)
    BY <1>1, FS_StrictSubsetOrderingWellFounded, WFMin
<1>3. PICK i \in I : x = 1 .. i
    OBVIOUS
<1>4. ASSUME NEW j \in I, j < i
      PROVE  FALSE
  <2>1. 1 .. j \subseteq 1 .. i /\ i \in 1 .. i /\ i \notin 1 .. j
    BY <1>4
  <2>2. <<1 .. j, 1 .. i>> \in StrictSubsetOrdering(Nat)
    BY <2>1 DEF StrictSubsetOrdering
  <2> QED
    BY <1>2, <1>3, <2>2
<1> QED
    BY <1>4

(* No connection is one of the words.                                      *)
LEMMA WordsAreNoSessions ==
    \A c \in Connection : c \notin {"unused", "waiting", "resolved", "timeout", "cleared"}
BY ConnectionAssumption

(* A call that is given a session nobody was given yet, and which is then  *)
(* claimed, keeps the sessions unique.                                     *)
LEMMA GivenOnce ==
    ASSUME UniqueInv, NEW w \in AnyWaiter, NEW c \in Connection,
           \A v \in AnyWaiter : outcome[v] # c,
           outcome' = [outcome EXCEPT ![w] = c],
           events' \in Events,
           session' \in [Connection -> {"new", "open", "closed"}],
           session'[c] = "open",
           \A k \in Connection \ {c} : session'[k] = session[k],
           activeConnections' = activeConnections \cup {c},
           claimedConnections' = claimedConnections \cup {c}
    PROVE  UniqueInv'
BY DEF UniqueInv

(* A step that hands nothing out, whatever else it settles or forgets.     *)
LEMMA NothingGiven ==
    ASSUME UniqueInv,
           events' \in Events,
           session' \in [Connection -> {"new", "open", "closed"}],
           \A c \in Connection : session[c] # "new" => session'[c] # "new",
           activeConnections' \subseteq Connection,
           \A c \in activeConnections' : session'[c] = "open",
           \A c \in Connection : session[c] # "new" /\ c \in activeConnections' \ claimedConnections'
                => c \in activeConnections \ claimedConnections,
           DOMAIN outcome' = AnyWaiter,
           \A w \in AnyWaiter : outcome'[w] \in {outcome[w], "waiting", "resolved",
                                                 "timeout", "cleared"}
    PROVE  UniqueInv'
BY WordsAreNoSessions DEF UniqueInv

(* UniqueInv is inductive.                                                 *)
THEOREM UniqueInvariant == Spec => []UniqueInv
<1>1. Init => UniqueInv
    BY WordsAreNoSessions DEF Init, UniqueInv, Events
<1>2. UniqueInv /\ [Next]_vars => UniqueInv'
  <2> SUFFICES ASSUME UniqueInv, [Next]_vars
               PROVE  UniqueInv'
    OBVIOUS
  <2>1. ASSUME NEW c \in Connection, AddConnection(c)
        PROVE  UniqueInv'
    <3> DEFINE takers == {i \in DOMAIN connectionWaiters :
                             c \in wants[connectionWaiters[i]]}
    <3>1. /\ session[c] = "new" /\ session' = [session EXCEPT ![c] = "open"]
          /\ activeConnections' = activeConnections \cup {c}
          /\ events' \in Events
      BY <2>1 DEF AddConnection, UniqueInv, Events, Event
    <3>2. CASE takers = {}
      <4>1. UNCHANGED <<claimedConnections, outcome>>
        BY <2>1, <3>2 DEF AddConnection
      <4> QED
        BY <3>1, <4>1, NothingGiven DEF UniqueInv
    <3>3. CASE takers # {}
      <4>1. PICK w : /\ outcome' = [outcome EXCEPT ![w] = c]
                     /\ claimedConnections' = claimedConnections \cup {c}
        BY <2>1, <3>3 DEF AddConnection
      <4>2. CASE w \in AnyWaiter
        <5>1. \A v \in AnyWaiter : outcome[v] # c
          BY <3>1 DEF UniqueInv
        <5>2. /\ session' \in [Connection -> {"new", "open", "closed"}]
              /\ session'[c] = "open"
              /\ \A k \in Connection \ {c} : session'[k] = session[k]
          BY <3>1 DEF UniqueInv
        <5> QED
          BY <2>1, <3>1, <4>1, <4>2, <5>1, <5>2, GivenOnce
      <4>3. CASE w \notin AnyWaiter
        <5>1. DOMAIN outcome' = AnyWaiter /\ \A v \in AnyWaiter : outcome'[v] = outcome[v]
          BY <4>1, <4>3 DEF UniqueInv
        <5> QED
          BY <3>1, <4>1, <5>1, NothingGiven DEF UniqueInv
      <4> QED
        BY <4>2, <4>3
    <3> QED
      BY <3>2, <3>3
  <2>2. ASSUME NEW c \in Connection, AddDisconnection(c)
        PROVE  UniqueInv'
    <3>1. /\ session[c] = "open" /\ session' = [session EXCEPT ![c] = "closed"]
          /\ activeConnections' = activeConnections \ {c}
          /\ UNCHANGED claimedConnections
          /\ outcome' = [w \in AnyWaiter |-> IF w \in Watching(c) THEN "resolved"
                                                                  ELSE outcome[w]]
          /\ events' \in Events
      BY <2>2 DEF AddDisconnection, Leaving, UniqueInv, Events, Event
    <3> QED
      BY <3>1, NothingGiven DEF UniqueInv
  <2>3. ASSUME NEW w \in Waiter, NEW p \in SUBSET Connection, WaitForConnection(w, p)
        PROVE  UniqueInv'
    <3> DEFINE candidates == {i \in Connects : events[i].connectionId \in
                                 (p \cap activeConnections) \ claimedConnections}
    <3>1. UNCHANGED <<session, activeConnections, events>>
      BY <2>3 DEF WaitForConnection, Claim
    <3>2. CASE candidates = {}
      <4>1. /\ outcome' = [outcome EXCEPT ![w] = "waiting"]
            /\ UNCHANGED claimedConnections
        BY <2>3, <3>2 DEF WaitForConnection, Claim
      <4> QED
        BY <3>1, <4>1, NothingGiven DEF UniqueInv
    <3>3. CASE candidates # {}
      <4> DEFINE first == CHOOSE i \in candidates : \A j \in candidates : i <= j
                 c == events[first].connectionId
      <4>1. /\ outcome' = [outcome EXCEPT ![w] = c]
            /\ claimedConnections' = claimedConnections \cup {c}
        BY <2>3, <3>3 DEF WaitForConnection, Claim
      <4>2. first \in candidates
        <5>1. candidates \in SUBSET (1 .. Len(events)) /\ Len(events) \in Nat
          BY DEF Connects, UniqueInv, Events
        <5> HIDE DEF candidates
        <5> QED
          BY <3>3, <5>1, FirstExists
      <4>3. c \in activeConnections \ claimedConnections
        BY <4>2
      <4> HIDE DEF c
      <4> QED
        BY <3>1, <4>1, <4>3, GivenOnce DEF UniqueInv, AnyWaiter
    <3> QED
      BY <3>2, <3>3
  <2>4. ASSUME NEW w \in CloseWaiter, NEW c \in Connection, WaitForDisconnection(w, c)
        PROVE  UniqueInv'
    BY <2>4, NothingGiven DEF WaitForDisconnection, UniqueInv
  <2>5. ASSUME NEW w \in AnyWaiter, Timeout(w)
        PROVE  UniqueInv'
    BY <2>5, NothingGiven DEF Timeout, UniqueInv
  <2>6. CASE Clear
    <3>1. activeConnections' = {} /\ UNCHANGED session
      BY <2>6 DEF Clear, Forget
    <3>3. events' \in Events
      BY <2>6 DEF Clear, Forget, Events
    <3>2. outcome' = [w \in AnyWaiter |-> IF w \in Queued THEN "cleared" ELSE outcome[w]]
      BY <2>6 DEF Clear
    <3> QED
      BY <3>1, <3>2, <3>3, NothingGiven DEF UniqueInv
  <2>7. CASE UNCHANGED vars
    BY <2>7 DEF vars, spyVars, UniqueInv
  <2> QED
    BY <2>1, <2>2, <2>3, <2>4, <2>5, <2>6, <2>7 DEF Next
<1> QED
    BY <1>1, <1>2, PTL DEF Spec

(* No two calls of waitForConnection return the same session, however      *)
(* waits, connections, timeouts and clears interleave.                     *)
THEOREM SessionsAreUnique == Spec => []UniqueSessions
<1>1. UniqueInv => UniqueSessions
    BY DEF UniqueInv, UniqueSessions, AnyWaiter
<1> QED
    BY <1>1, UniqueInvariant, PTL

(* A call is only ever given a session that is open and known at that      *)
(* moment, whether the session or the call came first.                     *)
THEOREM GivenWhileActive == Spec => ActiveWhenReturned
<1> DEFINE Given == \A w \in Waiter :
                        outcome'[w] \in Connection /\ outcome[w] # outcome'[w]
                            => outcome'[w] \in activeConnections'
<1>1. UniqueInv /\ [Next]_vars => [Given]_vars
  <2> SUFFICES ASSUME UniqueInv, [Next]_vars, NEW w \in Waiter,
                      outcome'[w] \in Connection, outcome[w] # outcome'[w]
               PROVE  outcome'[w] \in activeConnections'
    OBVIOUS
  <2>1. ASSUME outcome'[w] \in {outcome[w], "waiting", "resolved", "timeout", "cleared"}
        PROVE  FALSE
    BY <2>1, WordsAreNoSessions
  <2>2. ASSUME NEW c \in Connection, AddConnection(c)
        PROVE  outcome'[w] \in activeConnections'
    <3>1. activeConnections' = activeConnections \cup {c}
      BY <2>2 DEF AddConnection
    <3>2. outcome' = outcome \/ \E v : outcome' = [outcome EXCEPT ![v] = c]
      BY <2>2 DEF AddConnection
    <3>3. outcome'[w] \in {outcome[w], c}
      BY <3>2 DEF UniqueInv, AnyWaiter
    <3> QED
      BY <2>1, <3>1, <3>3
  <2>3. ASSUME NEW v \in Waiter, NEW p \in SUBSET Connection, WaitForConnection(v, p)
        PROVE  outcome'[w] \in activeConnections'
    <3> DEFINE candidates == {i \in Connects : events[i].connectionId \in
                                 (p \cap activeConnections) \ claimedConnections}
               first == CHOOSE i \in candidates : \A j \in candidates : i <= j
    <3>1. UNCHANGED activeConnections
      BY <2>3 DEF WaitForConnection, Claim
    <3>2. CASE candidates = {}
      <4>1. outcome' = [outcome EXCEPT ![v] = "waiting"]
        BY <2>3, <3>2 DEF WaitForConnection, Claim
      <4> QED
        BY <2>1, <4>1 DEF UniqueInv, AnyWaiter
    <3>3. CASE candidates # {}
      <4>1. outcome' = [outcome EXCEPT ![v] = events[first].connectionId]
        BY <2>3, <3>3 DEF WaitForConnection, Claim
      <4>2. first \in candidates
        <5>1. candidates \in SUBSET (1 .. Len(events)) /\ Len(events) \in Nat
          BY DEF Connects, UniqueInv, Events
        <5> HIDE DEF candidates
        <5> QED
          BY <3>3, <5>1, FirstExists
      <4>3. events[first].connectionId \in activeConnections
        BY <4>2
      <4> HIDE DEF first
      <4> QED
        BY <2>1, <3>1, <4>1, <4>3 DEF UniqueInv, AnyWaiter
    <3> QED
      BY <3>2, <3>3
  <2>4. ASSUME NEW c \in Connection, AddDisconnection(c)
        PROVE  FALSE
    BY <2>1, <2>4 DEF AddDisconnection, Leaving, AnyWaiter
  <2>5. ASSUME NEW v \in CloseWaiter, NEW c \in Connection, WaitForDisconnection(v, c)
        PROVE  FALSE
    BY <2>1, <2>5 DEF WaitForDisconnection, UniqueInv, AnyWaiter
  <2>6. ASSUME NEW v \in AnyWaiter, Timeout(v)
        PROVE  FALSE
    BY <2>1, <2>6 DEF Timeout, UniqueInv, AnyWaiter
  <2>7. CASE Clear
    BY <2>1, <2>7 DEF Clear, AnyWaiter
  <2>8. CASE UNCHANGED vars
    BY <2>1, <2>8 DEF vars
  <2> QED
    BY <2>2, <2>3, <2>4, <2>5, <2>6, <2>7, <2>8 DEF Next
<1> QED
  BY <1>1, UniqueInvariant, PTL DEF Spec, ActiveWhenReturned

-----------------------------------------------------------------------------
(* Nobody is overlooked.  Besides the types, the record must show every    *)
(* session the spy knows as active: a lookup reads the record only.        *)
ActiveOnRecord ==
    \A c \in activeConnections : Event("connect", c) \in ToSet(events)

\* the calls that wait, no others, are queued and hold a timer
WaitingHeld ==
    LET waiting == {w \in AnyWaiter : outcome[w] = "waiting"}
    IN  timers = waiting /\ Queued = waiting

\* what a waiting call accepts is gone, unknown or another call's
NothingMissed ==
    \A w \in Waiter : outcome[w] = "waiting" =>
        wants[w] \cap activeConnections \subseteq claimedConnections

\* the disconnection a call waits for is not on record
NoneOnRecord ==
    \A w \in CloseWaiter, c \in Connection : outcome[w] = "waiting" /\ wants[w] = {c} =>
        Event("disconnect", c) \notin ToSet(events)

AttentionInv ==
    TypeOK /\ ActiveOnRecord /\ WaitingHeld /\ NothingMissed /\ NoneOnRecord

(* What taking one place out of a queue leaves in it.                      *)
LEMMA Removed ==
    ASSUME NEW S, NEW s \in Seq(S), IsInjective(s), NEW i \in DOMAIN s
    PROVE  /\ RemoveAt(s, i) \in Seq(S)
           /\ IsInjective(RemoveAt(s, i))
           /\ ToSet(RemoveAt(s, i)) = ToSet(s) \ {s[i]}
<1> DEFINE t == RemoveAt(s, i)
           Old(j) == IF j < i THEN j ELSE j + 1
<1>1. Len(s) \in Nat /\ DOMAIN s = 1 .. Len(s) /\ i \in 1 .. Len(s)
    OBVIOUS
<1>2. t \in Seq(S) /\ Len(t) = Len(s) - 1 /\ \A j \in 1 .. Len(t) : t[j] = s[Old(j)]
  <2> DEFINE a == SubSeq(s, 1, i - 1)
             b == SubSeq(s, i + 1, Len(s))
  <2>1. a \in Seq(S) /\ Len(a) = i - 1 /\ \A j \in 1 .. i - 1 : a[j] = s[j]
    BY <1>1, SubSeqProperties
  <2>2. /\ b \in Seq(S) /\ Len(b) = Len(s) - i
        /\ \A j \in 1 .. Len(s) - i : b[j] = s[i + j]
    BY <1>1, SubSeqProperties
  <2> HIDE DEF a, b
  <2>3. /\ a \o b \in Seq(S) /\ Len(a \o b) = Len(a) + Len(b)
        /\ \A j \in 1 .. Len(a) + Len(b) :
              (a \o b)[j] = IF j <= Len(a) THEN a[j] ELSE b[j - Len(a)]
    BY <2>1, <2>2, ConcatProperties
  <2>4. t = a \o b
    BY DEF RemoveAt, a, b
  <2>5. ASSUME NEW j \in 1 .. Len(t)
        PROVE  t[j] = s[Old(j)]
    <3>1. j \in 1 .. (i - 1) + (Len(s) - i)
      BY <1>1, <2>1, <2>2, <2>3, <2>4
    <3>2. t[j] = IF j <= i - 1 THEN a[j] ELSE b[j - (i - 1)]
      BY <2>1, <2>2, <2>3, <2>4, <3>1
    <3>3. CASE j < i
      BY <1>1, <2>1, <3>1, <3>2, <3>3
    <3>4. CASE j >= i
      <4>1. j - (i - 1) \in 1 .. Len(s) - i /\ i + (j - (i - 1)) = j + 1
        BY <1>1, <3>1, <3>4
      <4>2. b[j - (i - 1)] = s[i + (j - (i - 1))]
        BY <2>2, <4>1
      <4> QED
        BY <1>1, <3>1, <3>2, <3>4, <4>1, <4>2
    <3> QED
      BY <1>1, <3>1, <3>3, <3>4
  <2>6. Len(t) = Len(s) - 1
    <3>1. Len(a) + Len(b) = Len(s) - 1
      BY <1>1, <2>1, <2>2
    <3>2. Len(t) = Len(a) + Len(b)
      BY ONLY <2>3, <2>4
    <3> QED
      BY <3>1, <3>2
  <2> QED
    BY <2>3, <2>4, <2>5, <2>6
<1> HIDE DEF t
<1>3. DOMAIN t = 1 .. Len(s) - 1
    BY <1>2
<1>4. \A j \in DOMAIN t : Old(j) \in DOMAIN s /\ Old(j) # i
    BY <1>1, <1>3
<1>5. \A j, k \in DOMAIN t : Old(j) = Old(k) => j = k
    BY <1>1, <1>3
<1>6. IsInjective(t)
    BY <1>2, <1>3, <1>4, <1>5 DEF IsInjective
<1>7. ToSet(t) \subseteq ToSet(s) \ {s[i]}
    BY <1>2, <1>3, <1>4 DEF ToSet, IsInjective
<1>8. ASSUME NEW k \in DOMAIN s, k # i
      PROVE  \E j \in DOMAIN t : t[j] = s[k]
  <2>1. CASE k < i
    BY <1>1, <1>2, <1>3, <2>1
  <2>2. CASE k > i
    <3>1. k - 1 \in DOMAIN t /\ Old(k - 1) = k
      BY <1>1, <1>3, <2>2
    <3> QED
      BY <1>2, <1>3, <3>1
  <2> QED
    BY <1>1, <1>8, <2>1, <2>2
<1>9. ToSet(s) \ {s[i]} \subseteq ToSet(t)
    BY <1>8 DEF ToSet
<1> QED
    BY <1>2, <1>6, <1>7, <1>9 DEF t

(* What putting a call that is in no queue at the end of one leaves.       *)
LEMMA Queueing ==
    ASSUME NEW S, NEW s \in Seq(S), IsInjective(s), NEW w \in S, w \notin ToSet(s)
    PROVE  /\ Append(s, w) \in Seq(S)
           /\ IsInjective(Append(s, w))
           /\ ToSet(Append(s, w)) = ToSet(s) \cup {w}
<1> DEFINE t == Append(s, w)
<1>1. Len(s) \in Nat /\ DOMAIN s = 1 .. Len(s) /\ DOMAIN t = 1 .. Len(s) + 1
    OBVIOUS
<1>2. t \in Seq(S) /\ t[Len(s) + 1] = w /\ \A j \in 1 .. Len(s) : t[j] = s[j]
    BY <1>1
<1> HIDE DEF t
<1>3. DOMAIN t = DOMAIN s \cup {Len(s) + 1}
    BY <1>1
<1> QED
    BY <1>1, <1>2, <1>3 DEF IsInjective, ToSet, t

(* A reported event joins those on record.                                 *)
LEMMA Recording ==
    ASSUME NEW s \in Events, NEW type \in {"connect", "disconnect"}, NEW c \in Connection
    PROVE  /\ Append(s, Event(type, c)) \in Events
           /\ ToSet(Append(s, Event(type, c))) = ToSet(s) \cup {Event(type, c)}
<1> DEFINE S == [type : {"connect", "disconnect"}, connectionId : Connection]
           e == Event(type, c)
           t == Append(s, e)
<1>0. e \in S /\ s \in Seq(S)
    BY DEF Event, Events
<1> HIDE DEF S, e
<1>1. Len(s) \in Nat /\ DOMAIN s = 1 .. Len(s) /\ DOMAIN t = 1 .. Len(s) + 1
    BY <1>0
<1>2. t \in Seq(S) /\ t[Len(s) + 1] = e /\ \A j \in 1 .. Len(s) : t[j] = s[j]
    BY <1>0, <1>1
<1> HIDE DEF t
<1>3. DOMAIN t = DOMAIN s \cup {Len(s) + 1}
    BY <1>1
<1> QED
    BY <1>1, <1>2, <1>3 DEF ToSet, t, S, e, Events

(* The types a step gives back: each variable the step changes is typed by *)
(* what the step says of it.                                               *)
LEMMA PromiseKept ==
    ASSUME TypeOK, NEW w \in AnyWaiter, NEW x,
           w \in Waiter => x \in Unsettled \cup Connection \cup (Settled \ {"resolved"}),
           w \in CloseWaiter => x \in Unsettled \cup Settled,
           outcome' = [outcome EXCEPT ![w] = x]
    PROVE  /\ outcome' = [v \in AnyWaiter |-> outcome'[v]]
           /\ \A v \in Waiter : outcome'[v] \in Unsettled \cup Connection \cup (Settled \ {"resolved"})
           /\ \A v \in CloseWaiter : outcome'[v] \in Unsettled \cup Settled
           /\ outcome'[w] = x
           /\ \A v \in AnyWaiter \ {w} : outcome'[v] = outcome[v]
<1>1. outcome = [v \in AnyWaiter |-> outcome[v]]
    BY DEF TypeOK
<1>2. /\ outcome' = [v \in AnyWaiter |-> outcome'[v]]
      /\ outcome'[w] = x
      /\ \A v \in AnyWaiter \ {w} : outcome'[v] = outcome[v]
    BY <1>1
<1> QED
    BY <1>2 DEF TypeOK, AnyWaiter

(* A connection goes to the first waiting call that accepts it.            *)
LEMMA AttentionAtAddConnection ==
    ASSUME AttentionInv, NEW c \in Connection, AddConnection(c)
    PROVE  AttentionInv'
<1> DEFINE takers == {i \in DOMAIN connectionWaiters : c \in wants[connectionWaiters[i]]}
<1> USE DEF AttentionInv
<1>1. /\ session' = [session EXCEPT ![c] = "open"]
      /\ events' = Append(events, Event("connect", c))
      /\ activeConnections' = activeConnections \cup {c}
      /\ UNCHANGED <<disconnectionWaiters, wants>>
    BY DEF AddConnection
<1>2. /\ events' \in Events
      /\ ToSet(events') = ToSet(events) \cup {Event("connect", c)}
  <2>1. events \in Events
    BY DEF TypeOK, Events
  <2> QED
    BY <1>1, <2>1, Recording
<1>3. ActiveOnRecord'
    BY <1>1, <1>2 DEF ActiveOnRecord
<1>4. NoneOnRecord' \/ \E w \in CloseWaiter : outcome'[w] # outcome[w] /\ outcome'[w] = "waiting"
    BY <1>1, <1>2 DEF NoneOnRecord, Event
<1>5. session' \in [Connection -> {"new", "open", "closed"}]
    BY <1>1 DEF TypeOK
<1>6. CASE takers = {}
  <2>1. UNCHANGED <<claimedConnections, connectionWaiters, timers, outcome>>
    BY <1>6 DEF AddConnection
  <2>2. \A w \in Waiter : outcome[w] = "waiting" => c \notin wants[w]
    <3>1. \A w \in Waiter : outcome[w] = "waiting" => w \in ToSet(connectionWaiters)
      BY ConnectionAssumption DEF WaitingHeld, Queued, AnyWaiter, TypeOK
    <3> QED
      BY <1>6, <3>1 DEF ToSet
  <2>3. NothingMissed'
    BY <1>1, <2>1, <2>2 DEF NothingMissed
  <2>4. WaitingHeld' /\ NoneOnRecord'
    BY <1>1, <1>4, <2>1 DEF WaitingHeld, Queued
  <2>5. TypeOK'
    BY <1>1, <1>2, <1>5, <2>1 DEF TypeOK, Events
  <2> QED
    BY <1>3, <2>3, <2>4, <2>5
<1>7. CASE takers # {}
  <2> DEFINE i == CHOOSE i \in takers : \A j \in takers : i <= j
             w == connectionWaiters[i]
  <2>1. /\ connectionWaiters' = RemoveAt(connectionWaiters, i)
        /\ timers' = timers \ {w}
        /\ claimedConnections' = claimedConnections \cup {c}
        /\ outcome' = [outcome EXCEPT ![w] = c]
    BY <1>7 DEF AddConnection
  <2>2. i \in DOMAIN connectionWaiters
    <3>1. takers \in SUBSET (1 .. Len(connectionWaiters)) /\ Len(connectionWaiters) \in Nat
      BY DEF TypeOK
    <3> HIDE DEF takers
    <3>2. i \in takers
      BY <1>7, <3>1, FirstExists
    <3> QED
      BY <3>2 DEF takers
  <2> HIDE DEF i
  <2>3. w \in Waiter /\ w \notin CloseWaiter /\ w \in ToSet(connectionWaiters)
    BY <2>2, ConnectionAssumption DEF TypeOK, ToSet
  <2>4. /\ connectionWaiters' \in Seq(Waiter) /\ IsInjective(connectionWaiters')
        /\ ToSet(connectionWaiters') = ToSet(connectionWaiters) \ {w}
    BY <2>1, <2>2, Removed DEF TypeOK
  <2> HIDE DEF w
  <2>5. /\ outcome' = [v \in AnyWaiter |-> outcome'[v]]
        /\ \A v \in Waiter : outcome'[v] \in Unsettled \cup Connection \cup (Settled \ {"resolved"})
        /\ \A v \in CloseWaiter : outcome'[v] \in Unsettled \cup Settled
        /\ outcome'[w] = c
        /\ \A v \in AnyWaiter \ {w} : outcome'[v] = outcome[v]
    BY <2>1, <2>3, PromiseKept DEF AnyWaiter
  <2>6. TypeOK'
    BY <1>1, <1>2, <1>5, <2>1, <2>4, <2>5 DEF TypeOK, Events
  <2>7. WaitingHeld'
    <3>1. w \notin disconnectionWaiters
      BY <2>3 DEF TypeOK
    <3>2. c # "waiting"
      BY WordsAreNoSessions
    <3>3. Queued' = Queued \ {w}
      BY <1>1, <2>4, <3>1 DEF Queued
    <3>4. {v \in AnyWaiter : outcome'[v] = "waiting"}
            = {v \in AnyWaiter : outcome[v] = "waiting"} \ {w}
      BY <2>5, <3>2
    <3> QED
      BY <2>1, <3>3, <3>4 DEF WaitingHeld
  <2>8. NothingMissed'
    BY <1>1, <2>1, <2>5, WordsAreNoSessions DEF NothingMissed, AnyWaiter
  <2>9. NoneOnRecord'
    BY <1>4, <2>3, <2>5 DEF AnyWaiter
  <2> QED
    BY <1>3, <2>6, <2>7, <2>8, <2>9
<1> QED
    BY <1>6, <1>7

(* A disconnection settles every call that waits for it.                   *)
LEMMA AttentionAtAddDisconnection ==
    ASSUME AttentionInv, NEW c \in Connection, AddDisconnection(c)
    PROVE  AttentionInv'
<1> USE DEF AttentionInv
<1> DEFINE gone == Watching(c)
<1>1. /\ session' = [session EXCEPT ![c] = "closed"]
      /\ events' = Append(events, Event("disconnect", c))
      /\ activeConnections' = activeConnections \ {c}
      /\ outcome' = [w \in AnyWaiter |-> IF w \in gone THEN "resolved" ELSE outcome[w]]
      /\ disconnectionWaiters' = disconnectionWaiters \ gone
      /\ timers' = timers \ gone
      /\ UNCHANGED <<claimedConnections, connectionWaiters, wants>>
    BY DEF AddDisconnection, Leaving
<1>2. /\ events' \in Events
      /\ ToSet(events') = ToSet(events) \cup {Event("disconnect", c)}
  <2>1. events \in Events
    BY DEF TypeOK, Events
  <2> QED
    BY <1>1, <2>1, Recording
<1>3. gone \subseteq CloseWaiter /\ gone \cap Waiter = {}
    BY ConnectionAssumption DEF Watching, TypeOK
<1>4. /\ outcome' = [w \in AnyWaiter |-> outcome'[w]]
      /\ \A w \in AnyWaiter : outcome'[w] = IF w \in gone THEN "resolved" ELSE outcome[w]
    BY <1>1
<1>5. \A w \in CloseWaiter : outcome[w] = "waiting" => w \in disconnectionWaiters
  <2>1. ToSet(connectionWaiters) \subseteq Waiter
    BY DEF ToSet, TypeOK
  <2>2. \A w \in CloseWaiter : outcome[w] = "waiting" => w \in Queued
    BY DEF WaitingHeld, AnyWaiter
  <2> QED
    BY <2>1, <2>2, ConnectionAssumption DEF Queued
<1>6. \A w \in CloseWaiter : outcome'[w] = "waiting" => outcome[w] = "waiting" /\ wants[w] # {c}
  <2> SUFFICES ASSUME NEW w \in CloseWaiter, outcome'[w] = "waiting"
               PROVE  outcome[w] = "waiting" /\ wants[w] # {c}
    OBVIOUS
  <2>1. w \notin gone /\ outcome[w] = "waiting"
    BY <1>4 DEF AnyWaiter
  <2> QED
    BY <1>5, <2>1 DEF Watching
<1> HIDE DEF gone
<1>7. TypeOK'
  <2>1. session' \in [Connection -> {"new", "open", "closed"}]
    BY <1>1 DEF TypeOK
  <2>2. \A w \in Waiter : outcome'[w] \in Unsettled \cup Connection \cup (Settled \ {"resolved"})
    BY <1>3, <1>4 DEF TypeOK, AnyWaiter
  <2>3. \A w \in CloseWaiter : outcome'[w] \in Unsettled \cup Settled
    BY <1>4 DEF TypeOK, AnyWaiter, Settled
  <2> QED
    BY <1>1, <1>2, <1>4, <2>1, <2>2, <2>3 DEF TypeOK, Events
<1>8. ActiveOnRecord'
    BY <1>1, <1>2 DEF ActiveOnRecord
<1>9. WaitingHeld'
  <2>1. Queued' = Queued \ gone
    <3>1. ToSet(connectionWaiters) \subseteq Waiter
      BY DEF ToSet, TypeOK
    <3> QED
      BY <1>1, <1>3, <3>1 DEF Queued
  <2>2. {w \in AnyWaiter : outcome'[w] = "waiting"}
          = {w \in AnyWaiter : outcome[w] = "waiting"} \ gone
    BY <1>4
  <2> QED
    BY <1>1, <2>1, <2>2 DEF WaitingHeld
<1>10. NothingMissed'
    BY <1>1, <1>3, <1>4 DEF NothingMissed, AnyWaiter
<1>11. NoneOnRecord'
    BY <1>1, <1>2, <1>6 DEF NoneOnRecord, Event
<1> QED
    BY <1>7, <1>8, <1>9, <1>10, <1>11

(* A call that finds no session has nothing to miss, because every session *)
(* the spy knows as active is on the record it searched.                   *)
LEMMA AttentionAtWaitForConnection ==
    ASSUME AttentionInv, NEW w \in Waiter, NEW p \in SUBSET Connection, WaitForConnection(w, p)
    PROVE  AttentionInv'
<1> USE DEF AttentionInv
<1> DEFINE candidates == {i \in Connects : events[i].connectionId \in
                             (p \cap activeConnections) \ claimedConnections}
<1>1. /\ outcome[w] = "unused"
      /\ wants' = [wants EXCEPT ![w] = p]
      /\ UNCHANGED <<session, events, activeConnections, disconnectionWaiters>>
    BY DEF WaitForConnection, Claim
<1>2. /\ wants' \in [AnyWaiter -> SUBSET Connection]
      /\ wants'[w] = p /\ \A v \in AnyWaiter \ {w} : wants'[v] = wants[v]
    BY <1>1 DEF TypeOK, AnyWaiter
<1>3. w \in AnyWaiter /\ w \notin CloseWaiter
    BY ConnectionAssumption DEF AnyWaiter
<1>4. ActiveOnRecord'
    BY <1>1 DEF ActiveOnRecord
<1>5. CASE candidates # {}
  <2> DEFINE first == CHOOSE i \in candidates : \A j \in candidates : i <= j
             c == events[first].connectionId
  <2>1. /\ claimedConnections' = claimedConnections \cup {c}
        /\ outcome' = [outcome EXCEPT ![w] = c]
        /\ UNCHANGED <<connectionWaiters, timers>>
    BY <1>5 DEF WaitForConnection, Claim
  <2>2. first \in candidates
    <3>1. candidates \in SUBSET (1 .. Len(events)) /\ Len(events) \in Nat
      BY DEF Connects, TypeOK
    <3> HIDE DEF candidates
    <3> QED
      BY <1>5, <3>1, FirstExists
  <2>3. c \in Connection /\ c # "waiting"
    BY <2>2, WordsAreNoSessions
  <2> HIDE DEF c
  <2>4. /\ outcome' = [v \in AnyWaiter |-> outcome'[v]]
        /\ \A v \in Waiter : outcome'[v] \in Unsettled \cup Connection \cup (Settled \ {"resolved"})
        /\ \A v \in CloseWaiter : outcome'[v] \in Unsettled \cup Settled
        /\ outcome'[w] = c
        /\ \A v \in AnyWaiter \ {w} : outcome'[v] = outcome[v]
    BY <1>3, <2>1, <2>3, PromiseKept
  <2>5. TypeOK'
    BY <1>1, <1>2, <2>1, <2>3, <2>4 DEF TypeOK
  <2>6. WaitingHeld'
    <3>1. Queued' = Queued
      BY <1>1, <2>1 DEF Queued
    <3>2. {v \in AnyWaiter : outcome'[v] = "waiting"} = {v \in AnyWaiter : outcome[v] = "waiting"}
      BY <1>1, <2>3, <2>4
    <3> QED
      BY <2>1, <3>1, <3>2 DEF WaitingHeld
  <2>7. NothingMissed'
    BY <1>1, <1>2, <2>1, <2>3, <2>4 DEF NothingMissed, AnyWaiter
  <2>8. NoneOnRecord'
    BY <1>1, <1>2, <1>3, <2>4 DEF NoneOnRecord, AnyWaiter
  <2> QED
    BY <1>4, <2>5, <2>6, <2>7, <2>8
<1>6. CASE candidates = {}
  <2>1. /\ connectionWaiters' = Append(connectionWaiters, w)
        /\ timers' = timers \cup {w}
        /\ outcome' = [outcome EXCEPT ![w] = "waiting"]
        /\ UNCHANGED claimedConnections
    BY <1>6 DEF WaitForConnection, Claim
  <2>2. p \cap activeConnections \subseteq claimedConnections
    <3> SUFFICES ASSUME NEW c \in p \cap activeConnections, c \notin claimedConnections
                 PROVE  FALSE
      OBVIOUS
    <3>1. PICK i \in DOMAIN events : events[i] = Event("connect", c)
      BY DEF ActiveOnRecord, ToSet
    <3>2. i \in candidates
      BY <3>1 DEF Connects, Event
    <3> QED
      BY <1>6, <3>2
  <2>3. /\ connectionWaiters' \in Seq(Waiter) /\ IsInjective(connectionWaiters')
        /\ ToSet(connectionWaiters') = ToSet(connectionWaiters) \cup {w}
    <3>1. w \notin ToSet(connectionWaiters)
      BY <1>1, <1>3 DEF WaitingHeld, Queued
    <3> QED
      BY <2>1, <3>1, Queueing DEF TypeOK
  <2>4. /\ outcome' = [v \in AnyWaiter |-> outcome'[v]]
        /\ \A v \in Waiter : outcome'[v] \in Unsettled \cup Connection \cup (Settled \ {"resolved"})
        /\ \A v \in CloseWaiter : outcome'[v] \in Unsettled \cup Settled
        /\ outcome'[w] = "waiting"
        /\ \A v \in AnyWaiter \ {w} : outcome'[v] = outcome[v]
    BY <1>3, <2>1, PromiseKept DEF Unsettled
  <2>5. TypeOK'
    BY <1>1, <1>2, <1>3, <2>1, <2>3, <2>4 DEF TypeOK
  <2>6. WaitingHeld'
    <3>1. Queued' = Queued \cup {w}
      BY <1>1, <2>3 DEF Queued
    <3>2. {v \in AnyWaiter : outcome'[v] = "waiting"}
            = {v \in AnyWaiter : outcome[v] = "waiting"} \cup {w}
      BY <1>3, <2>4
    <3> QED
      BY <2>1, <3>1, <3>2 DEF WaitingHeld
  <2>7. NothingMissed'
    BY <1>1, <1>2, <2>1, <2>2, <2>4 DEF NothingMissed, AnyWaiter
  <2>8. NoneOnRecord'
    BY <1>1, <1>2, <1>3, <2>4 DEF NoneOnRecord, AnyWaiter
  <2> QED
    BY <1>4, <2>5, <2>6, <2>7, <2>8
<1> QED
    BY <1>5, <1>6

(* A call for a disconnection waits only while none is on record.          *)
LEMMA AttentionAtWaitForDisconnection ==
    ASSUME AttentionInv, NEW w \in CloseWaiter, NEW c \in Connection,
           WaitForDisconnection(w, c)
    PROVE  AttentionInv'
<1> USE DEF AttentionInv
<1>1. /\ outcome[w] = "unused"
      /\ wants' = [wants EXCEPT ![w] = {c}]
      /\ UNCHANGED <<session, events, activeConnections, claimedConnections, connectionWaiters>>
    BY DEF WaitForDisconnection
<1>2. /\ wants' \in [AnyWaiter -> SUBSET Connection]
      /\ wants'[w] = {c} /\ \A v \in AnyWaiter \ {w} : wants'[v] = wants[v]
    BY <1>1 DEF TypeOK, AnyWaiter
<1>3. w \in AnyWaiter /\ w \notin Waiter
    BY ConnectionAssumption DEF AnyWaiter
<1>4. ActiveOnRecord'
    BY <1>1 DEF ActiveOnRecord
<1>5. ASSUME NEW x \in {"resolved", "waiting"}, outcome' = [outcome EXCEPT ![w] = x]
      PROVE  /\ outcome' = [v \in AnyWaiter |-> outcome'[v]]
             /\ \A v \in Waiter : outcome'[v] \in Unsettled \cup Connection \cup (Settled \ {"resolved"})
             /\ \A v \in CloseWaiter : outcome'[v] \in Unsettled \cup Settled
             /\ outcome'[w] = x
             /\ \A v \in AnyWaiter \ {w} : outcome'[v] = outcome[v]
    BY <1>3, <1>5, PromiseKept DEF Unsettled, Settled
<1>6. CASE Event("disconnect", c) \in ToSet(events)
  <2>1. /\ outcome' = [outcome EXCEPT ![w] = "resolved"]
        /\ UNCHANGED <<disconnectionWaiters, timers>>
    BY <1>6 DEF WaitForDisconnection
  <2>2. /\ outcome'[w] = "resolved"
        /\ \A v \in AnyWaiter \ {w} : outcome'[v] = outcome[v]
    BY <1>5, <2>1
  <2>3. TypeOK'
    BY <1>1, <1>2, <1>5, <2>1 DEF TypeOK
  <2>4. WaitingHeld'
    <3>1. Queued' = Queued
      BY <1>1, <2>1 DEF Queued
    <3>2. {v \in AnyWaiter : outcome'[v] = "waiting"} = {v \in AnyWaiter : outcome[v] = "waiting"}
      BY <1>1, <2>2
    <3> QED
      BY <2>1, <3>1, <3>2 DEF WaitingHeld
  <2>5. NothingMissed'
    BY <1>1, <1>2, <1>3, <2>2 DEF NothingMissed, AnyWaiter
  <2>6. NoneOnRecord'
    BY <1>1, <1>2, <2>2 DEF NoneOnRecord, AnyWaiter
  <2> QED
    BY <1>4, <2>3, <2>4, <2>5, <2>6
<1>7. CASE Event("disconnect", c) \notin ToSet(events)
  <2>1. /\ outcome' = [outcome EXCEPT ![w] = "waiting"]
        /\ disconnectionWaiters' = disconnectionWaiters \cup {w}
        /\ timers' = timers \cup {w}
    BY <1>7 DEF WaitForDisconnection
  <2>2. /\ outcome'[w] = "waiting"
        /\ \A v \in AnyWaiter \ {w} : outcome'[v] = outcome[v]
    BY <1>5, <2>1
  <2>3. TypeOK'
    BY <1>1, <1>2, <1>3, <1>5, <2>1 DEF TypeOK
  <2>4. WaitingHeld'
    <3>1. Queued' = Queued \cup {w}
      BY <1>1, <2>1 DEF Queued
    <3>2. {v \in AnyWaiter : outcome'[v] = "waiting"}
            = {v \in AnyWaiter : outcome[v] = "waiting"} \cup {w}
      BY <1>3, <2>2
    <3> QED
      BY <2>1, <3>1, <3>2 DEF WaitingHeld
  <2>5. NothingMissed'
    BY <1>1, <1>2, <1>3, <2>2 DEF NothingMissed, AnyWaiter
  <2>6. NoneOnRecord'
    <3> SUFFICES ASSUME NEW v \in CloseWaiter, NEW d \in Connection,
                        outcome'[v] = "waiting", wants'[v] = {d}
                 PROVE  Event("disconnect", d) \notin ToSet(events)
      BY <1>1 DEF NoneOnRecord
    <3>1. CASE v = w
      BY <1>2, <1>7, <3>1
    <3>2. CASE v # w
      BY <1>2, <2>2, <3>2 DEF NoneOnRecord, AnyWaiter
    <3> QED
      BY <3>1, <3>2
  <2> QED
    BY <1>4, <2>3, <2>4, <2>5, <2>6
<1> QED
    BY <1>6, <1>7

(* A timer takes its own call out of the queue it stands in.               *)
LEMMA AttentionAtTimeout ==
    ASSUME AttentionInv, NEW w \in AnyWaiter, Timeout(w)
    PROVE  AttentionInv'
<1> USE DEF AttentionInv
<1>1. /\ w \in timers /\ timers' = timers \ {w}
      /\ disconnectionWaiters' = disconnectionWaiters \ {w}
      /\ UNCHANGED <<session, events, activeConnections, claimedConnections, wants>>
    BY DEF Timeout
<1>2. outcome[w] = "waiting"
    BY <1>1 DEF WaitingHeld
<1>3. outcome' = [outcome EXCEPT ![w] = "timeout"]
    BY <1>2 DEF Timeout
<1>4. /\ outcome' = [v \in AnyWaiter |-> outcome'[v]]
      /\ \A v \in Waiter : outcome'[v] \in Unsettled \cup Connection \cup (Settled \ {"resolved"})
      /\ \A v \in CloseWaiter : outcome'[v] \in Unsettled \cup Settled
      /\ outcome'[w] = "timeout"
      /\ \A v \in AnyWaiter \ {w} : outcome'[v] = outcome[v]
    BY <1>3, PromiseKept DEF Settled
<1>5. /\ connectionWaiters' \in Seq(Waiter) /\ IsInjective(connectionWaiters')
      /\ ToSet(connectionWaiters') = ToSet(connectionWaiters) \ {w}
  <2>1. CASE PlaceOf(w) = {}
    <3>1. connectionWaiters' = connectionWaiters
      BY <2>1 DEF Timeout
    <3>2. w \notin ToSet(connectionWaiters)
      BY <2>1 DEF PlaceOf, ToSet
    <3> QED
      BY <3>1, <3>2 DEF TypeOK
  <2>2. CASE PlaceOf(w) # {}
    <3>1. PICK i \in PlaceOf(w) : connectionWaiters' = RemoveAt(connectionWaiters, i)
      BY <2>2 DEF Timeout
    <3>2. i \in DOMAIN connectionWaiters /\ connectionWaiters[i] = w
      BY DEF PlaceOf
    <3> QED
      BY <3>1, <3>2, Removed DEF TypeOK
  <2> QED
    BY <2>1, <2>2
<1>6. TypeOK'
    BY <1>1, <1>4, <1>5 DEF TypeOK
<1>7. ActiveOnRecord'
    BY <1>1 DEF ActiveOnRecord
<1>8. WaitingHeld'
  <2>1. Queued' = Queued \ {w}
    BY <1>1, <1>5 DEF Queued
  <2>2. {v \in AnyWaiter : outcome'[v] = "waiting"}
          = {v \in AnyWaiter : outcome[v] = "waiting"} \ {w}
    BY <1>4
  <2> QED
    BY <1>1, <2>1, <2>2 DEF WaitingHeld
<1>9. NothingMissed'
    BY <1>1, <1>4 DEF NothingMissed, AnyWaiter
<1>10. NoneOnRecord'
    BY <1>1, <1>4 DEF NoneOnRecord, AnyWaiter
<1> QED
    BY <1>6, <1>7, <1>8, <1>9, <1>10

(* A clear settles every call that waits, and leaves nothing to overlook.  *)
LEMMA AttentionAtClear ==
    ASSUME AttentionInv, Clear
    PROVE  AttentionInv'
<1> USE DEF AttentionInv
<1>1. /\ events' = << >> /\ activeConnections' = {} /\ claimedConnections' = {}
      /\ connectionWaiters' = << >> /\ disconnectionWaiters' = {}
      /\ timers' = timers \ Queued
      /\ UNCHANGED <<session, wants>>
      /\ outcome' = [w \in AnyWaiter |-> IF w \in Queued THEN "cleared" ELSE outcome[w]]
    BY DEF Clear, Forget
<1>2. timers' = {} /\ Queued' = {}
    BY <1>1 DEF WaitingHeld, Queued, ToSet
<1>3. \A w \in AnyWaiter : outcome'[w] = IF w \in Queued THEN "cleared" ELSE outcome[w]
    BY <1>1
<1>4. \A w \in AnyWaiter : outcome'[w] # "waiting"
    BY <1>3 DEF WaitingHeld
<1>5. TypeOK'
  <2>1. outcome' = [w \in AnyWaiter |-> outcome'[w]]
    BY <1>1
  <2>2. /\ \A w \in Waiter : outcome'[w] \in Unsettled \cup Connection \cup (Settled \ {"resolved"})
        /\ \A w \in CloseWaiter : outcome'[w] \in Unsettled \cup Settled
    BY <1>3 DEF TypeOK, AnyWaiter, Settled
  <2>3. IsInjective(connectionWaiters')
    BY <1>1 DEF IsInjective
  <2> QED
    BY <1>1, <1>2, <2>1, <2>2, <2>3 DEF TypeOK
<1>6. ActiveOnRecord'
    BY <1>1 DEF ActiveOnRecord
<1>7. WaitingHeld' /\ NothingMissed' /\ NoneOnRecord'
    BY <1>2, <1>4 DEF WaitingHeld, NothingMissed, NoneOnRecord, AnyWaiter
<1> QED
    BY <1>5, <1>6, <1>7

(* AttentionInv is inductive.                                              *)
THEOREM AttentionInvariant == Spec => []AttentionInv
<1>1. Init => AttentionInv
  <2> SUFFICES ASSUME Init
               PROVE  AttentionInv
    OBVIOUS
  <2>1. TypeOK
    BY DEF Init, TypeOK, IsInjective, Unsettled, AnyWaiter
  <2>2. ActiveOnRecord
    BY DEF Init, ActiveOnRecord
  <2>3. WaitingHeld
    BY DEF Init, WaitingHeld, Queued, ToSet
  <2>4. NothingMissed /\ NoneOnRecord
    BY DEF Init, NothingMissed, NoneOnRecord, AnyWaiter
  <2> QED
    BY <2>1, <2>2, <2>3, <2>4 DEF AttentionInv
<1>2. AttentionInv /\ [Next]_vars => AttentionInv'
  <2> SUFFICES ASSUME AttentionInv, [Next]_vars
               PROVE  AttentionInv'
    OBVIOUS
  <2>1. CASE UNCHANGED vars
    BY <2>1 DEF vars, spyVars, AttentionInv, TypeOK, ActiveOnRecord, WaitingHeld, Queued,
                NothingMissed, NoneOnRecord
  <2> QED
    BY <2>1, AttentionAtAddConnection, AttentionAtAddDisconnection,
       AttentionAtWaitForConnection, AttentionAtWaitForDisconnection,
       AttentionAtTimeout, AttentionAtClear DEF Next
<1> QED
    BY <1>1, <1>2, PTL DEF Spec

(* Every call that waits is one that really has nothing yet: it stands in  *)
(* a queue with its timer, no session it accepts is unclaimed, and the     *)
(* disconnection it is about has not been reported.                        *)
THEOREM NobodyIsOverlooked == Spec => []NobodyOverlooked
<1>1. AttentionInv => NobodyOverlooked
    BY DEF AttentionInv, WaitingHeld, NothingMissed, NoneOnRecord, NobodyOverlooked, AnyWaiter
<1> QED
    BY <1>1, AttentionInvariant, PTL

=============================================================================
