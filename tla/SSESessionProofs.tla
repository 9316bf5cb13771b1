--------------------------- MODULE SSESessionProofs ---------------------------
(***************************************************************************)
(* Proofs about one SSE request, alone (Spec) and on a dual-mode route     *)
(* (RouteSpec), for any habits of the embedding program unless a theorem   *)
(* excludes some.                                                          *)
(***************************************************************************)
EXTENDS DualModeRoute, FiniteSetTheorems, SequenceTheorems, TLAPS

USE DEF traffic

-----------------------------------------------------------------------------
(* Responses.                                                              *)

\* until the handler is done the only response is the stream's headers
ResponseInv ==
    /\ handler # "done" => responses = IF headersSent THEN 1 ELSE 0
    /\ started => headersSent /\ ~responded /\ responses = 1
    /\ ~headersSent => responses \in {0, 1}
    /\ pending # << >> => started

(* No step begins a second response: start() is the last that begins one,  *)
(* unless respond() or an error comes instead of it.                       *)
LEMMA ResponseStep ==
    ASSUME ResponseInv, [Next]_vars
    PROVE  ResponseInv'
<1> USE DEF ResponseInv, started
<1>1. CASE SendHeaders
  BY <1>1 DEF SendHeaders
<1>2. ASSUME NEW m \in {"autoClose", "keepAlive"}, NEW reconnects \in BOOLEAN,
             Start(m, reconnects)
      PROVE  ResponseInv'
  BY <1>2 DEF Start
<1>3. CASE Respond
  BY <1>3 DEF Respond
<1>4. CASE ReturnUnstarted \/ ThrowUnstarted
  BY <1>4 DEF ReturnUnstarted, ThrowUnstarted, Reply
\* the handler goes on, and no step of these begins a response
<1>5. CASE \/ Send \/ SendStream \/ Join \/ ControllerJoin \/ Leave
           \/ ReturnAutoClose \/ ReturnKeepAlive \/ ConnectionClosed
           \/ Throw \/ ErrorReported
  BY <1>5 DEF Send, SendStream, Join, ControllerJoin, Leave, ReturnAutoClose,
              ReturnKeepAlive, ConnectionClosed, Throw, ErrorReported
<1>7. ASSUME NEW by \in {"handler", "other"}, CallSend(by)
      PROVE  ResponseInv'
  BY <1>7 DEF CallSend
<1>8. CASE SendGoesOn
  BY <1>8 DEF SendGoesOn
\* and the other threads leave the handler alone
<1>6. CASE \/ \E pluginFirst \in BOOLEAN : SocketCloses(pluginFirst)
           \/ OnCloseSettles \/ ListenerResumes \/ ReplayWrites \/ ReplayEnds
           \/ ReplayCallsSend \/ CloseConnection \/ Broadcast
           \/ UNCHANGED vars
  BY <1>6 DEF SocketCloses, OnCloseSettles, ListenerResumes, ReplayWrites,
              ReplayEnds, ReplayCallsSend, CloseConnection, Broadcast, vars
<1> QED
  BY <1>1, <1>2, <1>3, <1>4, <1>5, <1>6, <1>7, <1>8 DEF Next

(* ResponseInv is inductive.                                               *)
THEOREM ResponseInvariant == Spec => []ResponseInv
<1>1. Init => ResponseInv
    BY DEF Init, ResponseInv, started
<1>2. ResponseInv /\ [Next]_vars => ResponseInv'
    BY ResponseStep
<1> QED
    BY <1>1, <1>2, PTL DEF Spec

(* A request gets one response, whatever the handler calls in which order  *)
(* and whatever happens to its socket meanwhile, unless headers sent ahead *)
(* are followed by no start().                                             *)
THEOREM OneResponseOnly == Spec => []OneResponse
<1>1. ResponseInv => OneResponse
    BY DEF ResponseInv, OneResponse, started
<1> QED
    BY <1>1, ResponseInvariant, PTL

-----------------------------------------------------------------------------
(* Rooms.                                                                  *)

\* a session both the plugin and the socket still have is registered
LiveIsRegistered ==
    /\ inRoom => registered
    /\ registered => started
    /\ started /\ connected => registered
    /\ socket = "closed" => ~connected
    /\ listener \in {"awaiting", "resuming", "ran"} => socket = "closed"

(* What is unregistered has left its room.                                 *)
LEMMA UnregisterKeeps ==
    ASSUME LiveIsRegistered, Unregister
    PROVE  ~registered' /\ ~inRoom'
BY DEF LiveIsRegistered, Unregister

(* No step leaves a live session unregistered, or a member of a room,      *)
(* as long as no send fails on a live stream and controller.joinRoom is    *)
(* only called for registered sessions.                                    *)
LEMMA LiveStep ==
    ASSUME "failAlive" \notin Habits, "unguardedJoin" \notin Habits,
           LiveIsRegistered, [Next]_vars
    PROVE  LiveIsRegistered'
<1> USE DEF LiveIsRegistered, started
<1>1. ASSUME NEW m \in {"autoClose", "keepAlive"}, NEW reconnects \in BOOLEAN,
             Start(m, reconnects)
      PROVE  LiveIsRegistered'
  BY <1>1 DEF Start
<1>2. CASE Send \/ SendGoesOn \/ Broadcast
  BY <1>2, UnregisterKeeps DEF Send, SendGoesOn, Broadcast, SendEvent
<1>3. CASE Join
  BY <1>3, UnregisterKeeps DEF Join, CloseAndUnregister
<1>4. CASE ControllerJoin \/ Leave
  BY <1>4 DEF ControllerJoin, Leave
<1>5. CASE ReturnAutoClose \/ ErrorReported \/ CloseConnection
  BY <1>5, UnregisterKeeps
     DEF ReturnAutoClose, ErrorReported, CloseConnection, CloseAndUnregister
<1>6. CASE \E pluginFirst \in BOOLEAN : SocketCloses(pluginFirst)
  BY <1>6 DEF SocketCloses
<1>7. CASE ListenerResumes
  BY <1>7, UnregisterKeeps DEF ListenerResumes
<1>8. CASE \/ SendHeaders \/ Respond \/ ReturnUnstarted
           \/ ReturnKeepAlive \/ ConnectionClosed \/ ThrowUnstarted \/ Throw
           \/ OnCloseSettles \/ ReplayEnds \/ ReplayCallsSend \/ UNCHANGED vars
  BY <1>8 DEF SendHeaders, Respond, ReturnUnstarted,
              ReturnKeepAlive, ConnectionClosed, ThrowUnstarted, Throw, Reply,
              OnCloseSettles, ReplayEnds, ReplayCallsSend, vars
<1>9. CASE \/ \E by \in {"handler", "other"} : CallSend(by)
           \/ SendStream \/ ReplayWrites
  BY <1>9 DEF CallSend, SendStream, ReplayWrites
<1> QED
  BY <1>1, <1>2, <1>3, <1>4, <1>5, <1>6, <1>7, <1>8, <1>9 DEF Next

(* LiveIsRegistered is inductive under the same two conditions.            *)
THEOREM LiveInvariant ==
    ASSUME "failAlive" \notin Habits, "unguardedJoin" \notin Habits
    PROVE  Spec => []LiveIsRegistered
<1>1. Init => LiveIsRegistered
    BY DEF Init, LiveIsRegistered, started
<1>2. LiveIsRegistered /\ [Next]_vars => LiveIsRegistered'
    BY LiveStep
<1> QED
    BY <1>1, <1>2, PTL DEF Spec

(* Then a session that is not registered is in no room, also when start()  *)
(* comes after the client has gone: a join meets a dead socket, closes the *)
(* session and adds nothing.                                               *)
THEOREM NoMemberIsStale ==
    ASSUME "failAlive" \notin Habits, "unguardedJoin" \notin Habits
    PROVE  Spec => []NoStaleMember
<1>1. LiveIsRegistered => NoStaleMember
    BY DEF LiveIsRegistered, NoStaleMember
<1> QED
    BY <1>1, LiveInvariant, PTL
-----------------------------------------------------------------------------
(* Hooks.                                                                  *)

Hook == {"onConnectionEstablished", "onConnect", "onClose", "onConnectionClosed"}
Distinct(s) == \A i, j \in DOMAIN s : s[i] = s[j] => i = j
Has(s, h) == \E i \in DOMAIN s : s[i] = h

\* which hooks have been called can be read off the state of the session
HookInv ==
    /\ hooks \in Seq(Hook) /\ Distinct(hooks)
    /\ registered \in BOOLEAN
    /\ registered => started
    /\ onClose # "never" => started
    /\ Has(hooks, "onConnectionEstablished") <=> started
    /\ Has(hooks, "onConnect") <=> started
    /\ Has(hooks, "onClose") <=> onClose # "never"
    /\ Has(hooks, "onConnectionClosed") <=> started /\ ~registered

(* A hook that has not been called yet may be.                             *)
LEMMA CallOnce ==
    ASSUME NEW s \in Seq(Hook), Distinct(s), NEW h \in Hook, ~Has(s, h)
    PROVE  /\ s \o <<h>> \in Seq(Hook) /\ Distinct(s \o <<h>>)
           /\ \A k : Has(s \o <<h>>, k) <=> Has(s, k) \/ k = h
<1> DEFINE t == s \o <<h>>
<1>1. t \in Seq(Hook) /\ Len(t) = Len(s) + 1 /\ t[Len(s) + 1] = h
    OBVIOUS
<1>2. \A i \in 1 .. Len(s) : t[i] = s[i]
    OBVIOUS
<1>3. DOMAIN t = 1 .. Len(s) + 1 /\ DOMAIN s = 1 .. Len(s)
    BY <1>1
<1> HIDE DEF t
<1>4. Distinct(t)
    BY <1>1, <1>2, <1>3 DEF Distinct, Has
<1>5. \A k : Has(t, k) <=> Has(s, k) \/ k = h
    BY <1>1, <1>2, <1>3 DEF Has
<1> QED
    BY <1>1, <1>4, <1>5 DEF t

(* unregisterConnection, with the hook it calls.                           *)
LEMMA UnregisterHooks ==
    ASSUME HookInv, Unregister, hooks' = hooks \o ClosedHook,
           UNCHANGED <<mode, onClose>>
    PROVE  HookInv'
<1>1. CASE registered
    BY <1>1, CallOnce DEF HookInv, Unregister, ClosedHook, started, Hook
<1>2. CASE ~registered
  <2>1. hooks' = hooks
    BY <1>2 DEF HookInv, ClosedHook
  <2> QED
    BY <1>2, <2>1 DEF HookInv, Unregister, started
<1> QED
    BY <1>1, <1>2

(* callOnClose.                                                            *)
LEMMA OnCloseHooks ==
    ASSUME HookInv, CallOnClose, hooks' = hooks \o OnCloseHook,
           UNCHANGED <<mode, registered>>
    PROVE  HookInv'
<1>1. CASE CallsOnClose
    BY <1>1, CallOnce DEF HookInv, CallOnClose, OnCloseHook, CallsOnClose, started, Hook
<1>2. CASE ~CallsOnClose
  <2>1. hooks' = hooks
    BY <1>2 DEF HookInv, OnCloseHook
  <2> QED
    BY <1>2, <2>1 DEF HookInv, CallOnClose, started
<1> QED
    BY <1>1, <1>2

(* Closing a session calls the one, then the other.                        *)
LEMMA CloseHooks ==
    ASSUME HookInv, CloseAndUnregister, UNCHANGED mode
    PROVE  HookInv'
<1>1. CASE ~connected \/ ~CallsOnClose
  <2>1. hooks' = hooks \o ClosedHook /\ UNCHANGED onClose
    BY <1>1 DEF CloseAndUnregister, CallOnClose, OnCloseHook, HookInv
  <2> QED
    BY <2>1, UnregisterHooks DEF CloseAndUnregister
<1>2. CASE connected /\ CallsOnClose
  <2> DEFINE s == hooks \o <<"onClose">>
  <2>1. /\ s \in Seq(Hook) /\ Distinct(s)
        /\ \A k : Has(s, k) <=> Has(hooks, k) \/ k = "onClose"
    BY <1>2, CallOnce DEF HookInv, CallsOnClose, Hook
  <2>2. hooks' = s \o ClosedHook /\ onClose' = "running"
    BY <1>2 DEF CloseAndUnregister, CallOnClose, OnCloseHook
  <2> HIDE DEF s
  <2>3. CASE registered
    <3>1. hooks' = s \o <<"onConnectionClosed">>
      BY <2>2, <2>3 DEF ClosedHook
    <3>2. ~Has(s, "onConnectionClosed")
      BY <2>1, <2>3 DEF HookInv
    <3> QED
      BY <1>2, <2>1, <2>2, <2>3, <3>1, <3>2, CallOnce
      DEF HookInv, CloseAndUnregister, Unregister, CallsOnClose, started, Hook
  <2>4. CASE ~registered
    <3>1. hooks' = s
      BY <2>1, <2>2, <2>4 DEF ClosedHook
    <3> QED
      BY <1>2, <2>1, <2>2, <2>4, <3>1
      DEF HookInv, CloseAndUnregister, Unregister, CallsOnClose, started
  <2> QED
    BY <2>3, <2>4
<1> QED
    BY <1>1, <1>2

(* start() calls two hooks, of a session that did not exist before.        *)
LEMMA StartHooks ==
    ASSUME HookInv, NEW m \in {"autoClose", "keepAlive"}, NEW reconnects,
           Start(m, reconnects)
    PROVE  HookInv'
<1> DEFINE s == hooks \o <<"onConnectionEstablished">>
<1>1. /\ s \in Seq(Hook) /\ Distinct(s)
      /\ \A k : Has(s, k) <=> Has(hooks, k) \/ k = "onConnectionEstablished"
    BY CallOnce DEF HookInv, Start, Hook
<1>2. hooks' = s \o <<"onConnect">>
    BY DEF Start, HookInv
<1> HIDE DEF s
<1>3. ~Has(s, "onConnect")
    BY <1>1 DEF HookInv, Start
<1>4. /\ hooks' \in Seq(Hook) /\ Distinct(hooks')
      /\ \A k : Has(hooks', k) <=> Has(s, k) \/ k = "onConnect"
  <2>1. "onConnect" \in Hook
    BY DEF Hook
  <2> QED
    BY <1>1, <1>2, <1>3, <2>1, CallOnce
<1>5. registered' /\ started' /\ UNCHANGED onClose /\ ~started /\ ~registered
    BY DEF HookInv, Start, started
<1>6. \A h : Has(hooks', h) <=> \/ Has(hooks, h)
                               \/ h \in {"onConnectionEstablished", "onConnect"}
    BY <1>1, <1>4
<1> QED
    BY <1>4, <1>5, <1>6 DEF HookInv

(* No step calls a hook again, for any habits: each hook has its own guard *)
(* against the second call, and the guards are set in the same step.       *)
LEMMA HookStep ==
    ASSUME HookInv, [Next]_vars
    PROVE  HookInv'
<1>1. ASSUME NEW m \in {"autoClose", "keepAlive"}, NEW reconnects \in BOOLEAN,
             Start(m, reconnects)
      PROVE  HookInv'
  BY <1>1, StartHooks
<1>2. ASSUME UNCHANGED <<mode, registered, onClose, hooks>>
      PROVE  HookInv'
  BY <1>2 DEF HookInv, started
<1>3. CASE Send \/ SendGoesOn \/ Broadcast
  <2>1. UNCHANGED <<mode, onClose>>
    BY <1>3 DEF Send, SendGoesOn, Broadcast
  <2>2. CASE Unregister /\ hooks' = hooks \o ClosedHook
    BY <2>1, <2>2, UnregisterHooks
  <2>3. CASE UNCHANGED <<registered, hooks>>
    BY <1>2, <2>1, <2>3
  <2> QED
    BY <1>3, <2>2, <2>3 DEF Send, SendGoesOn, Broadcast, SendEvent
<1>4. CASE Join \/ ReturnAutoClose \/ ErrorReported \/ CloseConnection
  <2>1. UNCHANGED mode
    BY <1>4 DEF Join, ReturnAutoClose, ErrorReported, CloseConnection
  <2>2. CASE CloseAndUnregister
    BY <2>1, <2>2, CloseHooks
  <2>3. CASE UNCHANGED <<registered, onClose, hooks>>
    BY <1>2, <2>1, <2>3
  <2> QED
    BY <1>4, <2>2, <2>3 DEF Join, ReturnAutoClose, ErrorReported, CloseConnection
<1>5. ASSUME NEW pluginFirst \in BOOLEAN, SocketCloses(pluginFirst)
      PROVE  HookInv'
  BY <1>5, OnCloseHooks DEF SocketCloses
<1>6. CASE OnCloseSettles
  BY <1>6 DEF OnCloseSettles, HookInv, started
<1>7. CASE ListenerResumes
  <2>1. CASE started
    BY <1>7, <2>1, UnregisterHooks DEF ListenerResumes
  <2>2. CASE ~started
    BY <1>2, <1>7, <2>2 DEF ListenerResumes
  <2> QED
    BY <2>1, <2>2
<1>8. CASE \/ SendHeaders \/ Respond \/ ControllerJoin \/ Leave
           \/ ReturnUnstarted \/ ReturnKeepAlive \/ ConnectionClosed
           \/ ThrowUnstarted \/ Throw \/ ReplayEnds \/ ReplayCallsSend
           \/ UNCHANGED vars
  BY <1>2, <1>8
  DEF SendHeaders, Respond, ControllerJoin, Leave, ReturnUnstarted,
      ReturnKeepAlive, ConnectionClosed, ThrowUnstarted, Throw, Reply, ReplayEnds,
      ReplayCallsSend, vars
<1>9. CASE \/ \E by \in {"handler", "other"} : CallSend(by)
           \/ SendStream \/ ReplayWrites
  BY <1>2, <1>9 DEF CallSend, SendStream, ReplayWrites
<1> QED
  BY <1>1, <1>3, <1>4, <1>5, <1>6, <1>7, <1>8, <1>9 DEF Next

(* A request starts without hooks.                                         *)
LEMMA HooksAtFirst == Init => HookInv
<1>1. << >> \in Seq(Hook) /\ DOMAIN << >> = {}
    OBVIOUS
<1>2. Distinct(<< >>) /\ \A h : ~Has(<< >>, h)
    BY <1>1 DEF Distinct, Has
<1> QED
    BY <1>1, <1>2 DEF Init, HookInv, started

(* HookInv is inductive.                                                   *)
THEOREM HookInvariant == Spec => []HookInv
<1>1. Init => HookInv
    BY HooksAtFirst
<1>2. HookInv /\ [Next]_vars => HookInv'
    BY HookStep
<1> QED
    BY <1>1, <1>2, PTL DEF Spec

(* Every hook runs once at most, and the controller's closing hook has run *)
(* exactly when the session is no longer registered, in whatever order     *)
(* client, server, failed sends and errors end it.                         *)
THEOREM HooksRunOnce == Spec => []HooksOnce
<1>1. HookInv => HooksOnce
    BY DEF HookInv, HooksOnce, Calls, Has, Distinct
<1> QED
    BY <1>1, HookInvariant, PTL
-----------------------------------------------------------------------------
(* Types.                                                                  *)

\* what the invariants above leave open, the flags apart
Flags ==
    /\ responded \in BOOLEAN /\ headersSent \in BOOLEAN /\ connected \in BOOLEAN
    /\ inRoom \in BOOLEAN

Places ==
    /\ handler \in {"running", "sending", "reporting", "waiting", "done"}
    /\ mode \in {"none", "autoClose", "keepAlive"}
    /\ responses \in Nat
    /\ socket \in {"open", "closed"}
    /\ listener \in {"armed", "missing", "awaiting", "resuming", "ran"}
    /\ onClose \in {"never", "running", "done"}
    /\ replay \in {"none", "running", "selfWait", "done"}
    /\ replay # "none" => started

(* The flags are only ever set to TRUE or FALSE.                           *)
LEMMA FlagsKept ==
    ASSUME Flags, [Next]_vars
    PROVE  Flags'
<1> USE DEF Flags
<1>1. CASE UNCHANGED <<responded, headersSent, connected, inRoom>>
    BY <1>1
<1>2. ASSUME Unregister
      PROVE  inRoom' \in BOOLEAN
    BY <1>2 DEF Unregister
<1>3. ASSUME CloseAndUnregister
      PROVE  connected' \in BOOLEAN /\ inRoom' \in BOOLEAN
    BY <1>2, <1>3 DEF CloseAndUnregister
<1>4. ASSUME NEW m, NEW reconnects, Start(m, reconnects)
      PROVE  Flags'
    BY <1>4 DEF Start
<1>5. CASE SendHeaders \/ Respond
    BY <1>5 DEF SendHeaders, Respond
<1>6. CASE ControllerJoin \/ Leave
    BY <1>6 DEF ControllerJoin, Leave
<1>7. CASE Send \/ SendGoesOn \/ Broadcast
  <2>1. inRoom' \in BOOLEAN
    BY <1>2, <1>7 DEF Send, SendGoesOn, Broadcast, SendEvent
  <2>2. UNCHANGED <<responded, headersSent, connected>>
    BY <1>7 DEF Send, SendGoesOn, Broadcast
  <2> QED
    BY <2>1, <2>2
<1>8. CASE Join \/ ReturnAutoClose \/ ErrorReported \/ CloseConnection
  <2>1. connected' \in BOOLEAN /\ inRoom' \in BOOLEAN
    BY <1>3, <1>8 DEF Join, ReturnAutoClose, ErrorReported, CloseConnection
  <2>2. UNCHANGED <<responded, headersSent>>
    BY <1>8 DEF Join, ReturnAutoClose, ErrorReported, CloseConnection
  <2> QED
    BY <2>1, <2>2
<1>9. CASE ListenerResumes
  <2>1. inRoom' \in BOOLEAN
    BY <1>2, <1>9 DEF ListenerResumes
  <2>2. UNCHANGED <<responded, headersSent, connected>>
    BY <1>9 DEF ListenerResumes
  <2> QED
    BY <2>1, <2>2
<1>10. ASSUME NEW pluginFirst, SocketCloses(pluginFirst)
       PROVE  Flags'
    BY <1>10 DEF SocketCloses
<1>11. CASE \/ \E by \in {"handler", "other"} : CallSend(by)
            \/ SendStream \/ ReturnUnstarted \/ ReturnKeepAlive
            \/ ConnectionClosed \/ ThrowUnstarted \/ Throw \/ OnCloseSettles
            \/ ReplayWrites \/ ReplayEnds \/ ReplayCallsSend \/ UNCHANGED vars
  <2>1. UNCHANGED <<responded, headersSent, connected, inRoom>>
    BY <1>11
    DEF CallSend, SendStream, ReturnUnstarted, ReturnKeepAlive, ConnectionClosed,
        ThrowUnstarted, Throw, Reply, OnCloseSettles, ReplayWrites, ReplayEnds,
        ReplayCallsSend, vars
  <2> QED
    BY <1>1, <2>1
<1> QED
    BY <1>4, <1>5, <1>6, <1>7, <1>8, <1>9, <1>10, <1>11 DEF Next

(* Handler, socket, listener, hook and replay are always somewhere.        *)
LEMMA PlacesKept ==
    ASSUME Places, [Next]_vars
    PROVE  Places'
<1> USE DEF Places, started
<1>1. ASSUME NEW m \in {"autoClose", "keepAlive"}, NEW reconnects \in BOOLEAN,
             Start(m, reconnects)
      PROVE  Places'
    BY <1>1 DEF Start
<1>2. ASSUME NEW pluginFirst, SocketCloses(pluginFirst)
      PROVE  Places'
    BY <1>2 DEF SocketCloses, CallOnClose
<1>3. CASE Join \/ ReturnAutoClose \/ ErrorReported \/ CloseConnection
  <2>1. onClose' \in {"never", "running", "done"}
    BY <1>3 DEF Join, ReturnAutoClose, ErrorReported, CloseConnection,
                CloseAndUnregister, CallOnClose
  <2> QED
    BY <1>3, <2>1 DEF Join, ReturnAutoClose, ErrorReported, CloseConnection
<1>4. CASE \/ SendHeaders \/ Respond \/ Send \/ SendGoesOn \/ SendStream
           \/ ControllerJoin \/ Leave \/ ReturnUnstarted \/ ReturnKeepAlive
           \/ ConnectionClosed \/ ThrowUnstarted \/ Throw
           \/ \E by \in {"handler", "other"} : CallSend(by)
    BY <1>4 DEF SendHeaders, Respond, Send, SendGoesOn, SendStream, CallSend,
                ControllerJoin, Leave, ReturnUnstarted, ReturnKeepAlive,
                ConnectionClosed, ThrowUnstarted, Throw, Reply
<1>5. CASE \/ OnCloseSettles \/ ListenerResumes \/ ReplayWrites \/ ReplayEnds
           \/ ReplayCallsSend \/ Broadcast \/ UNCHANGED vars
    BY <1>5 DEF OnCloseSettles, ListenerResumes, ReplayWrites, ReplayEnds,
                ReplayCallsSend, Broadcast, vars
<1> QED
    BY <1>1, <1>2, <1>3, <1>4, <1>5 DEF Next

-----------------------------------------------------------------------------
(* The order of what is written.                                           *)

Call == [n : Nat, by : {"handler", "other"}]
Event == [is : {"sent", "replayed", "direct"}, n : Nat]

\* calls wait in the order of their numbers, what has been sent is from calls
\* before all of these, and nothing is sent while the replay goes on
OrderInv ==
    /\ pending \in Seq(Call) /\ calls \in Nat /\ wire \in Seq(Event)
    /\ replay = "none" => pending = << >> /\ wire = << >>
    /\ \A i, j \in DOMAIN pending : i < j => pending[i].n < pending[j].n
    /\ \A i \in DOMAIN pending : pending[i].n <= calls
    /\ \A i \in DOMAIN wire : wire[i].is = "sent" =>
          /\ ~Replaying
          /\ wire[i].n <= calls
          /\ \A j \in DOMAIN pending : wire[i].n < pending[j].n
    /\ SendsInOrder

(* Calls and what they have sent are numbered.                             *)
LEMMA Numbered ==
    ASSUME OrderInv
    PROVE  /\ \A i \in DOMAIN pending : pending[i] \in Call /\ pending[i].n \in Nat
           /\ \A i \in DOMAIN wire : wire[i].n \in Nat
<1>1. \A i \in DOMAIN pending : pending[i] \in Call
    BY ElementOfSeq DEF OrderInv
<1>2. \A i \in DOMAIN wire : wire[i] \in Event
    BY ElementOfSeq DEF OrderInv
<1> QED
    BY <1>1, <1>2 DEF Call, Event

(* At first nothing waits and nothing is written.                          *)
LEMMA OrderAtFirst == Init => OrderInv
<1>1. << >> \in Seq(Call) /\ << >> \in Seq(Event) /\ DOMAIN << >> = {}
    OBVIOUS
<1> QED
    BY <1>1 DEF Init, OrderInv, SendsInOrder

(* A write adds one event at the end, or nothing.                          *)
LEMMA WriteAdds ==
    ASSUME OrderInv, NEW event \in Event, Writes(event)
    PROVE  \/ UNCHANGED wire
           \/ /\ wire' = Append(wire, event)
              /\ event = Direct => Replaying
              /\ wire' \in Seq(Event)
              /\ DOMAIN wire = 1 .. Len(wire) /\ DOMAIN wire' = 1 .. Len(wire) + 1
              /\ Len(wire) \in Nat
              /\ \A i \in DOMAIN wire : wire'[i] = wire[i]
              /\ wire'[Len(wire) + 1] = event
BY DEF OrderInv, Writes

(* The order outlives a step that writes nothing and after which no replay *)
(* begins.                                                                 *)
LEMMA OrderKept ==
    ASSUME OrderInv, UNCHANGED traffic,
           \/ UNCHANGED replay
           \/ Replaying /\ replay' \in {"selfWait", "done"}
    PROVE  OrderInv'
<1>1. Replaying' => Replaying
    BY DEF Replaying
<1>2. replay' = "none" => replay = "none"
    OBVIOUS
<1> QED
    BY <1>1, <1>2 DEF OrderInv, SendsInOrder

(* start() finds nothing written, so that the replay comes first.          *)
LEMMA OrderFromStart ==
    ASSUME OrderInv, Places, NEW m, NEW reconnects, Start(m, reconnects)
    PROVE  OrderInv'
<1>1. replay = "none"
    BY DEF Places, Start
<1>2. pending' = << >> /\ wire' = << >> /\ UNCHANGED traffic
    BY <1>1 DEF OrderInv, Start
<1>3. DOMAIN << >> = {}
    OBVIOUS
<1> QED
    BY <1>2, <1>3 DEF OrderInv, SendsInOrder

(* Direct writes stand anywhere.                                           *)
LEMMA OrderOfDirect ==
    ASSUME OrderInv, UNCHANGED <<pending, calls, replay>>,
           Writes(Direct) \/ UNCHANGED wire
    PROVE  OrderInv'
<1>1. CASE UNCHANGED wire
    BY <1>1, OrderKept
<1>2. CASE Writes(Direct) /\ ~UNCHANGED wire
  <2>1. Direct \in Event /\ Direct.is = "direct"
    BY DEF Direct, Event
  <2>2. /\ Replaying
        /\ wire' \in Seq(Event)
        /\ DOMAIN wire = 1 .. Len(wire) /\ DOMAIN wire' = 1 .. Len(wire) + 1
        /\ Len(wire) \in Nat
        /\ \A i \in DOMAIN wire : wire'[i] = wire[i]
        /\ wire'[Len(wire) + 1] = Direct
    BY <1>2, <2>1, WriteAdds
  <2>3. \A i \in DOMAIN wire : wire[i].is # "sent"
    BY <2>2 DEF OrderInv
  <2>4. \A i \in DOMAIN wire' : wire'[i].is # "sent"
    BY <2>1, <2>2, <2>3
  <2>5. replay' # "none" /\ (Replaying <=> Replaying')
    BY <2>2 DEF Replaying
  <2> QED
    BY <2>2, <2>4, <2>5 DEF OrderInv, SendsInOrder
<1> QED
    BY <1>1, <1>2

(* A replayed event follows nothing that session.send has written.         *)
LEMMA OrderOfReplay ==
    ASSUME OrderInv, ReplayWrites
    PROVE  OrderInv'
<1>1. Replayed \in Event /\ Replayed.is = "replayed" /\ Replayed # Direct
    BY DEF Replayed, Direct, Event
<1>2. Replaying /\ UNCHANGED <<pending, calls, replay>> /\ Writes(Replayed)
    BY DEF ReplayWrites, Replaying
<1>3. wire' = Append(wire, Replayed)
    BY <1>1, <1>2 DEF Writes
<1>4. /\ wire' \in Seq(Event)
      /\ DOMAIN wire = 1 .. Len(wire) /\ DOMAIN wire' = 1 .. Len(wire) + 1
      /\ Len(wire) \in Nat
      /\ \A i \in DOMAIN wire : wire'[i] = wire[i]
      /\ wire'[Len(wire) + 1] = Replayed
    BY <1>1, <1>3 DEF OrderInv
<1>5. \A i \in DOMAIN wire : wire[i].is # "sent"
    BY <1>2 DEF OrderInv
<1>6. \A i \in DOMAIN wire' : wire'[i].is # "sent"
    BY <1>1, <1>4, <1>5
<1>7. replay' # "none"
    BY <1>2 DEF Replaying
<1> QED
    BY <1>2, <1>4, <1>6, <1>7 DEF OrderInv, SendsInOrder

(* A call goes to the end of those that wait, with the highest number.     *)
LEMMA OrderOfCall ==
    ASSUME OrderInv, NEW by \in {"handler", "other"}, CallSend(by)
    PROVE  OrderInv'
<1> DEFINE call == [n |-> calls + 1, by |-> by]
<1>1. call \in Call /\ call.n = calls + 1 /\ calls \in Nat
    BY DEF OrderInv, Call
<1>2. /\ UNCHANGED <<wire, replay>> /\ replay # "none"
      /\ calls' = calls + 1 /\ pending' = Append(pending, call)
    BY DEF CallSend
<1> HIDE DEF call
<1>3. /\ pending' \in Seq(Call)
      /\ DOMAIN pending = 1 .. Len(pending)
      /\ DOMAIN pending' = 1 .. Len(pending) + 1
      /\ Len(pending) \in Nat
      /\ \A i \in DOMAIN pending : pending'[i] = pending[i]
      /\ pending'[Len(pending) + 1] = call
    BY <1>1, <1>2 DEF OrderInv
<1>4. \A i \in DOMAIN pending : pending[i].n \in Nat /\ pending[i].n <= calls
    BY Numbered DEF OrderInv
<1>5. \A i \in DOMAIN wire : wire[i].n \in Nat
    BY Numbered
<1>6. \A i \in DOMAIN pending' : pending'[i].n <= calls'
    BY <1>1, <1>2, <1>3, <1>4
<1>7. \A i, j \in DOMAIN pending' : i < j => pending'[i].n < pending'[j].n
  <2> SUFFICES ASSUME NEW i \in DOMAIN pending', NEW j \in DOMAIN pending', i < j
               PROVE  pending'[i].n < pending'[j].n
    OBVIOUS
  <2>1. i \in DOMAIN pending
    BY <1>3
  <2>2. CASE j \in DOMAIN pending
    BY <1>3, <2>1, <2>2 DEF OrderInv
  <2>3. CASE j = Len(pending) + 1
    BY <1>1, <1>3, <1>4, <2>1, <2>3
  <2> QED
    BY <1>3, <2>2, <2>3
<1>8. \A i \in DOMAIN wire' : wire'[i].is = "sent" =>
          /\ ~Replaying'
          /\ wire'[i].n <= calls'
          /\ \A j \in DOMAIN pending' : wire'[i].n < pending'[j].n
  <2> SUFFICES ASSUME NEW i \in DOMAIN wire, wire[i].is = "sent"
               PROVE  /\ ~Replaying'
                      /\ wire[i].n <= calls'
                      /\ \A j \in DOMAIN pending' : wire[i].n < pending'[j].n
    BY <1>2
  <2>1. ~Replaying /\ wire[i].n <= calls /\ wire[i].n \in Nat
    BY <1>5 DEF OrderInv
  <2>2. \A j \in DOMAIN pending : wire[i].n < pending[j].n
    BY DEF OrderInv
  <2>3. \A j \in DOMAIN pending' : wire[i].n < pending'[j].n
    BY <1>1, <1>3, <2>1, <2>2
  <2>4. ~Replaying'
    BY <1>2, <2>1 DEF Replaying
  <2> QED
    BY <1>1, <1>2, <2>1, <2>3, <2>4
<1>9. SendsInOrder'
    BY <1>2 DEF OrderInv, SendsInOrder
<1> QED
    BY <1>1, <1>2, <1>3, <1>6, <1>7, <1>8, <1>9 DEF OrderInv

(* The first of the calls that wait leaves the others their order, and     *)
(* what is written of it is later than all that has been sent.             *)
LEMMA OrderOfSend ==
    ASSUME OrderInv, SendGoesOn
    PROVE  OrderInv'
<1> DEFINE event == Sent(Head(pending).n)
<1>1. /\ pending # << >> /\ pending' = Tail(pending) /\ ~Replaying
      /\ UNCHANGED <<calls, replay>>
      /\ Writes(event) \/ UNCHANGED wire
    BY DEF SendGoesOn, SendEvent
<1>2. /\ pending \in Seq(Call) /\ Len(pending) \in Nat \ {0}
      /\ 1 \in DOMAIN pending /\ Head(pending) = pending[1]
      /\ pending' \in Seq(Call)
      /\ \A j \in DOMAIN pending' : /\ j \in Nat /\ j > 0 /\ j + 1 \in DOMAIN pending
                                    /\ pending'[j] = pending[j + 1]
    BY <1>1 DEF OrderInv
<1>3. \A j \in DOMAIN pending : pending[j] \in Call /\ pending[j].n \in Nat
    BY Numbered
<1>4. /\ event \in Event /\ event.is = "sent" /\ event.n = pending[1].n
      /\ event # Direct
    BY <1>2, <1>3 DEF Sent, Event, Direct
<1>5. replay' # "none" /\ ~Replaying'
    BY <1>1 DEF OrderInv, Replaying
<1>6. \A j \in DOMAIN pending' : pending[1].n < pending'[j].n /\ pending'[j].n <= calls'
    BY <1>1, <1>2 DEF OrderInv
<1>7. \A i, j \in DOMAIN pending' : i < j => pending'[i].n < pending'[j].n
  <2> SUFFICES ASSUME NEW i \in DOMAIN pending', NEW j \in DOMAIN pending', i < j
               PROVE  pending'[i].n < pending'[j].n
    OBVIOUS
  <2>1. /\ i + 1 \in DOMAIN pending /\ j + 1 \in DOMAIN pending /\ i + 1 < j + 1
        /\ pending'[i] = pending[i + 1] /\ pending'[j] = pending[j + 1]
    BY <1>2
  <2> QED
    BY <2>1 DEF OrderInv
<1>8. \A i \in DOMAIN wire : wire[i].is = "sent" =>
          /\ wire[i].n \in Nat /\ wire[i].n <= calls
          /\ wire[i].n < pending[1].n
    BY <1>2, Numbered DEF OrderInv
<1>9. \A i \in DOMAIN wire : wire[i].is = "sent" =>
          \A j \in DOMAIN pending' : wire[i].n < pending'[j].n
    BY <1>2 DEF OrderInv
<1>10. CASE UNCHANGED wire
  <2>1. SendsInOrder'
    BY <1>10 DEF OrderInv, SendsInOrder
  <2> QED
    BY <1>1, <1>2, <1>5, <1>6, <1>7, <1>8, <1>9, <1>10, <2>1 DEF OrderInv
<1>11. CASE Writes(event) /\ ~UNCHANGED wire
  <2> HIDE DEF event
  <2>1. /\ wire' \in Seq(Event)
        /\ DOMAIN wire = 1 .. Len(wire) /\ DOMAIN wire' = 1 .. Len(wire) + 1
        /\ Len(wire) \in Nat
        /\ \A i \in DOMAIN wire : wire'[i] = wire[i]
        /\ wire'[Len(wire) + 1] = event
    BY <1>4, <1>11, WriteAdds
  <2>2. pending[1].n \in Nat /\ pending[1].n <= calls
    BY <1>2, <1>3 DEF OrderInv
  <2>3. \A i \in DOMAIN wire' : wire'[i].is = "sent" =>
            /\ ~Replaying'
            /\ wire'[i].n <= calls'
            /\ \A j \in DOMAIN pending' : wire'[i].n < pending'[j].n
    <3> SUFFICES ASSUME NEW i \in DOMAIN wire', wire'[i].is = "sent"
                 PROVE  /\ wire'[i].n <= calls'
                        /\ \A j \in DOMAIN pending' : wire'[i].n < pending'[j].n
      BY <1>5
    <3>1. CASE i \in DOMAIN wire
      BY <1>1, <1>8, <1>9, <2>1, <3>1
    <3>2. CASE i = Len(wire) + 1
      BY <1>1, <1>4, <1>6, <2>1, <2>2, <3>2
    <3> QED
      BY <2>1, <3>1, <3>2
  <2>4. SendsInOrder'
    <3> SUFFICES ASSUME NEW i \in DOMAIN wire', NEW j \in DOMAIN wire', i < j,
                        wire'[i].is = "sent"
                 PROVE  /\ wire'[j].is # "replayed"
                        /\ wire'[j].is = "sent" => wire'[i].n < wire'[j].n
      BY DEF SendsInOrder
    <3>1. i \in DOMAIN wire
      BY <2>1
    <3>2. CASE j \in DOMAIN wire
      BY <2>1, <3>1, <3>2 DEF OrderInv, SendsInOrder
    <3>3. CASE j = Len(wire) + 1
      BY <1>4, <1>8, <2>1, <3>1, <3>3
    <3> QED
      BY <2>1, <3>2, <3>3
  <2> QED
    BY <1>1, <1>2, <1>5, <1>6, <1>7, <2>1, <2>3, <2>4 DEF OrderInv
<1> QED
    BY <1>1, <1>10, <1>11

(* No step breaks the order.                                               *)
LEMMA OrderStep ==
    ASSUME OrderInv, Places, [Next]_vars
    PROVE  OrderInv'
<1>1. ASSUME NEW m \in {"autoClose", "keepAlive"}, NEW reconnects \in BOOLEAN,
             Start(m, reconnects)
      PROVE  OrderInv'
    BY <1>1, OrderFromStart
<1>2. CASE Send \/ Broadcast \/ SendStream \/ Throw
  <2>1. UNCHANGED <<pending, calls, replay>>
    BY <1>2 DEF Send, Broadcast, SendStream, Throw
  <2>2. Writes(Direct) \/ UNCHANGED wire
    BY <1>2 DEF Send, Broadcast, SendStream, Throw, SendEvent
  <2> QED
    BY <2>1, <2>2, OrderOfDirect
<1>3. ASSUME NEW by \in {"handler", "other"}, CallSend(by)
      PROVE  OrderInv'
    BY <1>3, OrderOfCall
<1>4. CASE SendGoesOn
    BY <1>4, OrderOfSend
<1>5. CASE ReplayWrites
    BY <1>5, OrderOfReplay
<1>6. CASE ReplayEnds \/ ReplayCallsSend
    BY <1>6, OrderKept DEF ReplayEnds, ReplayCallsSend, Replaying
<1>7. CASE \/ SendHeaders \/ Respond \/ Join \/ ControllerJoin \/ Leave
           \/ ReturnUnstarted \/ ReturnAutoClose \/ ReturnKeepAlive
           \/ ConnectionClosed \/ ThrowUnstarted \/ ErrorReported
           \/ \E pluginFirst \in BOOLEAN : SocketCloses(pluginFirst)
           \/ OnCloseSettles \/ ListenerResumes \/ CloseConnection
           \/ UNCHANGED vars
  <2>1. UNCHANGED traffic /\ UNCHANGED replay
    BY <1>7
    DEF SendHeaders, Respond, Join, ControllerJoin, Leave, ReturnUnstarted,
        ReturnAutoClose, ReturnKeepAlive, ConnectionClosed, ThrowUnstarted,
        ErrorReported, Reply, SocketCloses, OnCloseSettles, ListenerResumes,
        CloseConnection, vars
  <2> QED
    BY <2>1, OrderKept
<1> QED
    BY <1>1, <1>2, <1>3, <1>4, <1>5, <1>6, <1>7 DEF Next

(* The places and the order are invariant together.                        *)
THEOREM OrderInvariant == Spec => [](Places /\ OrderInv)
<1>1. Init => Places /\ OrderInv
    BY OrderAtFirst DEF Init, Places, started
<1>2. Places /\ OrderInv /\ [Next]_vars => Places' /\ OrderInv'
    BY PlacesKept, OrderStep
<1> QED
    BY <1>1, <1>2, PTL DEF Spec

(* However many calls of session.send wait for the replay, are made while  *)
(* others go on, or fail, and whatever else writes to the client, what     *)
(* they write follows the whole replay and keeps the order of the calls.   *)
THEOREM SendsStayInOrder == Spec => []SendsInOrder
<1>1. OrderInv => SendsInOrder
    BY DEF OrderInv
<1> QED
    BY <1>1, OrderInvariant, PTL

-----------------------------------------------------------------------------
(* All types.                                                              *)

(* Together the invariants type every variable.                            *)
LEMMA TypesFollow ==
    ASSUME Flags, Places, HookInv, OrderInv, started => headersSent
    PROVE  TypeOK
<1>1. {responded, headersSent, connected, registered, inRoom} \subseteq BOOLEAN
    BY DEF Flags, HookInv
<1>2. (registered \/ replay # "none" \/ onClose # "never") => started
    BY DEF Places, HookInv
<1>3. /\ pending \in Seq([n : Nat, by : {"handler", "other"}]) /\ calls \in Nat
      /\ wire \in Seq([is : {"sent", "replayed", "direct"}, n : Nat])
    BY DEF OrderInv, Call, Event
<1> QED
    BY <1>1, <1>2, <1>3 DEF Places, HookInv, TypeOK, Hook

(* Every variable keeps its type, and a session is registered, replayed to *)
(* or closed only after start(), which has sent the headers.               *)
THEOREM SessionTypeCorrect == Spec => []TypeOK
<1>1. Init => Flags
    BY DEF Init, Flags
<1>2. Flags /\ [Next]_vars => Flags'
    BY FlagsKept
<1>3. Flags /\ Places /\ OrderInv /\ HookInv /\ ResponseInv => TypeOK
    BY TypesFollow DEF ResponseInv
<1> QED
    BY <1>1, <1>2, <1>3, HookInvariant, ResponseInvariant, OrderInvariant, PTL DEF Spec

-----------------------------------------------------------------------------
(* The dual-mode route.                                                    *)

\* A route answers by itself only on its sync branch, once, and until it is on
\* the SSE branch nothing of the session has happened.
RouteInv ==
    /\ branch \in {"arriving", "sse", "sync"}
    /\ branch # "sync" => answer = Unanswered
    /\ branch = "arriving" => handler = "running"
    /\ branch # "sse" =>
          /\ responses = IF answer = Unanswered THEN 0 ELSE 1
          /\ ~headersSent /\ ~started

\* what is sent for a returned body has been checked
AnswerChecked ==
    LET success == answer.status \in 200 .. 299
    IN  /\ answer.what = "body" =>
               /\ success => (200 \in Schemas => 200 \in answer.body)
               /\ ~success /\ answer.status \in Schemas => answer.status \in answer.body
               /\ answer.headersValid
        /\ answer.what = "error" /\ answer.headersValid => answer.status = 500

\* the steps of the sync branch, and those before a branch is taken
SyncStep ==
    \/ \E code \in Status : SetStatus(code)
    \/ SyncSends \/ SyncThrows
    \/ \E body \in SUBSET Schemas, headersValid \in BOOLEAN :
            HandleSyncMode(body, headersValid)

(* Every step of the route is one of these.                                *)
LEMMA RouteSteps ==
    ASSUME [NextRoute]_routeVars
    PROVE  \/ branch = "sse" /\ [Next]_vars /\ UNCHANGED syncVars
           \/ Dispatch
           \/ UNCHANGED <<vars, branch, answer>>
           \/ SyncStep
BY DEF NextRoute, routeVars, syncVars, Negotiate, SyncStep

(* A step of the sync branch touches nothing of the session but the        *)
(* handler and the number of responses, and answers at most once.          *)
LEMMA SyncStepKeeps ==
    ASSUME RouteInv, AnswerChecked, SyncStep
    PROVE  /\ RouteInv' /\ AnswerChecked'
           /\ branch = "sync" /\ branch' = "sync"
           /\ handler = "running" /\ handler' \in {"running", "done"}
           /\ responses' \in {0, 1}
           /\ Unchanged
<1> USE DEF RouteInv, Deciding, started
<1>1. ASSUME NEW code \in Status, SetStatus(code)
      PROVE  /\ RouteInv' /\ AnswerChecked' /\ Unchanged
             /\ branch = "sync" /\ branch' = "sync" /\ handler = "running" /\ handler' = "running"
    BY <1>1 DEF SetStatus, vars, Unchanged, AnswerChecked
<1>2. ASSUME SyncSends
      PROVE  /\ RouteInv' /\ AnswerChecked' /\ Unchanged
             /\ branch = "sync" /\ branch' = "sync" /\ handler = "running" /\ handler' = "running"
    BY <1>2 DEF SyncSends, Answer, Unchanged, AnswerChecked, Unanswered
<1>3. ASSUME SyncThrows
      PROVE  /\ RouteInv' /\ AnswerChecked' /\ Unchanged
             /\ branch = "sync" /\ branch' = "sync" /\ handler = "running" /\ handler' = "done"
    BY <1>3 DEF SyncThrows, Answer, Unchanged, AnswerChecked, Unanswered
<1>4. ASSUME NEW body \in SUBSET Schemas, NEW headersValid \in BOOLEAN,
             HandleSyncMode(body, headersValid)
      PROVE  /\ RouteInv' /\ AnswerChecked' /\ Unchanged
             /\ branch = "sync" /\ branch' = "sync" /\ handler = "running" /\ handler' = "done"
  <2>1. /\ branch = "sync" /\ branch' = "sync" /\ handler = "running" /\ handler' = "done"
        /\ Unchanged /\ UNCHANGED branch
    BY <1>4 DEF HandleSyncMode
  <2>2. CASE answer # Unanswered
    <3>1. UNCHANGED <<answer, responses>>
      BY <1>4, <2>2 DEF HandleSyncMode
    <3> QED
      BY <2>1, <3>1 DEF Unchanged, AnswerChecked
  <2>3. CASE answer = Unanswered
    <3>1. /\ status' = IF Conforms(body, status) THEN status ELSE 500
          /\ Conclude(body, status', headersValid)
      BY <1>4, <2>3 DEF HandleSyncMode
    <3>2. responses' = 1 /\ answer' # Unanswered /\ RouteInv'
      BY <2>1, <2>3, <3>1 DEF Conclude, Answer, Unanswered, Unchanged
    <3>3. CASE Conforms(body, status) /\ headersValid
      <4>1. answer' = [what |-> "body", status |-> status, body |-> body,
                       headersValid |-> headersValid]
        BY <3>1, <3>3 DEF Conclude, Answer
      <4>2. AnswerChecked'
        BY <3>3, <4>1 DEF AnswerChecked, Conforms
      <4> QED
        BY <2>1, <3>2, <4>2
    <3>4. CASE ~(Conforms(body, status) /\ headersValid)
      <4>1. headersValid => status' = 500
        BY <3>1, <3>4
      <4>2. answer' = [what |-> "error", status |-> ErrorStatus(status'), body |-> body,
                       headersValid |-> headersValid]
        BY <3>1, <3>4 DEF Conclude, Answer
      <4>3. AnswerChecked'
        BY <4>1, <4>2 DEF AnswerChecked, ErrorStatus
      <4> QED
        BY <2>1, <3>2, <4>3
    <3> QED
      BY <3>3, <3>4
  <2> QED
    BY <2>2, <2>3
<1> QED
    BY <1>1, <1>2, <1>3, <1>4 DEF SyncStep

(* A step of the whole route.                                              *)
LEMMA RouteStep ==
    ASSUME RouteInv, AnswerChecked, [NextRoute]_routeVars
    PROVE  RouteInv' /\ AnswerChecked'
<1>1. CASE branch = "sse" /\ [Next]_vars /\ UNCHANGED syncVars
    BY <1>1 DEF RouteInv, AnswerChecked, syncVars
<1>2. CASE Dispatch
  <2>1. /\ branch = "arriving" /\ branch' \in {"sse", "sync"}
        /\ UNCHANGED <<answer, handler, responses, headersSent, mode>>
    BY <1>2 DEF Dispatch, vars
  <2> QED
    BY <2>1 DEF RouteInv, AnswerChecked, started
<1>3. CASE UNCHANGED <<vars, branch, answer>>
    BY <1>3 DEF RouteInv, AnswerChecked, started, vars
<1>4. CASE SyncStep
    BY <1>4, SyncStepKeeps
<1> QED
    BY <1>1, <1>2, <1>3, <1>4, RouteSteps

(* RouteInv and AnswerChecked are inductive.                               *)
THEOREM RouteInvariant == RouteSpec => [](RouteInv /\ AnswerChecked)
<1>1. InitRoute => RouteInv /\ AnswerChecked
    BY DEF InitRoute, Init, RouteInv, AnswerChecked, Unanswered, started
<1> QED
    BY <1>1, RouteStep, PTL DEF RouteSpec

(* Whatever a sync handler sets, sends, throws or returns in which order,  *)
(* what is sent for a returned body conforms to the schema of its status,  *)
(* or is a 500 if it does not, and it is the only response.                *)
THEOREM InvalidBodiesAreErrors == RouteSpec => []InvalidBodyIsServerError
<1>1. RouteInv /\ AnswerChecked => InvalidBodyIsServerError
    BY DEF RouteInv, AnswerChecked, InvalidBodyIsServerError
<1> QED
    BY <1>1, RouteInvariant, PTL

(* What an invariant of the session says of other variables than the two a *)
(* sync handler shares, it says of the session of a dual-mode route.       *)
LEMMA RouteStepOfSession ==
    ASSUME RouteInv, AnswerChecked, [NextRoute]_routeVars
    PROVE  \/ branch = "sse" /\ branch' = "sse" /\ [Next]_vars
           \/ branch = "arriving" /\ branch' = "sse" /\ UNCHANGED vars
           \/ /\ branch' # "sse" /\ Unchanged
              /\ handler' \in {handler, "running", "done"}
              /\ responses' \in {responses, 0, 1}
           \/ UNCHANGED <<vars, branch>>
<1>1. CASE branch = "sse" /\ [Next]_vars /\ UNCHANGED syncVars
    BY <1>1 DEF syncVars
<1>2. CASE Dispatch
    BY <1>2 DEF Dispatch, vars, Unchanged
<1>3. CASE UNCHANGED <<vars, branch, answer>>
    BY <1>3
<1>4. CASE SyncStep
    BY <1>4, SyncStepKeeps
<1> QED
    BY <1>1, <1>2, <1>3, <1>4, RouteSteps

SessionInv ==
    /\ branch = "sse" => ResponseInv
    /\ HookInv /\ Flags /\ Places /\ OrderInv

(* On its way to the SSE branch a request has had no response, and on it   *)
(* the session takes the steps proved about above.                         *)
LEMMA SessionStep ==
    ASSUME RouteInv, AnswerChecked, SessionInv, [NextRoute]_routeVars
    PROVE  SessionInv'
<1> USE DEF SessionInv
<1>1. CASE branch = "sse" /\ branch' = "sse" /\ [Next]_vars
    BY <1>1, ResponseStep, HookStep, FlagsKept, PlacesKept, OrderStep
<1>2. ASSUME Unchanged,
             handler' \in {handler, "running", "done"},
             responses' \in {responses, 0, 1}
      PROVE  HookInv' /\ Flags' /\ Places' /\ OrderInv'
  <2>1. HookInv'
    BY <1>2 DEF Unchanged, HookInv, started
  <2>2. Flags'
    BY <1>2 DEF Unchanged, Flags
  <2>3. Places'
    BY <1>2 DEF Unchanged, Places, started
  <2>4. OrderInv'
    BY <1>2, OrderKept DEF Unchanged
  <2> QED
    BY <2>1, <2>2, <2>3, <2>4
<1>3. CASE branch = "arriving" /\ branch' = "sse" /\ UNCHANGED vars
  <2>1. ResponseInv
    BY <1>3 DEF RouteInv, ResponseInv, Places, OrderInv
  <2>2. ResponseInv'
    BY <1>3, <2>1 DEF ResponseInv, vars, started
  <2>3. Unchanged /\ handler' = handler /\ responses' = responses
    BY <1>3 DEF vars, Unchanged
  <2> QED
    BY <1>2, <2>2, <2>3
<1>4. CASE UNCHANGED <<vars, branch>>
  <2>1. ResponseInv => ResponseInv'
    BY <1>4 DEF ResponseInv, vars, started
  <2>2. Unchanged /\ handler' = handler /\ responses' = responses
    BY <1>4 DEF vars, Unchanged
  <2> QED
    BY <1>2, <1>4, <2>1, <2>2
<1>5. CASE /\ branch' # "sse" /\ Unchanged
           /\ handler' \in {handler, "running", "done"}
           /\ responses' \in {responses, 0, 1}
    BY <1>2, <1>5
<1> QED
    BY <1>1, <1>3, <1>4, <1>5, RouteStepOfSession

(* SessionInv is inductive, given what is invariant of the route.          *)
THEOREM RouteSessionInvariant == RouteSpec => []SessionInv
<1>1. InitRoute => SessionInv
  <2> SUFFICES ASSUME InitRoute
               PROVE  SessionInv
    OBVIOUS
  <2>1. branch # "sse" /\ Init
    BY DEF InitRoute
  <2>2. HookInv
    BY <2>1, HooksAtFirst
  <2>3. Flags
    BY <2>1 DEF Init, Flags
  <2>4. Places /\ OrderInv
    BY <2>1, OrderAtFirst DEF Init, Places, started
  <2> QED
    BY <2>1, <2>2, <2>3, <2>4 DEF SessionInv
<1>2. RouteInv /\ AnswerChecked /\ SessionInv /\ [NextRoute]_routeVars => SessionInv'
    BY SessionStep
<1> QED
    BY <1>1, <1>2, RouteInvariant, PTL DEF RouteSpec

(* What holds of a request that is alone holds of one on a dual-mode       *)
(* route, whichever mode its client asks for.                              *)
THEOREM RouteTypeCorrect == RouteSpec => []TypeOK
<1>1. RouteInv /\ SessionInv => TypeOK
  <2> SUFFICES ASSUME RouteInv, SessionInv
               PROVE  TypeOK
    OBVIOUS
  <2>1. started => headersSent
    BY DEF RouteInv, SessionInv, ResponseInv
  <2> QED
    BY <2>1, TypesFollow DEF SessionInv
<1> QED
    BY <1>1, RouteInvariant, RouteSessionInvariant, PTL

(* On a dual-mode route, too, a request gets one response.                 *)
THEOREM RouteRespondsOnce == RouteSpec => []OneResponse
<1>1. RouteInv /\ SessionInv => OneResponse
  <2> SUFFICES ASSUME RouteInv, SessionInv
               PROVE  OneResponse
    OBVIOUS
  <2>1. CASE branch = "sse"
    BY <2>1 DEF SessionInv, ResponseInv, OneResponse, started
  <2>2. CASE branch # "sse"
    BY <2>2 DEF RouteInv, OneResponse
  <2> QED
    BY <2>1, <2>2
<1> QED
    BY <1>1, RouteInvariant, RouteSessionInvariant, PTL

(* On a dual-mode route, too, a hook runs once.                            *)
THEOREM RouteHooksRunOnce == RouteSpec => []HooksOnce
<1>1. SessionInv => HooksOnce
    BY DEF SessionInv, HookInv, HooksOnce, Calls, Has, Distinct
<1> QED
    BY <1>1, RouteSessionInvariant, PTL

(* On a dual-mode route, too, session.send writes after the replay and in  *)
(* the order of its calls.                                                 *)
THEOREM RouteSendsStayInOrder == RouteSpec => []SendsInOrder
<1>1. SessionInv => SendsInOrder
    BY DEF SessionInv, OrderInv
<1> QED
    BY <1>1, RouteSessionInvariant, PTL

(* On a dual-mode route, too, no session that is not registered is in a    *)
(* room, under the two conditions of NoMemberIsStale.                      *)
THEOREM RouteMembersAreLive ==
    ASSUME "failAlive" \notin Habits, "unguardedJoin" \notin Habits
    PROVE  RouteSpec => []NoStaleMember
<1>1. InitRoute => LiveIsRegistered
    BY DEF InitRoute, Init, LiveIsRegistered, started
<1>2. LiveIsRegistered /\ RouteInv /\ AnswerChecked /\ [NextRoute]_routeVars => LiveIsRegistered'
  <2> SUFFICES ASSUME LiveIsRegistered, RouteInv, AnswerChecked, [NextRoute]_routeVars
               PROVE  LiveIsRegistered'
    OBVIOUS
  <2>1. [Next]_vars \/ UNCHANGED vars \/ Unchanged
    BY RouteStepOfSession
  <2>2. CASE [Next]_vars \/ UNCHANGED vars
    BY <2>2, LiveStep
  <2>3. CASE Unchanged
    BY <2>3 DEF Unchanged, LiveIsRegistered, started
  <2> QED
    BY <2>1, <2>2, <2>3
<1>3. LiveIsRegistered => NoStaleMember
    BY DEF LiveIsRegistered, NoStaleMember
<1> QED
    BY <1>1, <1>2, <1>3, RouteInvariant, PTL DEF RouteSpec

-----------------------------------------------------------------------------
(* Content negotiation.                                                    *)

(* R is a total order on the places S.                                     *)
Orders(R, S) ==
    /\ \A i \in S : <<i, i>> \notin R
    /\ \A i, j \in S : i # j => <<i, j>> \in R \/ <<j, i>> \in R
    /\ \A i, j, k \in S : <<i, j>> \in R /\ <<j, k>> \in R => <<i, k>> \in R

(* Sorting puts every place once, and what comes before in the order stands *)
(* before: the places up to one of them are as many as its own.            *)
LEMMA ArrangedIs ==
    ASSUME NEW S, IsFiniteSet(S), NEW R, Orders(R, S)
    PROVE  /\ Cardinality(S) \in Nat
           /\ DOMAIN Arranged(S, R) = 1 .. Cardinality(S)
           /\ \A k \in DOMAIN Arranged(S, R) : Arranged(S, R)[k] \in S
           /\ \A i \in S : \E k \in DOMAIN Arranged(S, R) : Arranged(S, R)[k] = i
           /\ \A k, l \in DOMAIN Arranged(S, R) :
                 k < l => <<Arranged(S, R)[k], Arranged(S, R)[l]>> \in R
<1> DEFINE n == Cardinality(S)
           Upto(i) == {j \in S : j = i \/ <<j, i>> \in R}
           at == [i \in S |-> Cardinality(Upto(i))]
<1>1. n \in Nat /\ DOMAIN Arranged(S, R) = 1 .. n
  BY FS_CardinalityType DEF Arranged
<1>2. ASSUME NEW i \in S
      PROVE  /\ IsFiniteSet(Upto(i)) /\ Cardinality(Upto(i)) \in 1 .. n
             /\ i \in Upto(i)
  <2>1. IsFiniteSet(Upto(i)) /\ Cardinality(Upto(i)) <= n
    BY FS_Subset, Upto(i) \in SUBSET S
  <2>2. Cardinality(Upto(i)) \in Nat
    BY <2>1, FS_CardinalityType
  <2>3. Cardinality(Upto(i)) # 0
    BY <2>1, FS_EmptySet, i \in Upto(i)
  <2> QED
    BY <1>1, <2>1, <2>2, <2>3
<1>3. ASSUME NEW i \in S, NEW j \in S, <<i, j>> \in R
      PROVE  at[i] < at[j]
  <2>1. Upto(i) \in SUBSET Upto(j)
    BY <1>3 DEF Orders
  <2>2. j \notin Upto(i)
    BY <1>3 DEF Orders
  <2>3. /\ Cardinality(Upto(i)) <= Cardinality(Upto(j))
        /\ Cardinality(Upto(i)) # Cardinality(Upto(j))
    <3> HIDE DEF Upto
    <3> QED
      BY <1>2, <2>1, <2>2, FS_Subset
  <2>4. Cardinality(Upto(i)) \in Nat /\ Cardinality(Upto(j)) \in Nat
    BY <1>2, FS_CardinalityType
  <2>5. at[i] = Cardinality(Upto(i)) /\ at[j] = Cardinality(Upto(j))
    OBVIOUS
  <2> HIDE DEF Upto, at
  <2> QED
    BY <2>3, <2>4, <2>5
<1>4. at \in [S -> 1 .. n]
  BY <1>2
<1>5. \A i, j \in S : at[i] = at[j] => i = j
  <2> SUFFICES ASSUME NEW i \in S, NEW j \in S, at[i] = at[j], i # j
               PROVE  FALSE
    OBVIOUS
  <2>1. <<i, j>> \in R \/ <<j, i>> \in R
    BY DEF Orders
  <2>2. at[i] < at[j] \/ at[j] < at[i]
    BY <1>3, <2>1
  <2>3. at[i] \in Nat /\ at[j] \in Nat
    BY <1>1, <1>4
  <2> HIDE DEF at
  <2> QED
    BY <2>2, <2>3
<1> HIDE DEF at
<1>6. at \in Injection(S, 1 .. n)
  BY <1>4, <1>5 DEF Injection, IsInjective
<1>7. at \in Surjection(S, 1 .. n)
  <2>1. IsFiniteSet(1 .. n) /\ Cardinality(1 .. n) = n
    BY <1>1, FS_Interval
  <2> QED
    BY <1>6, <2>1, FS_Injection
<1>8. ASSUME NEW k \in 1 .. n
      PROVE  Arranged(S, R)[k] \in S /\ at[Arranged(S, R)[k]] = k
  <2>1. PICK i \in S : at[i] = k
    BY <1>7 DEF Surjection
  <2>2. Arranged(S, R)[k] = CHOOSE j \in S : Position(S, R, j) = k
    BY DEF Arranged
  <2>3. \A j \in S : Position(S, R, j) = at[j]
    BY DEF Position, at
  <2> QED
    BY <2>1, <2>2, <2>3
<1>9. ASSUME NEW i \in S
      PROVE  at[i] \in 1 .. n /\ Arranged(S, R)[at[i]] = i
  BY <1>4, <1>5, <1>8
<1>10. ASSUME NEW k \in 1 .. n, NEW l \in 1 .. n, k < l
       PROVE  <<Arranged(S, R)[k], Arranged(S, R)[l]>> \in R
  <2> DEFINE i == Arranged(S, R)[k]  j == Arranged(S, R)[l]
  <2>1. i \in S /\ j \in S /\ at[i] = k /\ at[j] = l
    BY <1>8
  <2>2. k # l /\ ~(l < k)
    BY <1>1, <1>10
  <2>3. i # j /\ ~(at[j] < at[i])
    BY <2>1, <2>2
  <2> HIDE DEF i, j
  <2>4. <<i, j>> \notin R => FALSE
    BY <1>3, <2>1, <2>3 DEF Orders
  <2> QED
    BY <2>4 DEF i, j
<1> QED
  BY <1>1, <1>8, <1>9, <1>10

(* The least of some numbers.                                              *)
LEMMA FirstIs ==
    ASSUME NEW S \in SUBSET Nat, S # {}
    PROVE  First(S) \in S /\ \A j \in S : First(S) <= j
<1> DEFINE T == {0 .. n : n \in S}
<1>1. T \subseteq FiniteSubsetsOf(Nat) /\ T # {}
  <2>1. \A n \in Nat : 0 .. n \in SUBSET Nat /\ IsFiniteSet(0 .. n)
    BY FS_Interval
  <2> QED
    BY <2>1 DEF FiniteSubsetsOf
<1>2. PICK x \in T : \A y \in T : <<y, x>> \notin StrictSubsetOrdering(Nat)
  BY <1>1, FS_StrictSubsetOrderingWellFounded, WFMin
<1>3. PICK n \in S : x = 0 .. n
  OBVIOUS
<1>4. ASSUME NEW j \in S
      PROVE  n <= j
  <2> SUFFICES ASSUME j < n
               PROVE  FALSE
    OBVIOUS
  <2>1. 0 .. j \subseteq 0 .. n /\ n \in 0 .. n /\ n \notin 0 .. j
    OBVIOUS
  <2>2. <<0 .. j, 0 .. n>> \in StrictSubsetOrdering(Nat) /\ 0 .. j \in T
    BY <2>1 DEF StrictSubsetOrdering
  <2> QED
    BY <1>2, <1>3, <2>2
<1>5. \E i \in S : \A j \in S : i <= j
  BY <1>4
<1> QED
  BY <1>5 DEF First

(* Accept headers, as requests have them.                                  *)
Accepts == Seq([type : STRING \X STRING, q : Int])

(* Their entries have a type and a quality.                                *)
LEMMA HeaderIs ==
    ASSUME NEW header \in Accepts
    PROVE  /\ DOMAIN header = 1 .. Len(header) /\ Len(header) \in Nat
           /\ DOMAIN header \in SUBSET Nat
           /\ \A i \in DOMAIN header : /\ header[i].q \in Int
                                       /\ header[i].type \in STRING \X STRING
<1> DEFINE E == [type : STRING \X STRING, q : Int]
<1>1. header \in Seq(E)
  BY DEF Accepts
<1>2. \A e \in E : e.q \in Int /\ e.type \in STRING \X STRING
  OBVIOUS
<1> HIDE DEF E
<1>3. DOMAIN header = 1 .. Len(header) /\ Len(header) \in Nat
  BY <1>1
<1>4. \A i \in DOMAIN header : header[i] \in E
  BY <1>1
<1> QED
  BY <1>2, <1>3, <1>4

(* Qualities and, of equal ones, places order the entries.                 *)
LEMMA BetterOrders ==
    ASSUME NEW header \in Accepts, NEW S \in SUBSET (DOMAIN header)
    PROVE  Orders(Better(header), S)
<1>1. DOMAIN header \in SUBSET Nat /\ \A i \in DOMAIN header : header[i].q \in Int
  BY HeaderIs
<1>2. ASSUME NEW i \in DOMAIN header, NEW j \in DOMAIN header
      PROVE  <<i, j>> \in Better(header) <=>
               header[i].q > header[j].q \/ (header[i].q = header[j].q /\ i < j)
  BY DEF Better
<1>3. \A i \in S : <<i, i>> \notin Better(header)
  BY <1>1, <1>2
<1>4. \A i, j \in S : i # j => <<i, j>> \in Better(header) \/ <<j, i>> \in Better(header)
  BY <1>1, <1>2
<1>5. \A i, j, k \in S : <<i, j>> \in Better(header) /\ <<j, k>> \in Better(header)
                           => <<i, k>> \in Better(header)
  BY <1>1, <1>2
<1> QED
  BY <1>3, <1>4, <1>5 DEF Orders

(* The first of the sorted entries whose type is good for something is the *)
(* best of all that are.                                                   *)
LEMMA FirstIsBest ==
    ASSUME NEW header \in Accepts, NEW types
    PROVE  LET entries == Preferred(header)
               known == {k \in DOMAIN entries : entries[k].type \in types}
               best == Best(header, types)
           IN  /\ known \in SUBSET Nat
               /\ \A k \in DOMAIN entries : \E i \in DOMAIN header : entries[k] = header[i]
               /\ known = {} => best = {}
               /\ known # {} => \E i \in DOMAIN header :
                                   best = {i} /\ entries[First(known)] = header[i]
<1> DEFINE S == {i \in DOMAIN header : header[i].q > 0}
           order == Arranged(S, Better(header))
           entries == Preferred(header)
           known == {k \in DOMAIN entries : entries[k].type \in types}
           good == Good(header, types)
<1>1. /\ S \in SUBSET (DOMAIN header) /\ DOMAIN header \in SUBSET Nat /\ IsFiniteSet(S)
      /\ \A i \in DOMAIN header : header[i].q \in Int
  <2>1. DOMAIN header = 1 .. Len(header) /\ Len(header) \in Nat
    BY HeaderIs
  <2>2. IsFiniteSet(DOMAIN header)
    BY <2>1, FS_Interval
  <2>3. IsFiniteSet(S)
    BY <2>2, FS_Subset
  <2> QED
    BY <2>3, HeaderIs
<1>2. /\ Cardinality(S) \in Nat /\ DOMAIN order = 1 .. Cardinality(S)
      /\ \A k \in DOMAIN order : order[k] \in S
      /\ \A i \in S : \E k \in DOMAIN order : order[k] = i
      /\ \A k, l \in DOMAIN order : k < l => <<order[k], order[l]>> \in Better(header)
  <2>1. Orders(Better(header), S)
    BY <1>1, BetterOrders
  <2> HIDE DEF S
  <2> QED
    BY <1>1, <2>1, ArrangedIs
<1>3. DOMAIN entries = DOMAIN order /\ \A k \in DOMAIN order : entries[k] = header[order[k]]
  BY DEF Preferred
<1> HIDE DEF entries, order
<1>4. \A k \in known : k \in DOMAIN order /\ order[k] \in good
  BY <1>2, <1>3 DEF Good
<1>5. \A i \in good : i \in DOMAIN header /\ \E k \in known : order[k] = i
  BY <1>2, <1>3 DEF Good
<1>6. known \in SUBSET Nat
  BY <1>2, <1>3
<1> HIDE DEF known, good
<1>7. ASSUME known = {}
      PROVE  Best(header, types) = {}
  BY <1>5, <1>7 DEF Best, good
<1>8. ASSUME known # {}
      PROVE  \E i \in DOMAIN header :
                Best(header, types) = {i} /\ entries[First(known)] = header[i]
  <2> DEFINE k == First(known)
             i == order[k]
  <2>1. k \in known /\ \A l \in known : k <= l
    BY <1>6, <1>8, FirstIs
  <2>2. i \in good /\ i \in DOMAIN header /\ entries[k] = header[i] /\ k \in DOMAIN order
    BY <1>3, <1>4, <1>5, <2>1
  <2>3. ASSUME NEW j \in good
        PROVE  header[j].q < header[i].q \/ (header[j].q = header[i].q /\ i <= j)
    <3>1. PICK l \in known : order[l] = j
      BY <1>5
    <3>2. CASE l = k
      BY <1>1, <2>2, <3>1, <3>2
    <3>3. CASE l # k
      <4>1. k < l /\ l \in DOMAIN order
        BY <1>2, <1>4, <2>1, <2>2, <3>3
      <4>2. <<i, j>> \in Better(header)
        BY <1>2, <2>2, <3>1, <4>1
      <4> HIDE DEF k, i
      <4>3. header[i].q > header[j].q \/ (header[i].q = header[j].q /\ i < j)
        BY <4>2 DEF Better
      <4>4. /\ j \in DOMAIN header /\ header[j].q \in Int /\ header[i].q \in Int
            /\ i \in Nat /\ j \in Nat
        BY <1>1, <1>5, <2>2
      <4> QED
        BY <4>3, <4>4
    <3> QED
      BY <3>2, <3>3
  <2> HIDE DEF k, i
  <2>4. i \in Best(header, types)
    BY <2>2, <2>3 DEF Best, good
  <2>5. ASSUME NEW j \in Best(header, types)
        PROVE  j = i
    <3>1. j \in good /\ (header[i].q < header[j].q \/ (header[i].q = header[j].q /\ j <= i))
      BY <2>2 DEF Best, good
    <3>2. header[j].q < header[i].q \/ (header[j].q = header[i].q /\ i <= j)
      BY <2>3, <3>1
    <3>3. header[j].q \in Int /\ header[i].q \in Int /\ i \in Nat /\ j \in Nat
      BY <1>1, <1>5, <2>2, <3>1
    <3> QED
      BY <3>1, <3>2, <3>3
  <2> QED
    BY <2>2, <2>4, <2>5 DEF k
<1>9. \A k \in DOMAIN entries : \E i \in DOMAIN header : entries[k] = header[i]
  BY <1>2, <1>3
<1> QED
  BY <1>6, <1>7, <1>8, <1>9 DEF entries, known

(* A header is read as the request brought it.                             *)
HeaderInv == branch = "arriving" => accept \in Headers

(* It is changed only when it has been read.                               *)
LEMMA HeaderStep == HeaderInv /\ [NextRoute]_routeVars => HeaderInv'
<1> SUFFICES ASSUME HeaderInv, [NextRoute]_routeVars
             PROVE  HeaderInv'
  OBVIOUS
<1>1. CASE Dispatch
  BY <1>1 DEF Dispatch, HeaderInv
<1>2. CASE SyncStep
  <2>1. UNCHANGED <<branch, accept>>
    BY <1>2 DEF SyncStep, SetStatus, SyncSends, SyncThrows, HandleSyncMode
  <2> QED
    BY <2>1 DEF HeaderInv
<1>3. CASE Negotiate \/ UNCHANGED routeVars \/ (branch = "sse" /\ Next /\ UNCHANGED syncVars)
  <2>1. UNCHANGED <<branch, accept>>
    BY <1>3 DEF Negotiate, routeVars, syncVars
  <2> QED
    BY <2>1 DEF HeaderInv
<1> QED
  BY <1>1, <1>2, <1>3 DEF NextRoute, SyncStep

(* Which mode a request is answered in.                                    *)
LEMMA ModeIsBest ==
    ASSUME HeaderInv, Dispatch
    PROVE  LET best == Best(accept, {EventStream, Json})
           IN  IF best = {} THEN (branch' = "sse") <=> (DefaultMode = "sse")
               ELSE \A i \in best : (branch' = "sse") <=> (accept[i].type = EventStream)
<1> DEFINE types == {EventStream, Json}
           entries == Preferred(accept)
           known == {k \in DOMAIN entries : entries[k].type \in types}
           best == Best(accept, types)
           decided == DetermineMode(accept, DefaultMode)
<1>1. accept \in Accepts
  BY HeaderAssumption DEF HeaderInv, Dispatch, Accepts
<1>2. branch' = IF decided = "json" THEN "sync" ELSE "sse"
  BY DEF Dispatch
<1>3. decided = CASE known = {} -> DefaultMode
                  [] known # {} /\ entries[First(known)].type = EventStream -> "sse"
                  [] OTHER -> "json"
  BY DEF DetermineMode
<1>4. /\ known = {} => best = {}
      /\ known # {} => \E i \in DOMAIN accept : best = {i} /\ entries[First(known)] = accept[i]
  <2> HIDE DEF types
  <2> QED
    BY <1>1, FirstIsBest
<1> HIDE DEF best, decided, known, entries
<1>5. CASE known = {}
  BY <1>2, <1>3, <1>4, <1>5, FormatAssumption DEF best
<1>6. CASE known # {}
  <2>1. PICK i \in DOMAIN accept : best = {i} /\ entries[First(known)] = accept[i]
    BY <1>4, <1>6
  <2>2. decided = IF accept[i].type = EventStream THEN "sse" ELSE "json"
    BY <1>3, <1>6, <2>1
  <2> QED
    BY <1>2, <2>1, <2>2 DEF best
<1> QED
  BY <1>5, <1>6

(* Which format.                                                           *)
LEMMA FormatIsBest ==
    ASSUME HeaderInv, Negotiate
    PROVE  LET has == ToSet(Supported) \cup {EventStream}
               best == Best(accept, has \cup {<<f[1], "*">> : f \in ToSet(Supported)})
           IN  IF best = {} THEN format' = Supported[1]
               ELSE \A i \in best :
                      \/ format' = accept[i].type
                      \/ /\ accept[i].type[2] = "*"
                         /\ format' \in ToSet(Supported)
                         /\ format'[1] = accept[i].type[1]
<1> DEFINE types == ToSet(Supported) \cup {EventStream} \cup {<<f[1], "*">> : f \in ToSet(Supported)}
           entries == Preferred(accept)
           known == {k \in DOMAIN entries : entries[k].type \in types}
           Known == {k \in DOMAIN entries : \/ entries[k].type = EventStream
                                           \/ FormatsFor(entries[k].type, Supported) # {}}
           best == Best(accept, types)
           type == entries[First(Known)].type
           decided == DetermineSyncFormat(accept, Supported)
           Claim == IF best = {} THEN format' = Supported[1]
                    ELSE \A i \in best :
                           \/ format' = accept[i].type
                           \/ /\ accept[i].type[2] = "*"
                              /\ format' \in ToSet(Supported)
                              /\ format'[1] = accept[i].type[1]
<1>1. accept \in Accepts
  BY HeaderAssumption DEF HeaderInv, Negotiate, Accepts
<1>2. format' = decided
  BY DEF Negotiate
<1>3. decided = CASE Known = {} -> Supported[1]
                  [] Known # {} /\ type = EventStream -> EventStream
                  [] OTHER -> Supported[First(FormatsFor(type, Supported))]
  BY DEF DetermineSyncFormat
<1>4. /\ known = {} => best = {}
      /\ known # {} => \E i \in DOMAIN accept : best = {i} /\ entries[First(known)] = accept[i]
  <2> HIDE DEF types
  <2> QED
    BY <1>1, FirstIsBest
<1>5. ASSUME NEW t \in STRING \X STRING
      PROVE  t \in types <=> t = EventStream \/ FormatsFor(t, Supported) # {}
  <2>1. t = <<t[1], t[2]>>
    OBVIOUS
  <2>2. ToSet(Supported) = {Supported[j] : j \in DOMAIN Supported}
    BY DEF ToSet
  <2>3. t \in {<<f[1], "*">> : f \in ToSet(Supported)} <=>
          t[2] = "*" /\ \E j \in DOMAIN Supported : Supported[j][1] = t[1]
    BY <2>1, <2>2
  <2> QED
    BY <2>2, <2>3 DEF FormatsFor
<1>6. \A k \in DOMAIN entries : entries[k].type \in STRING \X STRING
  <2>1. \A k \in DOMAIN entries : \E i \in DOMAIN accept : entries[k] = accept[i]
    BY <1>1, FirstIsBest
  <2> HIDE DEF entries
  <2> QED
    BY <1>1, <2>1, HeaderIs
<1> HIDE DEF types
<1>7. Known = known
  <2> HIDE DEF entries
  <2> QED
    BY <1>5, <1>6
<1> HIDE DEF best, decided, known, Known, entries
<1>8. known = {} => Claim
  BY <1>2, <1>3, <1>4, <1>7
<1>9. ASSUME known # {} PROVE Claim
  <2>1. PICK i \in DOMAIN accept : best = {i} /\ entries[First(known)] = accept[i]
    BY <1>4, <1>9
  <2>2. type = accept[i].type
    BY <1>7, <2>1
  <2> HIDE DEF type
  <2>3. CASE type = EventStream
    BY <1>2, <1>3, <1>7, <1>9, <2>1, <2>2, <2>3
  <2>4. CASE type # EventStream
    <3> DEFINE fits == FormatsFor(type, Supported)
               f == First(fits)
    <3>1. decided = Supported[f]
      BY <1>3, <1>7, <1>9, <2>4
    <3>2. First(known) \in known
      BY <1>1, <1>9, FirstIsBest, FirstIs DEF known, entries
    <3>3. fits # {}
      BY <1>7, <2>4, <3>2 DEF Known, type
    <3>4. fits \in SUBSET Nat /\ fits \subseteq DOMAIN Supported
      BY FormatAssumption DEF FormatsFor
    <3>5. f \in fits
      <4> HIDE DEF fits
      <4> QED
        BY <3>3, <3>4, FirstIs
    <3> HIDE DEF f
    <3>6. Supported[f] = type \/ (type[2] = "*" /\ Supported[f][1] = type[1])
      BY <3>5 DEF FormatsFor
    <3>7. Supported[f] \in ToSet(Supported)
      BY <3>4, <3>5 DEF ToSet
    <3>8. \/ format' = accept[i].type
          \/ /\ accept[i].type[2] = "*"
             /\ format' \in ToSet(Supported)
             /\ format'[1] = accept[i].type[1]
      BY <1>2, <2>2, <3>1, <3>6, <3>7
    <3> QED
      BY <2>1, <3>8
  <2> QED
    BY <2>3, <2>4
<1>10. Claim
  BY <1>8, <1>9
<1> QED
  BY <1>10 DEF best, types

(* What a client is answered with is what it likes best.                   *)
THEOREM ClientAlwaysGetsWhatItPrefers == RouteSpec => ClientGetsWhatItPrefers
<1> DEFINE Chosen ==
      /\ branch = "arriving" /\ branch' # branch =>
            LET best == Best(accept, {EventStream, Json})
            IN  IF best = {} THEN (branch' = "sse") <=> (DefaultMode = "sse")
                ELSE \A i \in best : (branch' = "sse") <=> (accept[i].type = EventStream)
      /\ format' # format =>
            LET has == ToSet(Supported) \cup {EventStream}
                best == Best(accept, has \cup {<<f[1], "*">> : f \in ToSet(Supported)})
            IN  IF best = {} THEN format' = Supported[1]
                ELSE \A i \in best :
                       \/ format' = accept[i].type
                       \/ /\ accept[i].type[2] = "*"
                          /\ format' \in ToSet(Supported)
                          /\ format'[1] = accept[i].type[1]
<1>1. InitRoute => HeaderInv
  BY DEF InitRoute, HeaderInv
<1>2. ASSUME HeaderInv, [NextRoute]_routeVars
      PROVE  [Chosen]_routeVars
  <2>1. CASE Dispatch
    <3>1. format' = format
      BY <2>1 DEF Dispatch
    <3> QED
      BY <1>2, <2>1, <3>1, ModeIsBest
  <2>2. CASE Negotiate
    <3>1. branch' = branch
      BY <2>2 DEF Negotiate
    <3> QED
      BY <1>2, <2>2, <3>1, FormatIsBest
  <2>3. CASE ~Dispatch /\ ~Negotiate
    <3>1. UNCHANGED format /\ (branch = "arriving" => UNCHANGED branch)
      <4>1. CASE SyncStep
        BY <4>1 DEF SyncStep, SetStatus, SyncSends, SyncThrows, HandleSyncMode
      <4>2. CASE UNCHANGED routeVars \/ UNCHANGED syncVars
        BY <4>2 DEF routeVars, syncVars
      <4> QED
        BY <1>2, <2>3, <4>1, <4>2 DEF NextRoute, SyncStep
    <3> QED
      BY <3>1
  <2> QED
    BY <2>1, <2>2, <2>3
<1>3. HeaderInv /\ [NextRoute]_routeVars => HeaderInv'
  BY HeaderStep
<1> QED
  BY <1>1, <1>2, <1>3, PTL DEF RouteSpec, ClientGetsWhatItPrefers

=============================================================================
