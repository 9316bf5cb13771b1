----------------------------- MODULE SSESession -----------------------------
(***************************************************************************)
(* The life of one SSE request, lib/routes/fastifyRouteUtils.ts            *)
(* (createSSEContext), lib/routes/fastifyRouteBuilder.ts (the route        *)
(* handler) and lib/sse/AbstractSSEController.ts (registration, sendEvent, *)
(* closeConnection).  Three threads of control meet in it: the user's      *)
(* handler and the code around it, the listener on the request's socket,   *)
(* and the replay after a reconnection; the rest of the program may close  *)
(* the connection or send to it at any time.  Connection ids are fresh, so *)
(* one session stands for all.                                             *)
(*                                                                         *)
(* @fastify/sse (external): close() of an open stream makes isConnected    *)
(* false and calls the onClose callbacks, of a dead one does nothing or    *)
(* throws; send() on a dead stream throws; a lost client makes isConnected *)
(* false and may call the callbacks before the socket's own listeners run. *)
(***************************************************************************)
EXTENDS Naturals, Sequences

CONSTANTS
    MaxCalls,  \* bound: session.send() calls that await a reconnection
    MaxReplay, \* bound: events replayed
    Habits  \* what the embedding program does beyond the common case:
            \*   "lateStart"      start() once the client has gone
            \*   "failAlive"      a send that throws on a live stream
            \*   "unguardedJoin"  controller.joinRoom of an unregistered session
            \*   "manualReplay"   onReconnect that calls session.send
            \*   "earlyHeaders"   sse.sendHeaders()

ASSUME HabitsAssumption ==
    Habits \subseteq {"lateStart", "failAlive", "unguardedJoin",
                      "manualReplay", "earlyHeaders"}
ASSUME TrafficAssumption == MaxCalls \in Nat /\ MaxReplay \in Nat

VARIABLES
    handler,     \* where the route handler is
    mode,        \* the mode given to start(), "none" before
    responded,   \* responseSent
    headersSent, \* headersSent
    responses,   \* how often the HTTP response was begun
    connected,   \* sse.isConnected
    socket,      \* the request's socket
    listener,    \* its 'close' listener; "missing": attached too late
    registered,  \* the controller's connections has the session
    inRoom,      \* the room manager has the session in a room
    onClose,     \* the route's onClose: "never", "running", "done"
    replay,      \* the reconnection: reconnectionPromise settles at "done"
    pending,     \* session.send() calls that await reconnectionPromise,
                 \* first come, first: [n, by], its number and its caller
    calls,       \* history: how many of them there have been
    wire,        \* history: [is, n], what a reconnecting client is written:
                 \* "replayed", "sent" by call n, or "direct"
    hooks        \* history: hooks in the order they were called

traffic == <<pending, calls, wire>>
vars == <<handler, mode, responded, headersSent, responses, connected, socket,
          listener, registered, inRoom, onClose, replay, traffic, hooks>>

started == mode # "none"

\* deviation: the end of the replay does not resolve reconnectionPromise
ReplayingEver == replay # "none"
\* reconnectionPromise exists and is not resolved
Replaying == replay \in {"running", "selfWait"}

Init ==
    /\ handler = "running"
    /\ mode = "none"
    /\ responded = FALSE
    /\ headersSent = FALSE
    /\ responses = 0
    /\ \/ socket = "open" /\ connected = TRUE /\ listener = "armed"
       \* the client left while an asynchronous preHandler ran
       \/ socket = "closed" /\ connected = FALSE /\ listener = "missing"
    /\ registered = FALSE
    /\ inRoom = FALSE
    /\ onClose = "never"
    /\ replay = "none"
    /\ pending = << >> /\ calls = 0 /\ wire = << >>
    /\ hooks = << >>

-----------------------------------------------------------------------------
(* Effects shared by several steps.  A tail of hooks is called in order.   *)

CallsOnClose == started /\ onClose = "never"

\* callOnClose: the hook runs up to its first await; at most once
CallOnClose == onClose' = IF CallsOnClose THEN "running" ELSE onClose
OnCloseHook == IF CallsOnClose THEN <<"onClose">> ELSE << >>

\* unregisterConnection: the hook, leaveAll, connections.delete; idempotent
Unregister ==
    /\ registered' = FALSE
    /\ inRoom' = IF registered THEN FALSE ELSE inRoom
\* deviation: unregistering twice runs the hook twice
ClosedHookAlways == IF started THEN <<"onConnectionClosed">> ELSE << >>
ClosedHook == IF registered THEN <<"onConnectionClosed">> ELSE << >>

\* sse.close() and then unregisterConnection
CloseAndUnregister ==
    /\ connected' = FALSE
    /\ Unregister
    /\ IF connected
       THEN CallOnClose /\ hooks' = hooks \o OnCloseHook \o ClosedHook
       ELSE UNCHANGED onClose /\ hooks' = hooks \o ClosedHook

Sent(n) == [is |-> "sent", n |-> n]
Replayed == [is |-> "replayed", n |-> 0]
Direct == [is |-> "direct", n |-> 0]

\* sse.send(): direct writes are kept while the replay goes on, a run of them
\* as one
Writes(event) ==
    wire' = IF event = Direct /\ (~Replaying \/ (wire # << >> /\ wire[Len(wire)] = Direct))
            THEN wire ELSE Append(wire, event)

\* sendEvent: nothing for an unregistered connection, or for data that fail
\* their schema, which the caller is told; a throwing send unregisters the
\* connection and is not passed on
SendEvent(event) ==
    \/ UNCHANGED <<registered, inRoom, hooks, wire>>
    \/ /\ registered /\ connected
       /\ Writes(event)
       /\ UNCHANGED <<registered, inRoom, hooks>>
    \/ /\ registered
       /\ ~connected \/ "failAlive" \in Habits
       /\ Unregister
       /\ hooks' = hooks \o ClosedHook
       /\ UNCHANGED wire

-----------------------------------------------------------------------------
(* The handler, between two awaits of its own                              *)

\* sse.sendHeaders()
SendHeaders ==
    /\ handler = "running"
    /\ "earlyHeaders" \in Habits
    /\ ~headersSent /\ ~started /\ ~responded
    /\ headersSent' = TRUE
    /\ responses' = responses + 1
    /\ UNCHANGED <<handler, mode, responded, connected, socket, listener,
                   registered, inRoom, onClose, replay, traffic, hooks>>

\* deviation: start() does not look at responseSent
StartAfterRespond(m, reconnects) ==
    /\ handler = "running"
    /\ ~started
    /\ socket = "closed" => "lateStart" \in Habits
    /\ mode' = m
    /\ headersSent' = TRUE
    /\ responses' = IF headersSent THEN responses ELSE responses + 1
    /\ registered' = TRUE
    /\ replay' = IF reconnects THEN "running" ELSE "none"
    /\ hooks' = hooks \o <<"onConnectionEstablished", "onConnect">>
    /\ UNCHANGED <<handler, responded, connected, socket, listener, inRoom,
                   onClose, traffic>>

\* deviation: start() records its mode but not that the headers are sent
StartUnrecorded(m, reconnects) ==
    /\ handler = "running"
    /\ ~started /\ ~responded
    /\ socket = "closed" => "lateStart" \in Habits
    /\ mode' = m
    /\ responses' = IF headersSent THEN responses ELSE responses + 1
    /\ registered' = TRUE
    /\ replay' = IF reconnects THEN "running" ELSE "none"
    /\ hooks' = hooks \o <<"onConnectionEstablished", "onConnect">>
    /\ UNCHANGED <<handler, responded, headersSent, connected, socket, listener,
                   inRoom, onClose, traffic>>

\* sse.start(m), from a client that reconnects or does not
Start(m, reconnects) ==
    /\ handler = "running"
    /\ ~started /\ ~responded
    /\ socket = "closed" => "lateStart" \in Habits
    /\ mode' = m
    /\ headersSent' = TRUE
    /\ responses' = IF headersSent THEN responses ELSE responses + 1
    /\ registered' = TRUE
    /\ replay' = IF reconnects THEN "running" ELSE "none"
    /\ hooks' = hooks \o <<"onConnectionEstablished", "onConnect">>
    /\ UNCHANGED <<handler, responded, connected, socket, listener, inRoom,
                   onClose, traffic>>

\* sse.respond(code, body): the response itself is sent after the handler
Respond ==
    /\ handler = "running"
    /\ ~started
    /\ responded' = TRUE
    /\ UNCHANGED <<handler, mode, headersSent, responses, connected, socket,
                   listener, registered, inRoom, onClose, replay, traffic,
                   hooks>>

\* session.send() of a session without reconnectionPromise writes at once
Send ==
    /\ handler = "running"
    /\ started /\ replay = "none"
    /\ SendEvent(Direct)
    /\ UNCHANGED <<handler, mode, responded, headersSent, responses, connected,
                   socket, listener, onClose, replay, pending, calls>>

\* deviation: reconnectionPromise is dropped when it resolves, so that later
\* calls await nothing
CallSendUnqueued(by) ==
    /\ started /\ replay # "none"
    /\ calls < MaxCalls
    /\ by = "handler" => handler = "running"
    /\ calls' = calls + 1
    /\ IF Replaying
       THEN /\ pending' = Append(pending, [n |-> calls + 1, by |-> by])
            /\ handler' = IF by = "handler" THEN "sending" ELSE handler
            /\ UNCHANGED <<registered, inRoom, wire, hooks>>
       ELSE SendEvent(Sent(calls + 1)) /\ UNCHANGED <<handler, pending>>
    /\ UNCHANGED <<mode, responded, headersSent, responses, connected, socket,
                   listener, onClose, replay>>

\* session.send() awaits reconnectionPromise first, called by the handler,
\* which awaits the call, or by other code, or by a handler that does not
CallSend(by) ==
    /\ started /\ replay # "none"
    /\ calls < MaxCalls
    /\ by = "handler" => handler = "running"
    /\ handler' = IF by = "handler" THEN "sending" ELSE handler
    /\ calls' = calls + 1
    /\ pending' = Append(pending, [n |-> calls + 1, by |-> by])
    /\ UNCHANGED <<mode, responded, headersSent, responses, connected, socket,
                   listener, registered, inRoom, onClose, replay, wire, hooks>>

\* ... and writes: calls go on in the order in which they came to await
SendGoesOn ==
    /\ pending # << >>
    /\ ~Replaying
    /\ SendEvent(Sent(Head(pending).n))
    /\ pending' = Tail(pending)
    /\ handler' = IF Head(pending).by = "handler" THEN "running" ELSE handler
    /\ UNCHANGED <<mode, responded, headersSent, responses, connected, socket,
                   listener, onClose, replay, calls>>

\* session.sendStream() writes a message; on a dead stream it throws, which
\* the handler sees
SendStream ==
    /\ handler = "running"
    /\ started /\ connected
    /\ Writes(Direct)
    /\ UNCHANGED <<handler, mode, responded, headersSent, responses, connected,
                   socket, listener, registered, inRoom, onClose, replay,
                   pending, calls, hooks>>

\* deviation: a dead session joins like any other
JoinUnchecked ==
    /\ handler = "running"
    /\ started
    /\ inRoom' = TRUE
    /\ UNCHANGED <<handler, mode, responded, headersSent, responses, connected,
                   socket, listener, registered, onClose, replay, traffic,
                   hooks>>

\* session.rooms.join(room): a dead session is closed instead
Join ==
    /\ handler = "running"
    /\ started
    /\ IF connected /\ socket = "open"
       THEN inRoom' = TRUE /\ UNCHANGED <<connected, registered, onClose, hooks>>
       ELSE CloseAndUnregister
    /\ UNCHANGED <<handler, mode, responded, headersSent, responses, socket,
                   listener, replay, traffic>>

\* controller.joinRoom(id, room)
ControllerJoin ==
    /\ handler = "running"
    /\ started
    /\ registered \/ "unguardedJoin" \in Habits
    /\ inRoom' = TRUE
    /\ UNCHANGED <<handler, mode, responded, headersSent, responses, connected,
                   socket, listener, registered, onClose, replay, traffic,
                   hooks>>

\* session.rooms.leave(room)
Leave ==
    /\ handler = "running"
    /\ inRoom
    /\ inRoom' = FALSE
    /\ UNCHANGED <<handler, mode, responded, headersSent, responses, connected,
                   socket, listener, registered, onClose, replay, traffic,
                   hooks>>

-----------------------------------------------------------------------------
(* The end of the handler                                                  *)

\* reply.send(): the JSON body of respond, or of an error before start
Reply ==
    /\ handler' = "done"
    /\ responses' = responses + 1
    /\ UNCHANGED <<mode, responded, headersSent, connected, socket, listener,
                   registered, inRoom, onClose, replay, traffic, hooks>>

\* returned after respond(), or having done neither, which is an error
ReturnUnstarted ==
    /\ handler = "running"
    /\ responded \/ ~started
    /\ Reply

ReturnAutoClose ==
    /\ handler = "running"
    /\ ~responded
    /\ mode = "autoClose"
    /\ handler' = "done"
    /\ IF registered THEN CloseAndUnregister   \* closeConnection
       ELSE UNCHANGED <<connected, registered, inRoom, onClose, hooks>>
    /\ UNCHANGED <<mode, responded, headersSent, responses, socket, listener,
                   replay, traffic>>

\* the handler is over but the request waits for connectionClosed
ReturnKeepAlive ==
    /\ handler = "running"
    /\ ~responded
    /\ mode = "keepAlive"
    /\ handler' = "waiting"
    /\ UNCHANGED <<mode, responded, headersSent, responses, connected, socket,
                   listener, registered, inRoom, onClose, replay, traffic,
                   hooks>>

ConnectionClosed ==
    /\ handler = "waiting"
    /\ listener = "ran"
    /\ handler' = "done"
    /\ UNCHANGED <<mode, responded, headersSent, responses, connected, socket,
                   listener, registered, inRoom, onClose, replay, traffic,
                   hooks>>

ThrowUnstarted ==
    /\ handler = "running"
    /\ ~started
    /\ Reply

\* handleSSEError sends the error event and awaits it
Throw ==
    /\ handler = "running"
    /\ started
    /\ handler' = "reporting"
    /\ \/ connected /\ Writes(Direct)
       \/ (~connected \/ "failAlive" \in Habits) /\ UNCHANGED wire
    /\ UNCHANGED <<mode, responded, headersSent, responses, connected, socket,
                   listener, registered, inRoom, onClose, replay, pending, calls,
                   hooks>>

\* ... and closes the session, whatever became of the event
ErrorReported ==
    /\ handler = "reporting"
    /\ handler' = "done"
    /\ CloseAndUnregister
    /\ UNCHANGED <<mode, responded, headersSent, responses, socket, listener,
                   replay, traffic>>

-----------------------------------------------------------------------------
(* The socket and its listener                                             *)

\* the client goes; pluginFirst: @fastify/sse calls its callbacks first
SocketCloses(pluginFirst) ==
    /\ socket = "open"
    /\ socket' = "closed"
    /\ connected' = FALSE
    /\ CallOnClose                       \* 'server' if pluginFirst, or 'client'
    /\ listener' = IF CallsOnClose /\ ~pluginFirst THEN "awaiting" ELSE "resuming"
    /\ hooks' = hooks \o OnCloseHook
    /\ UNCHANGED <<handler, mode, responded, headersSent, responses, registered,
                   inRoom, replay, traffic>>

OnCloseSettles ==
    /\ onClose = "running"
    /\ onClose' = "done"
    /\ UNCHANGED <<handler, mode, responded, headersSent, responses, connected,
                   socket, listener, registered, inRoom, replay, traffic, hooks>>

\* deviation: only a listener that called onClose itself unregisters
ListenerResumesIfAwaiting ==
    /\ \/ listener = "awaiting" /\ onClose = "done"
       \/ listener = "resuming"
    /\ listener' = "ran"
    /\ IF started /\ listener = "awaiting"
       THEN Unregister /\ hooks' = hooks \o ClosedHook
       ELSE UNCHANGED <<registered, inRoom, hooks>>
    /\ UNCHANGED <<handler, mode, responded, headersSent, responses, connected,
                   socket, onClose, replay, traffic>>

\* the listener unregisters the session and resolves connectionClosed
ListenerResumes ==
    /\ \/ listener = "awaiting" /\ onClose = "done"
       \/ listener = "resuming"
    /\ listener' = "ran"
    /\ IF started THEN Unregister /\ hooks' = hooks \o ClosedHook
                  ELSE UNCHANGED <<registered, inRoom, hooks>>
    /\ UNCHANGED <<handler, mode, responded, headersSent, responses, connected,
                   socket, onClose, replay, traffic>>

-----------------------------------------------------------------------------
(* The replay                                                              *)

\* sendReplayEvents writes an event itself; a dead stream ends the replay
ReplayWrites ==
    /\ replay = "running"
    /\ connected
    /\ Len(SelectSeq(wire, LAMBDA event : event = Replayed)) < MaxReplay
    /\ Writes(Replayed)
    /\ UNCHANGED <<handler, mode, responded, headersSent, responses, connected,
                   socket, listener, registered, inRoom, onClose, replay, pending,
                   calls, hooks>>

\* onReconnect and the replay are over, also if either threw
ReplayEnds ==
    /\ replay = "running"
    /\ replay' = "done"
    /\ UNCHANGED <<handler, mode, responded, headersSent, responses, connected,
                   socket, listener, registered, inRoom, onClose, traffic, hooks>>

\* onReconnect awaits session.send(), which awaits the end of onReconnect
ReplayCallsSend ==
    /\ replay = "running"
    /\ "manualReplay" \in Habits
    /\ replay' = "selfWait"
    /\ UNCHANGED <<handler, mode, responded, headersSent, responses, connected,
                   socket, listener, registered, inRoom, onClose, traffic, hooks>>

-----------------------------------------------------------------------------
(* The rest of the program                                                 *)

\* closeConnection(id), on its own or from closeAllConnections
CloseConnection ==
    /\ registered
    /\ CloseAndUnregister
    /\ UNCHANGED <<handler, mode, responded, headersSent, responses, socket,
                   listener, replay, traffic>>

\* a broadcast, or sendEventInternal, sends to the connection
Broadcast ==
    /\ registered
    /\ SendEvent(Direct)
    /\ UNCHANGED <<handler, mode, responded, headersSent, responses, connected,
                   socket, listener, onClose, replay, pending, calls>>

-----------------------------------------------------------------------------
Next ==
    \/ SendHeaders
    \/ \E m \in {"autoClose", "keepAlive"}, reconnects \in BOOLEAN :
            Start(m, reconnects)
    \/ Respond
    \/ Send
    \/ \E by \in {"handler", "other"} : CallSend(by)
    \/ SendGoesOn
    \/ SendStream
    \/ Join
    \/ ControllerJoin
    \/ Leave
    \/ ReturnUnstarted
    \/ ReturnAutoClose
    \/ ReturnKeepAlive
    \/ ConnectionClosed
    \/ ThrowUnstarted
    \/ Throw
    \/ ErrorReported
    \/ \E pluginFirst \in BOOLEAN : SocketCloses(pluginFirst)
    \/ OnCloseSettles
    \/ ListenerResumes
    \/ ReplayWrites
    \/ ReplayEnds
    \/ ReplayCallsSend
    \/ CloseConnection
    \/ Broadcast

Spec == Init /\ [][Next]_vars

\* The event loop gets to every continuation whose promise is settled, and
\* the user's onClose and onReconnect settle.  Nothing makes the handler
\* return or the client leave.
Fairness ==
    /\ WF_vars(SendGoesOn)
    /\ WF_vars(ConnectionClosed)
    /\ WF_vars(ErrorReported)
    /\ WF_vars(OnCloseSettles)
    /\ WF_vars(ListenerResumes)
    /\ WF_vars(ReplayEnds \/ ReplayCallsSend)

FairSpec == Spec /\ Fairness

-----------------------------------------------------------------------------
TypeOK ==
    /\ handler \in {"running", "sending", "reporting", "waiting", "done"}
    /\ mode \in {"none", "autoClose", "keepAlive"}
    /\ {responded, headersSent, connected, registered, inRoom} \subseteq BOOLEAN
    /\ responses \in Nat
    /\ socket \in {"open", "closed"}
    /\ listener \in {"armed", "missing", "awaiting", "resuming", "ran"}
    /\ onClose \in {"never", "running", "done"}
    /\ replay \in {"none", "running", "selfWait", "done"}
    /\ pending \in Seq([n : Nat, by : {"handler", "other"}])
    /\ calls \in Nat
    /\ wire \in Seq([is : {"sent", "replayed", "direct"}, n : Nat])
    /\ hooks \in Seq({"onConnectionEstablished", "onConnect", "onClose",
                      "onConnectionClosed"})
    \* what exists from start() on
    /\ registered \/ replay # "none" \/ onClose # "never" => started
    /\ started => headersSent

Calls(hook) == {i \in DOMAIN hooks : hooks[i] = hook}

\* Every hook runs at most once in a session, however its ends race (client,
\* server, failed send, error), and the controller's closing hook has run
\* exactly when a session that was registered is no longer.
HooksOnce ==
    /\ \A i, j \in DOMAIN hooks : hooks[i] = hooks[j] => i = j
    /\ started => (registered <=> Calls("onConnectionClosed") = {})

\* A session that is not registered is in no room: nothing would remove it
\* any more, and it would be offered every broadcast of the room.
NoStaleMember == inRoom => registered

\* "If reconnection is in progress, wait for it before sending to maintain
\* event ordering" (fastifyRouteUtils.ts:288): what session.send writes stands
\* behind every replayed event, and in the order of the calls, of which several
\* may be waiting and others be made while those go on.  What does not wait
\* (sendStream, broadcasts, the error event) may stand anywhere.
SendsInOrder ==
    \A i, j \in DOMAIN wire :
        i < j /\ wire[i].is = "sent" =>
            /\ wire[j].is # "replayed"
            /\ wire[j].is = "sent" => wire[i].n < wire[j].n

\* A request gets one response: a stream, or a body, or an error body.  Only
\* headers sent ahead that no start() follows get a second one on top.
OneResponse == started \/ ~headersSent => responses <= 1

\* the listener on the socket, the hook and the handler have all finished
Over ==
    /\ socket = "closed"
    /\ handler = "done"
    /\ listener \in {"ran", "missing"}
    /\ onClose # "running"

\* "Client closes session when done ... Server cleans up via
\* `onConnectionClosed()` hook" (README.md:1254): of a keepAlive session
\* whose client has gone and whose handler has ended.
ServerCleansUp ==
    Over /\ mode = "keepAlive" => Calls("onConnectionClosed") # {}

\* "When a connection closes (client disconnect or server close), it
\* automatically leaves all rooms" (README.md:1823).
LeavesAllRooms == Over => ~inRoom

\* A client that leaves after start() is cleaned up after: the hook runs, the
\* session is unregistered, and a keepAlive request is released.
CleanedUp ==
    (socket = "closed" /\ started)
        ~> (~registered /\ onClose = "done" /\ handler # "waiting")

\* A session.send() that waits for the replay goes on at some time, however
\* the replay ends, unless onReconnect waits for itself.
SendsGoOn == (handler = "sending") ~> (handler # "sending" \/ replay = "selfWait")
=============================================================================
