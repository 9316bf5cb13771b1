---------------------------- MODULE DualModeRoute ----------------------------
(***************************************************************************)
(* A dual-mode route, buildDualModeRouteInternal of                        *)
(* lib/routes/fastifyRouteBuilder.ts: the Accept header decides between    *)
(* the SSE session of SSESession and handleSyncMode, which checks what the *)
(* sync handler returns.                                                   *)
(*                                                                         *)
(* Fastify (external) answers an error with status 500, unless the reply   *)
(* has been given a status other than 200, which is kept.                  *)
(***************************************************************************)
EXTENDS SSESession, ContentNegotiation

CONSTANTS
    Headers,       \* bound: the Accept headers of requests
    Supported,     \* formats of a handler that negotiates by itself
    DefaultMode,   \* the route's default mode
    Status,        \* bound: what a sync handler may set the status to
    Schemas        \* the codes the contract has a body schema for, 200 for
                   \* that of all successes

ASSUME HeaderAssumption ==
    \A header \in Headers : header \in Seq([type : STRING \X STRING, q : Int])

ASSUME FormatAssumption ==
    /\ Supported \in Seq(STRING \X STRING) /\ Supported # << >>
    /\ DefaultMode \in {"sse", "json"}

VARIABLES
    accept,   \* the header, until it has been read
    branch,   \* "arriving", "sse" or "sync"
    format,   \* what determineSyncFormat said, "none" before
    status,   \* reply.statusCode
    answer    \* what was sent: [what, status, body, headersValid]

syncVars == <<accept, branch, format, status, answer>>
routeVars == <<vars, syncVars>>

Unanswered == [what |-> "none", status |-> 0, body |-> {}, headersValid |-> TRUE]

InitRoute ==
    /\ Init
    /\ accept \in Headers
    /\ branch = "arriving" /\ format = << >>
    /\ status = 200 /\ answer = Unanswered

-----------------------------------------------------------------------------
Dispatch ==
    /\ branch = "arriving"
    /\ branch' = IF DetermineMode(accept, DefaultMode) = "json" THEN "sync" ELSE "sse"
    /\ accept' = << >>
    /\ UNCHANGED <<vars, format, status, answer>>

\* a sync handler with several formats asks which one (the routes do not)
Negotiate ==
    /\ branch = "arriving" /\ format = << >>
    /\ format' = DetermineSyncFormat(accept, Supported)
    /\ UNCHANGED <<vars, accept, branch, status, answer>>

Deciding == branch = "sync" /\ handler = "running"

SetStatus(code) ==
    /\ Deciding /\ answer = Unanswered
    /\ status' = code
    /\ UNCHANGED <<vars, accept, branch, format, answer>>

Answer(what, code, body, headersValid) ==
    /\ answer' = [what |-> what, status |-> code, body |-> body,
                  headersValid |-> headersValid]
    /\ responses' = responses + 1

ErrorStatus(code) == IF code = 200 THEN 500 ELSE code

Unchanged == UNCHANGED <<mode, responded, headersSent, connected, socket, listener,
                         registered, inRoom, onClose, replay, traffic, hooks>>

\* the handler sends the reply itself, which nobody checks
SyncSends ==
    /\ Deciding /\ answer = Unanswered
    /\ Answer("own", status, {}, TRUE)
    /\ Unchanged /\ UNCHANGED <<handler, accept, branch, format, status>>

SyncThrows ==
    /\ Deciding
    /\ handler' = "done"
    /\ IF answer = Unanswered
         THEN Answer("thrown", ErrorStatus(status), {}, TRUE)
         ELSE UNCHANGED <<answer, responses>>
    /\ Unchanged /\ UNCHANGED <<accept, branch, format, status>>

\* the schema a body is checked with, a success all by one; none: no check
Conforms(body, code) ==
    LET key == IF code \in 200 .. 299 THEN 200 ELSE code
    IN  key \in Schemas => key \in body

Conclude(body, code, headersValid) ==
    IF Conforms(body, status) /\ headersValid
    THEN Answer("body", code, body, headersValid)
    ELSE Answer("error", ErrorStatus(code), body, headersValid)

\* deviation: an invalid body leaves the status as it is
HandleSyncModeKeepsStatus(body, headersValid) ==
    /\ Deciding
    /\ handler' = "done"
    /\ IF answer # Unanswered THEN UNCHANGED <<answer, responses, status>>
       ELSE status' = status /\ Conclude(body, status', headersValid)
    /\ Unchanged /\ UNCHANGED <<accept, branch, format>>

\* the handler returns a body, given by the schemas it conforms to; of the
\* two checks only the body's resets the status
HandleSyncMode(body, headersValid) ==
    /\ Deciding
    /\ handler' = "done"
    /\ IF answer # Unanswered THEN UNCHANGED <<answer, responses, status>>
       ELSE /\ status' = IF Conforms(body, status) THEN status ELSE 500
            /\ Conclude(body, status', headersValid)
    /\ Unchanged /\ UNCHANGED <<accept, branch, format>>

NextRoute ==
    \/ branch = "sse" /\ Next /\ UNCHANGED syncVars
    \/ Dispatch \/ Negotiate
    \/ \E code \in Status : SetStatus(code)
    \/ SyncSends \/ SyncThrows
    \/ \E body \in SUBSET Schemas, headersValid \in BOOLEAN :
            HandleSyncMode(body, headersValid)

RouteSpec == InitRoute /\ [][NextRoute]_routeVars /\ Fairness

-----------------------------------------------------------------------------
(* What a client asks for, told without sorting.                           *)

\* the entries whose type is good for something, and the places of the best
Good(header, types) == {i \in DOMAIN header : header[i].q > 0 /\ header[i].type \in types}
Best(header, types) ==
    {i \in Good(header, types) : \A j \in Good(header, types) :
        header[j].q < header[i].q \/ (header[j].q = header[i].q /\ i <= j)}

\* A client gets the mode, or the format, of the first of the types it likes
\* best, among those the route has; q=0 and a q that is no number reject a
\* type, and a client that names none gets the default
\* (fastifyRouteUtils.ts:627, 697).
ClientGetsWhatItPrefers ==
    [][/\ branch = "arriving" /\ branch' # branch =>
            LET best == Best(accept, {EventStream, Json})
            IN  IF best = {} THEN (branch' = "sse") <=> (DefaultMode = "sse")
                ELSE \A i \in best : (branch' = "sse") <=> (accept[i].type = EventStream)
       /\ format' # format =>
            LET has == ToSet(Supported) \cup {EventStream}
                best == Best(accept, has \cup {<<f[1], "*">> : f \in ToSet(Supported)})
            IN  IF best = {} THEN format' = Supported[1]
                ELSE \A i \in best :
                       \/ format' = accept[i].type
                       \/ /\ accept[i].type[2] = "*"
                          /\ format' \in ToSet(Supported)
                          /\ format'[1] = accept[i].type[1]]_routeVars

\* A success carries a body of the success schema and a failure one of its
\* own schema, if there is one, with valid headers; a body that is invalid for
\* the status it was returned with becomes a 500; and no handler that also
\* sends by itself makes it two responses (fastifyRouteBuilder.ts:203).
InvalidBodyIsServerError ==
    LET success == answer.status \in 200 .. 299
    IN  /\ answer.what = "body" =>
               /\ success => (200 \in Schemas => 200 \in answer.body)
               /\ ~success /\ answer.status \in Schemas => answer.status \in answer.body
               /\ answer.headersValid
        /\ answer.what = "error" /\ answer.headersValid => answer.status = 500
        /\ branch = "sync" => responses <= 1
=============================================================================
