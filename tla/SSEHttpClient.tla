---------------------------- MODULE SSEHttpClient ----------------------------
(***************************************************************************)
(* The test client lib/testing/sseHttpClient.ts over one open stream.      *)
(* Chunks arrive whenever the server sends them and wait in the reader;    *)
(* one consumer at a time reads, through collectEvents() or a loop over    *)
(* events(), and the parser of SSEParser takes the chunks it reads: sent   *)
(* counts what has been read, arrived what is there to read.               *)
(*                                                                         *)
(* Reading a chunk that waits takes microtasks only, so no timer fires     *)
(* meanwhile.  A read that was given up stays pending, and pending reads   *)
(* are served in order.                                                    *)
(***************************************************************************)
EXTENDS SSEParser

CONSTANTS
    Wants,      \* bound: what collectEvents is asked for, [count, until]
    MaxCalls(_), \* bound: calls of collectEvents and events, by stream
    MaxUnread   \* bound: chunks that wait in the reader

ASSUME MaxCallsAssumption == \A s \in Streams : MaxCalls(s) \in Nat

VARIABLES
    arrived,    \* characters that have arrived
    unread,     \* where the chunks that wait in the reader end
    orphans,    \* pending reads nobody waits for any more
    ended,      \* "no", "end" or "error": how the server ended the response
    held,       \* "no", "waiting" for the spy, "yes", or "leaked"
    closed,
    call,       \* [is, want, got]; "idle", "collecting", "asking" for the next
                \* event of events(), "paused" at one
    batch,      \* events of the last chunk that events() has yet to yield
    delivered,  \* events the consumer has got
    skipped,    \* history: a chunk went to a read that was given up
    dropped,    \* history: events that were parsed did not reach the consumer
    calls

connection == <<arrived, unread, orphans, ended, held, closed>>
consumer == <<call, batch, delivered, skipped, dropped, calls>>
clientVars == <<vars, connection, consumer>>

Idle == [is |-> "idle", want |-> NoField, got |-> << >>]
Reading == call.is \in {"collecting", "asking"}

InitClient ==
    /\ Init
    /\ arrived = 0 /\ unread = << >> /\ orphans = 0 /\ ended = "no"
    /\ held = "no" /\ closed = FALSE
    /\ call = Idle /\ batch = << >> /\ delivered = << >>
    /\ skipped = FALSE /\ dropped = FALSE /\ calls = 0

-----------------------------------------------------------------------------
(* The connection.                                                         *)

\* fetch has the headers; with awaitServerConnection the spy is asked too
Connect(awaiting) ==
    /\ held = "no"
    /\ held' = IF awaiting THEN "waiting" ELSE "yes"
    /\ UNCHANGED <<vars, arrived, unread, orphans, ended, closed, consumer>>

ServerConnection ==
    /\ held = "waiting" /\ held' = "yes"
    /\ UNCHANGED <<vars, arrived, unread, orphans, ended, closed, consumer>>

\* connect() rejects, and nobody has the client to close it
SpyTimesOut ==
    /\ held = "waiting" /\ held' = "leaked"
    /\ UNCHANGED <<vars, arrived, unread, orphans, ended, closed, consumer>>

\* A chunk goes to the read that has been pending longest, or waits.  Bound:
\* what arrives while connect() waits for the spy counts as arriving after.
Arrive(n) ==
    /\ held = "yes" /\ ended = "no" /\ ~closed
    /\ n \in arrived + 1 .. Len(stream)
    /\ arrived' = n
    /\ IF orphans > 0
         THEN /\ orphans' = orphans - 1
              /\ sent' = n
              /\ skipped' = TRUE
              /\ UNCHANGED <<unread, stream, buffer, received, cutShort>>
         ELSE /\ Len(unread) < MaxUnread
              /\ unread' = Append(unread, n)
              /\ UNCHANGED <<orphans, vars, skipped>>
    /\ UNCHANGED <<ended, held, closed, call, batch, delivered, dropped, calls>>

ServerEnds ==
    /\ held = "yes" /\ ended = "no" /\ ~closed
    /\ ended' = "end"
    /\ orphans' = 0
    /\ UNCHANGED <<vars, arrived, unread, held, closed, consumer>>

\* an error empties the reader
ConnectionFails ==
    /\ held = "yes" /\ ended = "no" /\ ~closed
    /\ ended' = "error"
    /\ orphans' = 0 /\ unread' = << >>
    /\ skipped' = (skipped \/ unread # << >>)
    /\ UNCHANGED <<vars, arrived, held, closed, call, batch, delivered, dropped, calls>>

\* the reader is cancelled: reads end, and what waits is gone
Close ==
    /\ held = "yes" /\ ~closed
    /\ closed' = TRUE
    /\ orphans' = 0 /\ unread' = << >>
    /\ skipped' = (skipped \/ unread # << >>)
    /\ UNCHANGED <<vars, arrived, ended, held, call, batch, delivered, dropped, calls>>

-----------------------------------------------------------------------------
(* The consumer.                                                           *)

Free == held = "yes" /\ call = Idle /\ ~closed /\ calls < MaxCalls(stream)

CollectEvents(want) ==
    /\ Free
    /\ call' = [Idle EXCEPT !.is = "collecting", !.want = want]
    /\ calls' = calls + 1
    /\ UNCHANGED <<vars, connection, batch, delivered, skipped, dropped>>

Iterate ==
    /\ Free
    /\ call' = [Idle EXCEPT !.is = "asking"]
    /\ calls' = calls + 1
    /\ UNCHANGED <<vars, connection, batch, delivered, skipped, dropped>>

Enough(want, got) ==
    IF want.until = NoField THEN Len(got) >= want.count
    ELSE got # << >> /\ Last(got).data = want.until

\* the events of a chunk are taken one by one until they are enough; the
\* rest of them is dropped with the generator
Collect(new) ==
    LET Upto(i) == call.got \o SubSeq(new, 1, i)
        enough  == {i \in DOMAIN new : Enough(call.want, Upto(i))}
    IN  IF enough # {}
          THEN /\ call' = Idle
               /\ delivered' = delivered \o Upto(Min(enough))
               /\ dropped' = (dropped \/ Min(enough) < Len(new))
               /\ UNCHANGED batch
          ELSE /\ call' = [call EXCEPT !.got = @ \o new]
               /\ UNCHANGED <<batch, delivered, dropped>>

\* events() yields the first event of a chunk, if it has one
Yield(new) ==
    /\ IF new = << >>
         THEN UNCHANGED <<call, batch, delivered>>
         ELSE /\ call' = [call EXCEPT !.is = "paused"]
              /\ batch' = Tail(new)
              /\ delivered' = Append(delivered, Head(new))
    /\ UNCHANGED dropped

Read ==
    /\ Reading /\ ~closed /\ unread # << >>
    /\ Chunk(Head(unread))
    /\ unread' = Tail(unread)
    /\ LET new == SubSeq(received', Len(received) + 1, Len(received'))
       IN  IF call.is = "collecting" THEN Collect(new) ELSE Yield(new)
    /\ UNCHANGED <<arrived, orphans, ended, held, closed, skipped, calls>>

\* the consumer of events() wants the next event
Resume ==
    /\ call.is = "paused"
    /\ IF batch # << >>
         THEN /\ batch' = Tail(batch)
              /\ delivered' = Append(delivered, Head(batch))
              /\ UNCHANGED call
         ELSE /\ call' = [call EXCEPT !.is = "asking"]
              /\ UNCHANGED <<batch, delivered>>
    /\ UNCHANGED <<vars, connection, skipped, dropped, calls>>

\* it breaks out of the loop, or its signal has been aborted meanwhile
Break ==
    /\ call.is = "paused"
    /\ call' = Idle
    /\ batch' = << >>
    /\ dropped' = (dropped \/ batch # << >>)
    /\ UNCHANGED <<vars, connection, delivered, skipped, calls>>

\* deviation: a collect rejects when the response is over
EndOfResponseRejects ==
    /\ Reading /\ unread = << >> /\ (closed \/ ended = "end")
    /\ closed' = TRUE
    /\ call' = Idle
    /\ UNCHANGED <<vars, arrived, unread, orphans, ended, held, batch, delivered,
                   skipped, dropped, calls>>

\* the response is over: a collect returns what it has, with no error
EndOfResponse ==
    /\ Reading /\ unread = << >> /\ (closed \/ ended = "end")
    /\ closed' = TRUE
    /\ call' = Idle
    /\ delivered' = delivered \o call.got
    /\ UNCHANGED <<vars, arrived, unread, orphans, ended, held, batch, skipped,
                   dropped, calls>>

\* the read rejects, and with it the call
ReadFails ==
    /\ Reading /\ ended = "error" /\ ~closed
    /\ call' = Idle
    /\ dropped' = (dropped \/ call.got # << >>)
    /\ UNCHANGED <<vars, connection, batch, delivered, skipped, calls>>

\* deviation: the signal is looked at between events only
AbortBetweenEvents ==
    /\ Reading /\ unread = << >> /\ ended = "no" /\ ~closed
    /\ call.got # << >>
    /\ orphans' = orphans + 1
    /\ call' = Idle
    /\ dropped' = TRUE
    /\ UNCHANGED <<vars, arrived, unread, ended, held, closed, batch,
                   delivered, skipped, calls>>

\* the timer of a collect fires, or the signal given to events() is aborted:
\* the pending read is given up, and what the collect has with it
Abort ==
    /\ Reading /\ unread = << >> /\ ended = "no" /\ ~closed
    /\ orphans' = orphans + 1
    /\ call' = Idle
    /\ dropped' = (dropped \/ call.got # << >>)
    /\ UNCHANGED <<vars, arrived, unread, ended, held, closed, batch,
                   delivered, skipped, calls>>

-----------------------------------------------------------------------------
NextClient ==
    \/ \E awaiting \in BOOLEAN : Connect(awaiting)
    \/ ServerConnection \/ SpyTimesOut
    \/ \E n \in 1 .. Len(stream) : Arrive(n)
    \/ ServerEnds \/ ConnectionFails \/ Close
    \/ \E want \in Wants : CollectEvents(want)
    \/ Iterate \/ Read \/ Resume \/ Break \/ EndOfResponse \/ ReadFails \/ Abort

\* pending promises are settled, and the timer of a collect fires; of a read
\* it is enough to say that the chunk is taken
ChunkTaken == Reading /\ ~closed /\ unread # << >> /\ unread' = Tail(unread)

Fairness ==
    /\ WF_unread(ChunkTaken)
    /\ WF_clientVars(EndOfResponse \/ ReadFails \/ (call.is = "collecting" /\ Abort))

ClientSpec == InitClient /\ [][NextClient]_clientVars /\ Fairness

-----------------------------------------------------------------------------
InHand == delivered \o call.got \o batch

\* s is what is left of t when some of its elements are left out
LeftOf(s, t) ==
    \E place \in [DOMAIN s -> DOMAIN t] :
        /\ \A i, j \in DOMAIN s : i < j => place[i] < place[j]
        /\ \A i \in DOMAIN s : s[i] = t[place[i]]

\* However chunks, calls, timeouts and the end of the connection fall, the
\* consumer gets the events that were parsed in order and each at most once;
\* and all of them, unless it stopped within a chunk, or a collect that had
\* some timed out or failed (sseHttpClient.ts:248).
HandedOverOnce ==
    /\ LeftOf(InHand, received)
    /\ ~dropped => InHand = received

\* What has arrived is read once, in order and as the events it is, however
\* the chunks are cut, or still waits: unless the connection ended before it
\* was read, or a chunk went to a read that had been given up
\* (sseHttpClient.ts:285, sseParser.ts:243).
ArrivesOnce ==
    ~skipped => /\ DataArrivesOnce
                /\ unread = << >> => sent = arrived
                /\ ChunksDoNotMatter
                /\ sent = Len(stream) => DataOfBlocks

\* Every collect settles, and a loop over events() that waits for the next
\* event ends once the connection has.
CallsSettle ==
    /\ call.is = "collecting" ~> call.is # "collecting"
    /\ (call.is = "asking" /\ (closed \/ ended # "no")) ~> call.is # "asking"
=============================================================================
