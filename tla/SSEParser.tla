------------------------------ MODULE SSEParser ------------------------------
(***************************************************************************)
(* The event parser of lib/sse/sseParser.ts and the reader it is written   *)
(* for: append a chunk to the buffer, call parseSSEBuffer, keep what       *)
(* remains.  A text is a sequence of characters; the name of a field       *)
(* counts as one character, and "event:" stands for the fields that are    *)
(* kept as they come (id, event, retry).  A line that starts with anything *)
(* else is a comment.                                                      *)
(***************************************************************************)
EXTENDS Naturals, Sequences, SequencesExt

CONSTANT
    Streams   \* texts the server may send, each ends with a blank line

Characters == UNION {ToSet(s) : s \in Streams}

NewLine == "\n"
Data == "data:"
Event == "event:"

NoField == << >>

ASSUME StreamsAssumption ==
    \A s \in Streams :
        /\ s \in Seq(ToSet(s))
        /\ s # << >> => /\ s[Len(s)] = NewLine
                        /\ Len(s) > 1 => s[Len(s) - 1] = NewLine

VARIABLES
    stream,   \* what the server sends
    sent,     \* how many characters have arrived
    buffer,   \* the reader's
    received, \* the events parsed so far
    cutShort  \* history: a chunk ended with a line break inside an event

vars == <<stream, sent, buffer, received, cutShort>>

-----------------------------------------------------------------------------
\* text.split("\n"), one character after the other
Lines(text) ==
    LET split[i \in 0 .. Len(text)] ==
            IF i = 0 THEN << << >> >>
            ELSE LET before == split[i - 1]
                 IN  IF text[i] = NewLine THEN Append(before, << >>)
                     ELSE [before EXCEPT ![Len(before)] = Append(@, text[i])]
    IN  split[Len(text)]

Blank(line) == line = << >>
Is(field, line) == ~Blank(line) /\ Head(line) = field

\* what the loop over the lines keeps; end is where the last event ended
Start == [event |-> NoField, data |-> << >>, events |-> << >>, position |-> 0, end |-> 0]

Complete(s) == [event |-> s.event, data |-> s.data]

\* one turn of the loop: parseSSELine, and what the loop does on its verdict
ParseSSELine(s, line) ==
    LET at == s.position + Len(line) + 1
        t == [s EXCEPT !.position = at]
    IN  IF Is(Event, line) THEN [t EXCEPT !.event = Tail(line)]
        ELSE IF Is(Data, line) THEN [t EXCEPT !.data = Append(@, Tail(line))]
        ELSE IF Blank(line) /\ s.data # << >>
        THEN [t EXCEPT !.events = Append(@, Complete(s)), !.event = NoField,
                       !.data = << >>, !.end = at]
        ELSE t

\* the loop over the lines
Turns(lines) ==
    LET after[k \in 0 .. Len(lines)] ==
            IF k = 0 THEN Start ELSE ParseSSELine(after[k - 1], lines[k])
    IN  after[Len(lines)]

Parsed(text) == Turns(Lines(text))

\* a text that does not end with a blank line still ends its last event
ParseSSEEvents(text) ==
    LET s == Parsed(text)
    IN  IF s.data = << >> THEN s.events ELSE Append(s.events, Complete(s))

\* deviation: what follows the last event is dropped
ParseSSEBufferForgets(text) == [events |-> Parsed(text).events, remaining |-> << >>]

ParseSSEBuffer(text) ==
    LET s == Parsed(text)
    IN  [events |-> s.events,
         remaining |-> IF s.end < Len(text)
                       THEN SubSeq(text, s.end + 1, Len(text)) ELSE << >>]

-----------------------------------------------------------------------------
Init ==
    /\ stream \in Streams
    /\ sent = 0
    /\ buffer = << >>
    /\ received = << >>
    /\ cutShort = FALSE

\* a chunk that ends at n ends with the line break of a line that is not blank
CutsShort(n) == n > 1 /\ stream[n] = NewLine /\ stream[n - 1] # NewLine

Chunk(n) ==
    /\ n \in sent + 1 .. Len(stream)
    /\ LET result == ParseSSEBuffer(buffer \o SubSeq(stream, sent + 1, n))
       IN  /\ received' = received \o result.events
           /\ buffer' = result.remaining
    /\ sent' = n
    /\ cutShort' = (cutShort \/ CutsShort(n))
    /\ UNCHANGED stream

Next == \E n \in 1 .. Len(stream) : Chunk(n)

Spec == Init /\ [][Next]_vars

-----------------------------------------------------------------------------
(* Reference definitions, from the format the module's documentation gives *)

\* the lines that are over
Finished(text) == LET lines == Lines(text) IN SubSeq(lines, 1, Len(lines) - 1)

DataOf(lines) ==
    LET upto[k \in 0 .. Len(lines)] ==
            IF k = 0 THEN << >>
            ELSE IF Is(Data, lines[k]) THEN Append(upto[k - 1], Tail(lines[k]))
            ELSE upto[k - 1]
    IN  upto[Len(lines)]

Flat(events) ==
    LET upto[k \in 0 .. Len(events)] ==
            IF k = 0 THEN << >> ELSE upto[k - 1] \o events[k].data
    IN  upto[Len(events)]

\* the lines between the blank line before line b and b
Block(lines, b) ==
    LET before == {i \in 1 .. b - 1 : Blank(lines[i])}
        first == IF before = {} THEN 1 ELSE 1 + CHOOSE i \in before : \A j \in before : j <= i
    IN  SubSeq(lines, first, b - 1)

\* the data of each block that has some
DataOfEachBlock(lines) ==
    LET upto[b \in 0 .. Len(lines)] ==
            IF b = 0 THEN << >>
            ELSE IF Blank(lines[b]) /\ DataOf(Block(lines, b)) # << >>
            THEN Append(upto[b - 1], DataOf(Block(lines, b)))
            ELSE upto[b - 1]
    IN  upto[Len(lines)]

-----------------------------------------------------------------------------
\* However the stream is cut, the data lines that have arrived are received
\* once each and in order, or are still in the buffer.
DataArrivesOnce ==
    Flat(received) \o DataOf(Finished(buffer)) = DataOf(Finished(SubSeq(stream, 1, sent)))

SameAsWhole ==
    /\ IsPrefix(received, ParseSSEEvents(stream))
    /\ sent = Len(stream) => received = ParseSSEEvents(stream)

\* Parsing chunk by chunk gives the events that parsing the whole gives, as
\* soon as they are over, as long as no chunk ends with the line break of one
\* of their fields.
ChunksDoNotMatter == ~cutShort => SameAsWhole

\* "It parses complete events and returns any incomplete data that should be
\* prepended to the next chunk" (sseParser.ts:194): the same for every way a
\* stream can be cut.
NoChunkMatters == SameAsWhole

\* The data lines of an event are those between two blank lines; a block
\* without data is no event.
DataOfBlocks ==
    LET events == ParseSSEEvents(stream)
    IN  [i \in DOMAIN events |-> events[i].data] = DataOfEachBlock(Finished(stream))
=============================================================================
