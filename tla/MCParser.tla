------------------------------- MODULE MCParser -------------------------------
(* The streams of up to five lines, the last one blank: two events of two  *)
(* lines each, an event of four, and blocks without data.                  *)
EXTENDS SSEParser

Line == {<<Data, "1">>, <<Data, "2">>, <<Event, "3">>, <<":">>, << >>}

Text(lines) == FlattenSeq([i \in DOMAIN lines |-> Append(lines[i], NewLine)]) \o <<NewLine>>

FourLines == {Text(ls) : ls \in UNION {[1 .. n -> Line] : n \in 0 .. 4}}
=============================================================================
