----------------------------- MODULE MCHttpClient -----------------------------
(* Every stream of up to four lines, the last of them blank, is read by    *)
(* one call; a few of them, of two events, of an event of several lines,   *)
(* or with more fields than data, by two.                                  *)
EXTENDS SSEHttpClient

Line == {<<Data, "1">>, <<Data, "2">>, <<Event, "3">>, <<":">>, << >>}

Text(lines) == FlattenSeq([i \in DOMAIN lines |-> Append(lines[i], NewLine)]) \o <<NewLine>>

ThreeLines == {Text(ls) : ls \in UNION {[1 .. n -> Line] : n \in 1 .. 3}}

Chosen ==
    {Text(<< <<Data, "1">>, << >>, <<Data, "2">> >>),
     Text(<< <<Event, "3">>, <<Data, "2">> >>),
     Text(<< <<Data, "1">>, <<Data, "2">>, <<":">> >>)}

CallsOn(s) == IF s \in Chosen THEN 2 ELSE 1

SomeWants == {[count |-> 1, until |-> NoField], [count |-> 2, until |-> NoField],
              [count |-> 0, until |-> << <<"2">> >>]}
=============================================================================
