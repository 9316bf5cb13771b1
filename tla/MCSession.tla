------------------------------ MODULE MCSession ------------------------------
(* Accept headers of up to three entries, of two qualities, rejected ones  *)
(* and one that is no number among them.                                   *)
EXTENDS DualModeRoute

Entry == [type : {EventStream, Json, AnyType, <<"text", "plain">>, <<"text", "*">>},
          q : {NotANumber, 0, 5, 10}]
Named == [type : {EventStream, Json, <<"text", "*">>}, q : {0, 5, 10}]

SomeHeaders == UNION {[1 .. n -> Entry] : n \in 0 .. 2} \cup [1 .. 3 -> Named]
TwoFormats == << <<"text", "plain">>, Json >>
=============================================================================
