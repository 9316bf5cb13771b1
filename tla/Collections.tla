----------------------------- MODULE Collections -----------------------------
(***************************************************************************)
(* What the code does with objects and arrays of JavaScript (external).    *)
(***************************************************************************)
EXTENDS Naturals, FiniteSets

\* {...b, ...a}: what stands to the left wins
a ++ b == [n \in DOMAIN a \cup DOMAIN b |-> IF n \in DOMAIN a THEN a[n] ELSE b[n]]

\* the first of a set of places
First(S) == CHOOSE i \in S : \A j \in S : i <= j

\* Array.prototype.sort: the places S in the order R, a set of pairs
Position(S, R, i) == Cardinality({j \in S : j = i \/ <<j, i>> \in R})
Arranged(S, R) == [k \in 1 .. Cardinality(S) |-> CHOOSE i \in S : Position(S, R, i) = k]
=============================================================================
