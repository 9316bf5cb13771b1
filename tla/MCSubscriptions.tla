--------------------------- MODULE MCSubscriptions ---------------------------
(* Two resolvers, both with onConnect; the rooms of the second are among   *)
(* those of the first, so that unions and leaves get in each other's way.  *)
EXTENDS SubscriptionDelivery, TLC

CONSTANTS x, y, r1, r2, u1, u2, m1, m2

One == <<x>>
Both == <<x, y>>
Declared == (x :> {r1, r2}) @@ (y :> {r2})

\* one user is denied by a failing resolver, the other permitted by one of two
OneMessage == m1 :> ((u1 :> <<"allow", "throw">>) @@ (u2 :> <<"defer", "allow">>))
\* ... and by default, and by a resolver after one that allows
TwoMessages == OneMessage @@
    (m2 :> ((u1 :> <<"defer", "defer">>) @@ (u2 :> <<"allow", "deny">>)))

Symmetry == Permutations(Connection) \cup Permutations(Call)
=============================================================================
