---------------------------- MODULE MCBroadcast -----------------------------
(* Two nodes that publish a message each.  The first node has one id for   *)
(* its manager and its adapter, the second draws two, so that it hears its *)
(* own messages.  A connection on its own sees three rooms sent to, so     *)
(* that a message may come back over a second room once the other has      *)
(* taken its place in the cache; two on the first node see two rooms sent  *)
(* to, and two that hear echoes, or are apart, see one.                    *)
EXTENDS SSERoomBroadcaster, TLC

CONSTANTS n1, n2, m1, m2, id1, id2, id3

FromEach == (m1 :> n1) @@ (m2 :> n2)
ManagerIds == (n1 :> id1) @@ (n2 :> id2)
AdapterIds == (n1 :> id1) @@ (n2 :> id3)

\* one of the connections alone (where the others would be does not matter), or
\* all of them
SomeSetups ==
    {s \in [nodeOf : [Connection -> Node], registered : SUBSET Connection,
            budget : 1 .. 3] :
        LET allAt(n) == \A c \in Connection : s.nodeOf[c] = n
        IN  CASE Cardinality(s.registered) = 1 ->
                    (\E n \in Node : allAt(n)) /\ s.budget = 3
              [] s.registered = Connection ->
                    s.budget = IF allAt(n1) THEN 2 ELSE 1
              [] OTHER -> FALSE}

Symmetry == Permutations(Connection) \cup Permutations(Room)
=============================================================================
