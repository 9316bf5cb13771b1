------------------------ MODULE MCRedisSubscriptions ------------------------
(* Two connections over two rooms.  Three batches in flight are enough for *)
(* a join and a leave to overtake a call of the same room on either side   *)
(* of its execution by Redis.                                              *)
EXTENDS RedisSubscriptions, TLC

Symmetry == Permutations(Connection) \cup Permutations(Room)
=============================================================================
