--------------------------- MODULE MCRedisStorage ---------------------------
(* RedisStorage with two clients and two keys. *)
EXTENDS RedisStorageProperties, TLC

CONSTANTS c1, c2, c3, k1, k2, l1, l2, v1, v2

TwoClients   == {c1, c2}
ThreeClients == {c1, c2, c3}
OneKey       == {k1}
TwoKeys      == {k1, k2}
OneKeyNames  == {k1, l1}
TwoKeyNames  == {k1, k2, l1, l2}
LockNames    == [k \in Keys |-> IF k = k1 THEN l1 ELSE l2]
OneValue     == {v1}
TwoValues    == {v1, v2}

Symmetry == Permutations(Clients) \cup Permutations(Values)

=============================================================================
