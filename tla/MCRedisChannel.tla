--------------------------- MODULE MCRedisChannel ---------------------------
(* RedisChannel with few callers and channels. *)
EXTENDS RedisChannelProperties, TLC

CONSTANTS a1, a2, ch1, ch2

OneCaller   == {a1}
TwoCallers  == {a1, a2}
OneChannel  == {ch1}
TwoChannels == {ch1, ch2}

Symmetry == Permutations(Callers) \cup Permutations(Channels)

=============================================================================
