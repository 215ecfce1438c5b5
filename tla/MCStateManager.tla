--------------------------- MODULE MCStateManager ---------------------------
(* Two threads and two servers that share a connection. *)
EXTENDS StateManagerProperties

CONSTANTS t1, t2, east, west, k1

TwoThreads == {t1, t2}
TwoServers == {east, west}
OneKey     == {k1}

=============================================================================
