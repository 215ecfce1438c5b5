------------------------- MODULE MCMultithreadedDemo -------------------------
(* Two writers and a reader of the counter. *)
EXTENDS MultithreadedDemoProperties

CONSTANTS w1, w2, r1

TwoWriters == {w1, w2}
OneReader  == {r1}
OneLoadKey == {1}
SomeRounds == [writes |-> 2, shared |-> 2, load |-> 1]

=============================================================================
