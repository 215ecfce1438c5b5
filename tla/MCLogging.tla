------------------------------ MODULE MCLogging ------------------------------
(* Two threads; an AsyncLogger that may be installed, and replaced by a DefaultLogger. *)
EXTENDS LoggingProperties

CONSTANTS t1, t2, d1

TwoThreads == {t1, t2}
OnlyPlain  == {d1}
TwoLevels  == {0, 1}

=============================================================================
