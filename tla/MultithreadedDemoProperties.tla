--------------------- MODULE MultithreadedDemoProperties ---------------------
(***************************************************************************)
(* What the three demonstrations print, and what is true of it.            *)
(***************************************************************************)
EXTENDS MultithreadedDemo

Begun == IF demo = "over" THEN 0 ELSE Cardinality(Workers) * Rounds[demo]

Reported  == phase \in {"check", "clean"}
Unlocking == {t \in Writers : pc[t] = "unlock" /\ ok[t]}

-----------------------------------------------------------------------------
(* When the results are printed every operation of every thread has been   *)
(* counted once, whatever happened to it: as a success or an error in the  *)
(* first two demonstrations, as begun in the third.  There the sum of what *)
(* the threads counted alone accounts for every key that was left behind.  *)
ResultsAddUp ==
  Reported =>
    CASE demo = "writes" -> count.writes + count.writeErrors = Begun
      [] demo = "shared" -> count.reads + count.readErrors + count.writes
                              + count.writeErrors = Begun
      [] demo = "load"   -> /\ count.total = Begun
                            /\ count.successful <= count.total
                            /\ phase = "check" =>
                                 Cardinality({k \in Loads : value[k] # Absent})
                                   <= count.successful + failures

(* In the first demonstration nobody waits for another's lock: a write     *)
(* that fails is a command that failed, and what main then reads back is   *)
(* there.  An item that is there is what its thread wrote there:            *)
(* "successful and consistent", in the words of the demonstration.         *)
OwnKeysDoNotConflict ==
  /\ demo = "writes" =>
       /\ count.writeErrors <= failures
       /\ phase = "check" /\ failures = 0 => ok[Main]
  /\ \A t \in Workers, n \in 1 .. Rounds.writes :
       value[Item(t, n)] \in {Absent, <<t, n>>}

(* The counter never runs ahead of the writes reported, but by writes whose *)
(* answer was lost; and it falls behind only if a writer replaced a counter *)
(* that it had not read, which the lock of a single write does not prevent. *)
CounterCountsWrites ==
  demo = "shared" /\ value[SharedKey] # Absent =>
    LET reported == count.writes + Cardinality(Unlocking)
    IN  phase \in {"join", "check"} =>
          /\ value[SharedKey][1] <= reported + failures
          /\ ~overlapped => value[SharedKey][1] >= reported

(* Writers that find the counter locked give up at once, yet they cannot   *)
(* all fail: without a failed command some write succeeds.                 *)
SomebodySucceeds ==
  demo = "shared" /\ Reported /\ failures = 0 => count.writes > 0

-----------------------------------------------------------------------------
(* The program ends: main's joins all return, the monitor's too, which     *)
(* waits for the threads to have begun all their operations.               *)
DemoEnds == <>(demo = "over")

=============================================================================
