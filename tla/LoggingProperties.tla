-------------------------- MODULE LoggingProperties --------------------------
(***************************************************************************)
(* What should be true of the loggers and of what they write.              *)
(***************************************************************************)
EXTENDS Logging

Numbers(s)    == {s[i][1] : i \in DOMAIN s}
Increasing(s) == \A i, j \in DOMAIN s : i < j => s[i][1] < s[j][1]
Messages      == (1 .. MaxMessages) \X Levels

(* Type correctness of the factory's, the loggers' and the threads' state. *)
TypeOK ==
  /\ global \in Loggers \cup {NoLogger}
  /\ factoryMutex \in Threads \cup {NoThread}
  /\ fate \in [Loggers -> {"unborn", "alive", "dead"}]
  /\ level \in [Loggers -> Levels]
  /\ pc \in [Threads \cup {Worker} ->
               {"idle", "has", "level", "given", "write", "stop", "notify", "join",
                "none", "check", "dozing", "asleep", "process", "done"}]
  /\ ref \in [Threads -> Loggers \cup {NoLogger}]
  /\ writing \in [Threads \cup {Worker} -> Messages \cup {None}]
  /\ queueMutex \in {Worker, NoThread} /\ stop \in BOOLEAN
  /\ queue \in Seq(Messages) /\ batch \in Seq(Messages)
  /\ Len(queue) <= MaxQueue /\ Len(batch) <= MaxQueue
  /\ written \in [Loggers -> Seq(Messages)]
  /\ logged \in 0 .. MaxMessages /\ levels \in 0 .. MaxLevels
  /\ dropped \cup silenced \cup overtaken \subseteq 1 .. MaxMessages

Waiting == Numbers(batch) \cup Numbers(queue)
             \cup (IF writing[Worker] = None THEN {} ELSE {writing[Worker][1]})

-----------------------------------------------------------------------------
(* Every message ends in one place: it is written, or waits to be, or was  *)
(* below the level, or was dropped by a full queue.  Once the AsyncLogger  *)
(* is gone none waits any more, whoever destroyed it and whatever was      *)
(* still queued when its destructor began.                                 *)
NothingIsLost ==
  /\ fate[Async] = "dead" =>
       Waiting = {} /\ \A t \in Threads : ref[t] # Async
  /\ logged = Cardinality(UNION {Numbers(written[l]) : l \in Loggers})
                + Cardinality(Waiting) + Cardinality(silenced)
                + Cardinality(dropped)
                + Cardinality({t \in Threads : writing[t] # None})

(* The AsyncLogger writes messages in the order in which its queue took    *)
(* them, over all batches, and drops none that is newer than one it keeps. *)
AsyncKeepsOrder ==
  /\ Increasing(written[Async] \o batch \o queue)
  /\ \A d \in dropped : \A n \in Numbers(queue) : d < n

(* The logger the factory gives out is alive, and so is every logger a     *)
(* thread still has: the destructor that setLogger runs is nobody's.       *)
PointersHold ==
  \A l \in {global} \cup {ref[t] : t \in Threads} :
    l # NoLogger => /\ fate[l] = "alive"
                    /\ l = Async => pc[Worker] # "done" /\ ~stop

-----------------------------------------------------------------------------
(* A message below the level is written only if the level was changed      *)
(* between the read of it, which takes no mutex, and the write.            *)
WritesAsAllowed ==
  [][\A l \in Loggers :
       written'[l] # written[l] =>
         LET m == written'[l][Len(written'[l])]
         IN  m[2] >= level[l] \/ m[1] \in overtaken]_vars

(* Every call returns, setLogger's too when it joins the worker with       *)
(* logger_mutex_ in hand: the worker cannot miss the end, and needs nothing *)
(* of the factory to empty the queue.                                      *)
CallsReturn ==
  \A t \in Threads : pc[t] \notin {"idle", "has"} ~> pc[t] \in {"idle", "has"}

=============================================================================
