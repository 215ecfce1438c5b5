----------------------- MODULE RedisChannelProperties -----------------------
(***************************************************************************)
(* What should be true of the channel: type correctness, safety, liveness, *)
(* and what its documents and tests say of it.                             *)
(***************************************************************************)
EXTENDS RedisChannel

Places == {"idle", "insert", "check", "recheck", "add", "create", "register",
           "reset", "resubscribing", "resubscribe", "join", "start", "publish",
           "find", "remove", "erase", "empty", "halt", "stop", "removing",
           "removeAll", "clear", "lastJoin", "gone", "broken"}
ConsumerPlaces == {"none", "test", "consume", "deliver", "done", "broken"}

(* Type correctness of the channel's state.  Between two steps the consumer *)
(* never holds callbacks_mutex_.                                           *)
TypeOK ==
  /\ running \in BOOLEAN
  /\ callbacks \subseteq Channels /\ requested \subseteq Channels
  /\ sent \subseteq Channels /\ subscribed \subseteq Channels
  /\ cbMutex \in Callers \cup {NoThread}
  /\ turn \in Threads \cup {NoThread} /\ redisMutex \in Threads \cup {NoThread}
  /\ subscriber \in {"none", "bare", "ready"}
  /\ socket \in Seq(Channels \X (1 .. MaxMessages))
  /\ published \in 0 .. MaxMessages /\ failures \in 0 .. MaxFailures
  /\ handed \in Seq(1 .. MaxMessages)
  /\ pc \in [Threads -> Places \cup ConsumerPlaces]
  /\ pc[Consumer] \in ConsumerPlaces
  /\ \A t \in Callers : pc[t] \in Places
  /\ arg \in [Callers -> Channels \cup {Every, AtExit}]
  /\ todo \in [Callers -> SUBSET Channels]
  /\ stale \subseteq Callers

-----------------------------------------------------------------------------
(* Safety *)

(* Messages reach the pool in the order the server sent them, each at most *)
(* once, though the subscriber they come from may be replaced by another   *)
(* thread and the consumer by another consumer.                            *)
HandedInOrder ==
  \A i, j \in 1 .. Len(handed) : i < j => handed[i] < handed[j]

Listening == pc[Consumer] \in {"test", "consume", "deliver"}
Starting(t) ==
  pc[t] \in {"create", "register", "resubscribing", "resubscribe",
             "join", "start"}

(* running_ tells later subscribers that they need not start a consumer.    *)
(* As long as no call throws, that is so: a consumer is there, or a caller *)
(* is about to start one; however subscribe and unsubscribe interleave, and *)
(* whichever consumer was told to stop in between.                         *)
SomeoneListens ==
  running /\ failures = 0 /\ ~Broken =>
    Listening \/ \E t \in Callers : Starting(t)

Quiet == ~Broken /\ failures = 0 /\ \A t \in Callers : pc[t] = "idle"

(* When one thread makes all the calls and none throws, the connection has *)
(* been asked for what the calls so far ask for whenever no call is under  *)
(* way, its buffer or the server may be behind, and running_ is set if     *)
(* anything has a callback.  Two threads can break each part of it.        *)
SettlesExactly ==
  Cardinality(Callers) = 1 /\ Quiet =>
    (running <=> callbacks # {}) /\ requested = callbacks

(* When one thread makes all the calls, two things are undefined and no    *)
(* other: its removal of an entry, for which unsubscribe does not take     *)
(* callbacks_mutex_, while the consumer looks one up; and the reset of a   *)
(* subscriber, after on_message threw, under a consumer that was told to   *)
(* stop and has not looked.  Whatever else threw before, subscriber_ is    *)
(* there when the caller uses it, and no iterator dangles.                 *)
TwoRacesOnly ==
  Cardinality(Callers) = 1 /\ UndefinedBehaviour =>
    \/ /\ pc[Consumer] = "deliver"
       /\ \A t \in Callers : pc[t] \in {"erase", "clear"}
    \/ /\ failures > 0 /\ subscriber = "none"
       /\ redisMutex = Consumer /\ pc[Consumer] \in {"consume", "deliver"}

InLoop(t) == pc[t] \in {"resubscribe", "removeAll"}

(* A loop over callbacks_, with callbacks_mutex_, waits for a redis_mutex_  *)
(* held by a consumer that waits for callbacks_mutex_: for ever.           *)
MutualWait ==
  /\ redisMutex = Consumer /\ pc[Consumer] = "deliver"
  /\ \E t \in Callers : cbMutex = t /\ InLoop(t) /\ todo[t] # {}

Joins(t)  == pc[t] \in {"join", "lastJoin"} /\ Listening

(* t waits for a mutex, or for the end of the consumer.                    *)
Waits(t) ==
  \/ pc[t] \in {"insert", "resubscribing", "removing", "deliver"} /\ cbMutex # NoThread
  \/ WantsClient(t) /\ turn # NoThread /\ (turn = t => redisMutex # NoThread)
  \/ Joins(t)

(* t has a mutex and all it needs for its next step.                       *)
Frees(t) ==
  \/ redisMutex = t /\ pc[t] \in Uses /\ (InLoop(t) => todo[t] # {})
  \/ redisMutex = t /\ pc[t] = "deliver" /\ cbMutex = NoThread
  \/ turn = t /\ WantsClient(t) /\ redisMutex = NoThread
  \/ cbMutex = t /\ InLoop(t) /\ redisMutex # t /\ (todo[t] = {} \/ turn = NoThread)

(* Three mutexes and a join, taken in several orders: yet the mutual wait  *)
(* is the only deadlock, for any number of callers.  In all other states   *)
(* in which a thread waits, a thread that has a mutex can go on, or the    *)
(* consumer can that is waited for.                                        *)
OneDeadlockOnly ==
  \A t \in Threads : Waits(t) =>
    \/ MutualWait
    \/ \E u \in Threads : Frees(u)
    \/ Joins(t) /\ (pc[Consumer] = "test" \/ (pc[Consumer] = "consume" /\ turn = NoThread))

-----------------------------------------------------------------------------
(* Liveness *)

(* subscribe joins a consumer that was told to stop and did not look       *)
(* before running_ was set again: nobody tells it once more.               *)
EndlessJoin == Listening /\ running /\ \E t \in Callers : pc[t] = "join"

(* When one thread makes all the calls, every call returns, except in these *)
(* two ways, and so does the destructor's, which joins the last consumer.  *)
(* The consumer keeps redis_mutex_ for as long as it waits, and takes it   *)
(* again at once: a caller gets its turn because it waits with             *)
(* instance_mutex_ in hand.                                                *)
CallsReturn ==
  Cardinality(Callers) = 1 =>
    \A t \in Callers :
      pc[t] # "idle" ~>
        pc[t] \in {"idle", "gone", "broken"} \/ MutualWait \/ EndlessJoin

(* When one thread makes all the calls, what has a callback is what the    *)
(* server sends, sooner or later, unless a call or a failure comes in      *)
(* between: the commands wait in a buffer that only the consumer empties,  *)
(* and it may be at its time-out, told to stop, or another one by then.    *)
SubscriptionsArrive ==
  Cardinality(Callers) = 1 =>
    \A cs \in SUBSET Channels :
      Quiet /\ callbacks = cs /\ cs # {} ~> ~Quiet \/ subscribed = cs

-----------------------------------------------------------------------------
(* What the documents and tests say and the code does not do *)

(* docs/ARCHITECTURE.md: atomic flags and thread-safe subscriber            *)
(* management.  No two threads wait for one another.                       *)
NoMutualWait == ~ MutualWait

=============================================================================
