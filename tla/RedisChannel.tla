---------------------------- MODULE RedisChannel ----------------------------
(***************************************************************************)
(* The subscriber of src/client/RedisChannel.cpp: threads that subscribe,  *)
(* unsubscribe and publish, and the consumer thread that reads messages    *)
(* and hands their callbacks to the pool.  Three mutexes are involved:     *)
(* callbacks_mutex_, and in RedisClient::lockClient instance_mutex_, held  *)
(* while the caller waits for redis_mutex_.                                *)
(*                                                                         *)
(* Undefined behaviour, and an exception no thread handles, end a          *)
(* behaviour: nothing happens once the program is broken.  A getClient     *)
(* just before a lockClient passes through the same mutexes and is part of *)
(* its wait.                                                               *)
(*                                                                         *)
(* A subscription takes time.  Subscriber::subscribe and unsubscribe only  *)
(* put a command into the connection's buffer, the next consume sends the  *)
(* buffer, and the server obeys some time later.  The commands in the      *)
(* buffer, and those on the way, are kept as the set of channels they      *)
(* leave subscribed: two that cancel each other leave no trace, and the    *)
(* server obeys the others in any order.                                   *)
(***************************************************************************)
EXTENDS Naturals, Sequences, FiniteSets

CONSTANTS
  Callers,      (* threads that use the channel, callbacks included        *)
  Consumer,     (* the thread behind subscriptionThread_                   *)
  Channels,     (* names of channels                                       *)
  Every,        (* the empty name: unsubscribe from every channel          *)
  AtExit,       (* the same, called by the destructor                      *)
  NoThread,     (* a mutex is free                                         *)
  MaxMessages,  (* bound: messages published                               *)
  MaxFailures   (* bound: calls of the Redis library that throw            *)

ASSUME RedisChannelAssumption ==
  /\ Consumer \notin Callers /\ NoThread \notin Callers \cup {Consumer}
  /\ {Every, AtExit} \cap Channels = {} /\ Every # AtExit
  /\ MaxMessages \in Nat /\ MaxFailures \in Nat

VARIABLES
  running,      (* running_                                                *)
  callbacks,    (* the channels with an entry in callbacks_                *)
  cbMutex,      (* holder of callbacks_mutex_                              *)
  turn,         (* holder of instance_mutex_ that waits for redis_mutex_   *)
  redisMutex,   (* holder of redis_mutex_                                  *)
  subscriber,   (* subscriber_: none, no on_message yet, or ready          *)
  requested,    (* the channels its (un)subscriptions so far ask for       *)
  sent,         (* the same, of those the connection has sent              *)
  subscribed,   (* channels the server sends to this subscriber            *)
  socket,       (* messages <<channel, number>> sent and not read          *)
  published,    (* messages published so far                               *)
  handed,       (* history: numbers of the messages handed to the pool     *)
  pc,           (* where each thread is                                    *)
  arg,          (* the channel each caller works on                        *)
  todo,         (* entries a caller's loop over callbacks_ has still ahead *)
  stale,        (* callers whose iterator's entry has been erased          *)
  failures      (* calls that threw so far                                 *)

flags    == <<running, failures>>
map      == <<callbacks, stale>>
wire     == <<sent, subscribed>>
link     == <<subscriber, requested, wire, socket>>
clients  == <<turn, redisMutex>>
messages == <<published, handed>>
calls    == <<arg, todo>>
data     == <<flags, map, cbMutex, clients, link, messages, calls>>
vars == <<data, pc>>

Broken == pc[Consumer] = "broken"
Threads == Callers \cup {Consumer}

(* Places where a thread uses the connection, under lockClient. *)
Uses == {"publish", "add", "create", "register", "resubscribe",
         "remove", "removeAll", "consume"}

Goes(t, place) == pc' = [pc EXCEPT ![t] = place]
Moves(t, from, to) == pc[t] = from /\ Goes(t, to)
Only(t, from, to)  == Moves(t, from, to) /\ UNCHANGED data

(* The last call of the channel's life is the destructor's: its thread     *)
(* then joins the consumer.                                                *)
Dying(t) == arg[t] = AtExit
Back(t)  == IF Dying(t) THEN "lastJoin" ELSE "idle"

(* Places where a thread calls subscriber_ with the connection in hand. *)
Subscribing == (Uses \ {"publish", "create"}) \cup {"deliver"}

Fails == failures < MaxFailures /\ failures' = failures + 1
StopsRunning == running' = FALSE

-----------------------------------------------------------------------------
(* RedisClient::lockClient.  The thread that waits for redis_mutex_ keeps  *)
(* everybody else out of lockClient.                                       *)

WantsClient(t) ==
  /\ pc[t] \in Uses /\ redisMutex # t
  /\ pc[t] \in {"resubscribe", "removeAll"} => todo[t] # {}

(* Mutation: instance_mutex_ is released before redis_mutex_ is taken. *)
Barges(t) ==
  /\ WantsClient(t) /\ redisMutex = NoThread /\ redisMutex' = t
  /\ UNCHANGED <<turn, flags, map, cbMutex, link, messages, pc, calls>>

LockClient(t) ==
  /\ WantsClient(t)
  /\ \/ turn = NoThread /\ redisMutex # NoThread
          /\ turn' = t /\ UNCHANGED redisMutex
     \/ turn \in {NoThread, t} /\ redisMutex = NoThread
          /\ turn' = NoThread /\ redisMutex' = t
  /\ UNCHANGED <<flags, map, cbMutex, link, messages, pc, calls>>

Client(t, place) == pc[t] = place /\ redisMutex = t
ClientCalls(t, place) == Client(t, place) /\ subscriber # "none"
Unlocks == redisMutex' = NoThread /\ UNCHANGED turn

-----------------------------------------------------------------------------
Init ==
  /\ running = FALSE /\ failures = 0
  /\ callbacks = {} /\ stale = {}
  /\ cbMutex = NoThread /\ turn = NoThread /\ redisMutex = NoThread
  /\ subscriber = "none" /\ requested = {} /\ sent = {}
  /\ subscribed = {} /\ socket = <<>>
  /\ published = 0 /\ handed = <<>>
  /\ pc = [t \in Threads |-> IF t = Consumer THEN "none" ELSE "idle"]
  /\ arg = [t \in Callers |-> Every] /\ todo = [t \in Callers |-> {}]

Begin(t, place, c) ==
  /\ \A u \in Callers : ~Dying(u)
  /\ Moves(t, "idle", place)
  /\ arg' = [arg EXCEPT ![t] = c]
  /\ UNCHANGED <<flags, map, cbMutex, clients, link, messages, todo>>

Subscribe(t, c)   == Begin(t, "insert", c)
Unsubscribe(t, c) == Begin(t, "find", c)
UnsubscribeAll(t) == Begin(t, IF running THEN "stop" ELSE "find", Every)
Publish(t, c)     == Begin(t, "publish", c)

(* Static destruction: no caller is inside the channel any more. *)
Destroy(t) ==
  /\ \A u \in Callers : pc[u] = "idle"
  /\ Begin(t, IF running THEN "stop" ELSE "find", AtExit)
LastJoin(t) ==
  pc[Consumer] \in {"none", "done"} /\ Only(t, "lastJoin", "gone")

(* The server, for any process's publish: it sends the message to the      *)
(* channel's subscribers.                                                  *)
Published(c) ==
  /\ published < MaxMessages /\ published' = published + 1
  /\ socket' = IF c \in subscribed THEN Append(socket, <<c, published'>>)
               ELSE socket
  /\ UNCHANGED <<subscriber, requested, wire, handed>>
OtherPublish(c) ==
  Published(c) /\ UNCHANGED <<flags, map, cbMutex, clients, pc, calls>>

(* The server obeys a command that has been sent. *)
Obeys(c) ==
  /\ (c \in sent) # (c \in subscribed)
  /\ subscribed' = IF c \in sent THEN subscribed \cup {c} ELSE subscribed \ {c}
  /\ UNCHANGED <<subscriber, requested, sent, socket>>
  /\ UNCHANGED <<flags, map, cbMutex, clients, messages, pc, calls>>
ServerStep == \E c \in Channels : Obeys(c)

(* A failed publish returns false, and nobody receives anything. *)
Publishes(t) ==
  /\ Client(t, "publish") /\ Unlocks /\ Goes(t, "idle")
  /\ Published(arg[t]) \/ UNCHANGED <<link, messages>>
  /\ UNCHANGED <<flags, map, cbMutex, calls>>

-----------------------------------------------------------------------------
(* subscribe *)

Insert(t) ==
  /\ Moves(t, "insert", "check") /\ cbMutex = NoThread
  /\ callbacks' = callbacks \cup {arg[t]}
  /\ UNCHANGED <<stale, flags, cbMutex, clients, link, messages, calls>>

(* The compare-and-exchange, and the second look at the flag. *)
Check(t) ==
  /\ Moves(t, "check", IF running THEN "recheck" ELSE "create")
  /\ running' = TRUE
  /\ UNCHANGED <<failures, map, cbMutex, clients, link, messages, calls>>
Recheck(t) == Only(t, "recheck", IF running THEN "add" ELSE "idle")

Add(t) ==
  /\ ClientCalls(t, "add") /\ Unlocks /\ Goes(t, "idle")
  /\ \/ requested' = requested \cup {arg[t]} /\ UNCHANGED flags
     \/ Fails /\ StopsRunning /\ UNCHANGED requested
  /\ UNCHANGED <<subscriber, wire, socket, map, cbMutex, messages, calls>>

(* The commands of the connection before, and its messages, are gone.      *)
NewLink(state) ==
  /\ subscriber' = state
  /\ requested' = {} /\ sent' = {} /\ subscribed' = {} /\ socket' = <<>>

(* Mutation: running_ stays set when no connection could be made. *)
CreateForgets(t) ==
  /\ Client(t, "create") /\ Unlocks
  /\ \/ Goes(t, "register") /\ NewLink("bare") /\ UNCHANGED flags
     \/ Goes(t, "idle") /\ Fails /\ UNCHANGED <<running, link>>
  /\ UNCHANGED <<map, cbMutex, messages, calls>>

(* initializeSubscriber: a new connection replaces the old one.            *)
Create(t) ==
  /\ Client(t, "create") /\ Unlocks
  /\ \/ Goes(t, "register") /\ NewLink("bare") /\ UNCHANGED flags
     \/ Goes(t, "idle") /\ Fails /\ StopsRunning /\ UNCHANGED link
  /\ UNCHANGED <<map, cbMutex, messages, calls>>
Register(t) ==
  /\ ClientCalls(t, "register") /\ Unlocks
  /\ \/ Goes(t, "resubscribing") /\ subscriber' = "ready" /\ UNCHANGED failures
     \/ Goes(t, "reset") /\ Fails /\ UNCHANGED subscriber
  /\ UNCHANGED <<requested, wire, socket, running, map, cbMutex, messages>>
  /\ UNCHANGED calls

(* The subscriber whose registration failed goes, and with it its          *)
(* connection; redis_mutex_ is free again by then.                         *)
Reset(t) ==
  /\ Moves(t, "reset", "idle") /\ NewLink("none") /\ StopsRunning
  /\ UNCHANGED <<failures, map, cbMutex, clients, messages, calls>>

(* A loop over callbacks_ holds callbacks_mutex_ from beginning to end. *)
LoopBegins(t, from, to) ==
  /\ Moves(t, from, to) /\ cbMutex = NoThread
  /\ cbMutex' = t /\ todo' = [todo EXCEPT ![t] = callbacks]
  /\ UNCHANGED <<flags, map, clients, link, messages, arg>>
LoopEnds(t, from, to) ==
  /\ Moves(t, from, to) /\ todo[t] = {} /\ redisMutex # t
  /\ cbMutex' = NoThread
  /\ UNCHANGED <<flags, map, clients, link, messages, calls>>
LoopStep(t, c) == c \in todo[t] /\ todo' = [todo EXCEPT ![t] = @ \ {c}]
LoopThrows(t, to) ==
  /\ Goes(t, to) /\ Fails /\ cbMutex' = NoThread
  /\ todo' = [todo EXCEPT ![t] = {}] /\ UNCHANGED requested

(* An exception here leaves subscribe, with running_ set. *)
Resubscribe(t) ==
  /\ ClientCalls(t, "resubscribe") /\ Unlocks
  /\ \/ \E c \in Channels :
          LoopStep(t, c) /\ requested' = requested \cup {c}
          /\ UNCHANGED <<pc, failures, cbMutex>>
     \/ LoopThrows(t, "idle")
  /\ UNCHANGED <<running, subscriber, wire, socket, map, messages, arg>>

(* Mutation: a thread object that exists is taken for a consumer. *)
JoinReuses(t) ==
  /\ Moves(t, "join", IF pc[Consumer] = "none" THEN "start" ELSE "idle")
  /\ UNCHANGED data

(* startConsumeThread: a thread that was not joined yet is joined first.   *)
Join(t) ==
  /\ pc[t] = "join" /\ pc[Consumer] \in {"none", "done"}
  /\ pc' = [pc EXCEPT ![t] = "start", ![Consumer] = "none"]
  /\ UNCHANGED <<flags, map, cbMutex, clients, link, messages, calls>>
Start(t) ==
  /\ pc[t] = "start" /\ pc[Consumer] = "none"
  /\ pc' = [pc EXCEPT ![t] = "idle", ![Consumer] = "test"]
  /\ running' = TRUE
  /\ UNCHANGED <<failures, map, cbMutex, clients, link, messages, calls>>

SubscribeStep(t) ==
  \/ Insert(t) \/ Check(t) \/ Recheck(t) \/ Add(t) \/ Create(t)
  \/ Register(t) \/ Reset(t)
  \/ LoopBegins(t, "resubscribing", "resubscribe") \/ Resubscribe(t)
  \/ LoopEnds(t, "resubscribe", "join") \/ Join(t) \/ Start(t)

-----------------------------------------------------------------------------
(* unsubscribe.  callbacks_ is searched and changed without the mutex.     *)

(* Erasing an entry invalidates the iterators the other callers hold on it. *)
Erases(t, cs) ==
  /\ callbacks' = callbacks \ cs
  /\ stale' = stale \cup {u \in Callers \ {t} :
                            pc[u] \in {"remove", "erase"} /\ arg[u] \in cs}

Find(t) == Only(t, "find", IF arg[t] \notin callbacks THEN "empty"
                           ELSE IF running THEN "remove" ELSE "erase")

(* An exception leaves unsubscribe, and the callback stays. *)
Remove(t) ==
  /\ ClientCalls(t, "remove") /\ Unlocks
  /\ \/ /\ Goes(t, "erase") /\ requested' = requested \ {arg[t]}
        /\ UNCHANGED <<failures, stale>>
     \/ /\ Goes(t, "idle") /\ Fails
        /\ stale' = stale \ {t} /\ UNCHANGED requested
  /\ UNCHANGED <<running, callbacks, subscriber, wire, socket>>
  /\ UNCHANGED <<cbMutex, messages, calls>>
Erase(t) ==
  /\ t \notin stale /\ Moves(t, "erase", "empty") /\ Erases(t, {arg[t]})
  /\ UNCHANGED <<flags, cbMutex, clients, link, messages, calls>>

(* Mutation: the last one out leaves the consumer running. *)
EmptyIgnored(t) == Only(t, "empty", Back(t))

(* The last one out stops the consumer. *)
Empty(t) ==
  Only(t, "empty", IF callbacks = {} THEN "halt" ELSE Back(t))
Halt(t) ==
  /\ Moves(t, "halt", Back(t)) /\ StopsRunning
  /\ UNCHANGED <<failures, map, cbMutex, clients, link, messages, calls>>

(* unsubscribe(): the entries go even when the server is not told. *)
Stop(t) ==
  /\ Moves(t, "stop", "removing") /\ StopsRunning
  /\ UNCHANGED <<failures, map, cbMutex, clients, link, messages, calls>>
RemoveAll(t) ==
  /\ ClientCalls(t, "removeAll") /\ Unlocks
  /\ \/ \E c \in Channels :
          LoopStep(t, c) /\ requested' = requested \ {c}
          /\ UNCHANGED <<pc, failures, cbMutex>>
     \/ LoopThrows(t, "clear")
  /\ UNCHANGED <<running, subscriber, wire, socket, map, messages, arg>>
Clear(t) ==
  /\ Moves(t, "clear", Back(t)) /\ Erases(t, callbacks)
  /\ UNCHANGED <<flags, cbMutex, clients, link, messages, calls>>

UnsubscribeStep(t) ==
  \/ Find(t) \/ Remove(t) \/ Erase(t) \/ Empty(t) \/ Halt(t) \/ Stop(t)
  \/ LoopBegins(t, "removing", "removeAll") \/ RemoveAll(t)
  \/ LoopEnds(t, "removeAll", "clear") \/ Clear(t)

-----------------------------------------------------------------------------
(* The consumer thread *)

Tests == Only(Consumer, "test", IF running THEN "consume" ELSE "done")

Consuming == ClientCalls(Consumer, "consume")

(* The connection sends its buffer before it waits for an answer. *)
Sends ==
  /\ Consuming /\ sent # requested /\ sent' = requested
  /\ UNCHANGED <<subscriber, requested, subscribed, socket, pc>>
  /\ UNCHANGED <<flags, map, cbMutex, clients, messages, calls>>

(* Mutations of Delivers: an early return keeps callbacks_mutex_; the      *)
(* message stays at the head of the connection.                            *)
DeliversLocked ==
  /\ pc[Consumer] = "deliver" /\ cbMutex = NoThread /\ subscriber # "none"
  /\ Goes(Consumer, "test") /\ Unlocks
  /\ cbMutex' = IF Head(socket)[1] \in callbacks THEN NoThread ELSE Consumer
  /\ socket' = Tail(socket)
  /\ UNCHANGED <<subscriber, requested, wire, messages, flags, map, calls>>
DeliversAgain ==
  /\ pc[Consumer] = "deliver" /\ cbMutex = NoThread /\ subscriber # "none"
  /\ Goes(Consumer, "test") /\ Unlocks
  /\ handed' = IF Head(socket)[1] \in callbacks
               THEN Append(handed, Head(socket)[2]) ELSE handed
  /\ UNCHANGED <<link, published, flags, map, cbMutex, calls>>

(* The message's callback runs inside consume, both mutexes held. *)
Receives ==
  /\ Consuming /\ subscriber = "ready" /\ socket # <<>>
  /\ Only(Consumer, "consume", "deliver")
Delivers ==
  /\ pc[Consumer] = "deliver" /\ cbMutex = NoThread /\ subscriber # "none"
  /\ Goes(Consumer, "test") /\ Unlocks
  /\ handed' = IF Head(socket)[1] \in callbacks
               THEN Append(handed, Head(socket)[2]) ELSE handed
  /\ socket' = Tail(socket)
  /\ UNCHANGED <<subscriber, requested, wire, published, flags, map>>
  /\ UNCHANGED <<cbMutex, calls>>

(* A message read before on_message is registered is dropped. *)
Drops ==
  /\ Consuming /\ subscriber = "bare" /\ socket # <<>>
  /\ Goes(Consumer, "test") /\ Unlocks /\ socket' = Tail(socket)
  /\ UNCHANGED <<subscriber, requested, wire, messages, flags, map>>
  /\ UNCHANGED <<cbMutex, calls>>

(* Mutation: consume waits for an answer with commands in its buffer. *)
ReceivesUnsent ==
  /\ Consuming /\ Goes(Consumer, "test") /\ Unlocks
  /\ UNCHANGED <<flags, map, cbMutex, link, messages, calls>>

(* A time-out, or the server's answer to a (un)subscription. *)
ReceivesNothing ==
  /\ Consuming /\ sent = requested /\ Goes(Consumer, "test") /\ Unlocks
  /\ UNCHANGED <<flags, map, cbMutex, link, messages, calls>>

(* The connection is reset: the consumer gives up. *)
LosesConnection ==
  /\ Consuming /\ Goes(Consumer, "done") /\ Unlocks
  /\ Fails /\ StopsRunning
  /\ UNCHANGED <<map, cbMutex, link, messages, calls>>

ConsumerStep ==
  Tests \/ Sends \/ Receives \/ Delivers \/ Drops \/ ReceivesNothing
    \/ LosesConnection

-----------------------------------------------------------------------------
(* Undefined behaviour *)

(* A call through subscriber_ before initializeSubscriber has set it, or   *)
(* when it has reset it; it may do so in the middle of a call.             *)
NullSubscriber ==
  /\ subscriber = "none"
  /\ \E t \in Threads : redisMutex = t /\ pc[t] \in Subscribing

(* callbacks_.erase(it) of an entry another caller has erased. *)
DanglingIterator == \E t \in stale : pc[t] = "erase"

(* callbacks_ is changed and used at the same time, one of the two without *)
(* callbacks_mutex_.                                                       *)
UnderMutex(t) == cbMutex \in {NoThread, t}
Inside(t) == (pc[t] \in {"insert", "deliver"} /\ UnderMutex(t)) \/ cbMutex = t
Changes(t) ==
  pc[t] \in {"erase", "clear"} \/ (pc[t] = "insert" /\ Inside(t))
Reads(t)   == pc[t] \in {"find", "empty"} \/ Inside(t)
CallbackRace ==
  \E t, u \in Threads : /\ t # u
                         /\ Changes(t) /\ (Changes(u) \/ Reads(u))
                         /\ ~(Inside(t) /\ Inside(u))

(* subscriptionThread_ is used by two callers at the same time. *)
ThreadRace ==
  \E t, u \in Callers : t # u /\ {pc[t], pc[u]} \subseteq {"join", "start"}

UndefinedBehaviour ==
  NullSubscriber \/ DanglingIterator \/ CallbackRace \/ ThreadRace

-----------------------------------------------------------------------------
Call(t) ==
  \/ \E c \in Channels : Subscribe(t, c) \/ Unsubscribe(t, c) \/ Publish(t, c)
  \/ UnsubscribeAll(t) \/ Destroy(t)
CallerStep(t) ==
  LockClient(t) \/ SubscribeStep(t) \/ UnsubscribeStep(t)
    \/ Publishes(t) \/ LastJoin(t)

(* The program breaks: no thread takes a step any more. *)
Breaks ==
  /\ UndefinedBehaviour
  /\ pc' = [t \in Threads |-> "broken"] /\ UNCHANGED data

Next ==
  \/ \E t \in Callers : Call(t) \/ CallerStep(t)
  \/ LockClient(Consumer) \/ ConsumerStep
  \/ \E c \in Channels : OtherPublish(c)
  \/ ServerStep
  \/ Breaks

(* Threads run, and a consume ends: it waits no longer than its time-out.  *)
(* The server obeys.  A thread that is about to call through a null        *)
(* pointer does.  Nobody has to call, and nothing has to fail.             *)
Fairness ==
  /\ \A t \in Callers : WF_vars(CallerStep(t))
  /\ WF_vars(LockClient(Consumer) \/ ConsumerStep)
  /\ WF_vars(ServerStep)
  /\ WF_vars(NullSubscriber /\ Breaks)

Spec == Init /\ [][Next]_vars
FairSpec == Spec /\ Fairness

=============================================================================
