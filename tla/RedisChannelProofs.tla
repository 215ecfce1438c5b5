------------------------- MODULE RedisChannelProofs -------------------------
(***************************************************************************)
(* Proofs about the channel, for any callers and channels, and any number  *)
(* of messages and failures.                                               *)
(***************************************************************************)
EXTENDS RedisChannelProperties, FiniteSetTheorems, TLAPS

Message == Channels \X (1 .. MaxMessages)

LEMMA ElementTyped ==
  ASSUME NEW S, NEW s \in Seq(S), NEW i \in 1 .. Len(s) PROVE s[i] \in S
OBVIOUS

LEMMA HeadTyped ==
  ASSUME NEW s \in Seq(Message), s # <<>>
  PROVE  /\ Head(s)[1] \in Channels /\ Head(s)[2] \in 1 .. MaxMessages
         /\ Tail(s) \in Seq(Message)
<1>1. Head(s) \in Message
  OBVIOUS
<1> QED
  BY <1>1 DEF Message

LEMMA AppendTyped ==
  ASSUME NEW s \in Seq(1 .. MaxMessages), NEW n \in 1 .. MaxMessages
  PROVE  Append(s, n) \in Seq(1 .. MaxMessages)
OBVIOUS

(* On its way through subscribe a thread works on a channel; the consumer  *)
(* that hands a message over has it in the connection and keeps the        *)
(* connection to itself; its subscriber may be reset meanwhile.            *)
PlaceInv ==
  /\ \A t \in Callers :
       pc[t] \in {"insert", "check", "recheck", "add"} => arg[t] \in Channels
  /\ pc[Consumer] = "deliver" =>
       redisMutex = Consumer /\ (subscriber # "none" => socket # <<>>)

LEMMA LockTyped ==
  ASSUME TypeOK, PlaceInv, NEW t \in Threads, LockClient(t)
  PROVE  TypeOK' /\ PlaceInv'
BY RedisChannelAssumption DEF LockClient, TypeOK, PlaceInv, Threads, flags, map, link,
   wire, messages, calls

LEMMA CallTyped ==
  ASSUME TypeOK, PlaceInv, NEW t \in Callers, Call(t)
  PROVE  TypeOK' /\ PlaceInv'
<1>1. \E place \in {"insert", "find", "stop", "publish"},
         c \in Channels \cup {Every, AtExit} :
         Begin(t, place, c) /\ (place = "insert" => c \in Channels)
  BY DEF Call, Subscribe, Unsubscribe, UnsubscribeAll, Publish, Destroy
<1> QED
  BY <1>1, RedisChannelAssumption DEF Begin, Moves, Goes, TypeOK, PlaceInv, Threads,
     Places, ConsumerPlaces, flags, map, clients, link, wire, messages

LEMMA PublishedTyped ==
  ASSUME TypeOK, NEW c, Published(c)
  PROVE  /\ socket' \in Seq(Message) /\ published' \in 0 .. MaxMessages
         /\ socket # <<>> => socket' # <<>>
<1>1. socket \in Seq(Message) /\ subscribed \subseteq Channels
      /\ published' \in 1 .. MaxMessages
  BY RedisChannelAssumption DEF TypeOK, Message, Published
<1>2. CASE c \in subscribed
  <2>1. <<c, published'>> \in Message
    BY <1>1, <1>2 DEF Message
  <2> QED
    BY <1>1, <1>2, <2>1 DEF Published
<1>3. CASE c \notin subscribed
  BY <1>1, <1>3 DEF Published
<1> QED
  BY <1>2, <1>3

(* The places apart from the rest. *)
PcTyped ==
  /\ pc \in [Threads -> Places \cup ConsumerPlaces]
  /\ pc[Consumer] \in ConsumerPlaces
  /\ \A t \in Callers : pc[t] \in Places
WireTyped ==
  requested \subseteq Channels /\ sent \subseteq Channels /\ subscribed \subseteq Channels
DataTyped ==
  /\ running \in BOOLEAN
  /\ callbacks \subseteq Channels /\ WireTyped
  /\ cbMutex \in Callers \cup {NoThread}
  /\ turn \in Threads \cup {NoThread} /\ redisMutex \in Threads \cup {NoThread}
  /\ subscriber \in {"none", "bare", "ready"}
  /\ socket \in Seq(Channels \X (1 .. MaxMessages))
  /\ published \in 0 .. MaxMessages /\ failures \in 0 .. MaxFailures
  /\ handed \in Seq(1 .. MaxMessages)
  /\ arg \in [Callers -> Channels \cup {Every, AtExit}]
  /\ todo \in [Callers -> SUBSET Channels]
  /\ stale \subseteq Callers

LEMMA TypeParts == TypeOK <=> PcTyped /\ DataTyped
BY DEF TypeOK, PcTyped, DataTyped, WireTyped

LEMMA TypePartsNext == TypeOK' <=> PcTyped' /\ DataTyped'
BY DEF TypeOK, PcTyped, DataTyped, WireTyped

LEMMA CallerMoves ==
  ASSUME TypeOK, NEW t \in Callers, NEW place \in Places, Goes(t, place)
  PROVE  PcTyped'
BY RedisChannelAssumption DEF TypeOK, PcTyped, Goes, Threads

LEMMA ConsumerMoves ==
  ASSUME TypeOK, NEW place \in ConsumerPlaces, Goes(Consumer, place)
  PROVE  PcTyped'
BY RedisChannelAssumption DEF TypeOK, PcTyped, Goes, Threads

(* What a step that touches only these does to the types. *)
LEMMA LinkTyped ==
  ASSUME DataTyped, running' \in BOOLEAN, failures' \in 0 .. MaxFailures,
         cbMutex' \in Callers \cup {NoThread}, redisMutex' \in Threads \cup {NoThread},
         subscriber' \in {"none", "bare", "ready"}, WireTyped',
         socket' \in Seq(Message), todo' \in [Callers -> SUBSET Channels],
         UNCHANGED <<map, turn, messages, arg>>
  PROVE  DataTyped'
BY DEF DataTyped, map, messages, Message, Threads

LEMMA FailsTyped ==
  ASSUME DataTyped, UNCHANGED failures \/ Fails
  PROVE  failures' \in 0 .. MaxFailures
BY RedisChannelAssumption DEF DataTyped, Fails

LEMMA SubscribeTyped ==
  ASSUME TypeOK, PlaceInv, NEW t \in Callers, SubscribeStep(t)
  PROVE  TypeOK' /\ PlaceInv'
<1> USE RedisChannelAssumption
    DEF Moves, Only, flags, map, clients, link, messages, calls, data, Client, ClientCalls,
        NewLink, Unlocks, Fails, StopsRunning
<1>1. PcTyped'
  <2>1. CASE Join(t) \/ Start(t)
    <3>1. CASE Join(t)
      BY <3>1 DEF Join, TypeOK, PcTyped, Threads, Places, ConsumerPlaces
    <3>2. CASE Start(t)
      BY <3>2 DEF Start, TypeOK, PcTyped, Threads, Places, ConsumerPlaces
    <3> QED
      BY <2>1, <3>1, <3>2
  <2>2. CASE UNCHANGED pc
    BY <2>2 DEF TypeOK, PcTyped
  <2>3. CASE \E place \in {"check", "recheck", "create", "add", "idle", "register",
                           "resubscribing", "resubscribe", "join", "reset"} :
                 Goes(t, place)
    BY <2>3, CallerMoves DEF Places
  <2> QED
    BY <2>1, <2>2, <2>3 DEF SubscribeStep, Insert, Check, Recheck, Add, Create, Register,
       Reset, LoopBegins, LoopEnds, Resubscribe, LoopThrows
<1>2. DataTyped'
  <2> USE DEF DataTyped, WireTyped, Threads, wire
  <2>0. DataTyped
    BY TypeParts
  <2>1. CASE Insert(t)
    BY <2>0, <2>1 DEF Insert, PlaceInv
  <2>2. CASE Check(t) \/ Recheck(t) \/ Join(t) \/ Start(t)
    BY <2>0, <2>2 DEF Check, Recheck, Join, Start
  <2>3. CASE Add(t)
    <3>1. /\ failures' \in 0 .. MaxFailures /\ running' \in BOOLEAN
          /\ WireTyped'
          /\ UNCHANGED <<cbMutex, subscriber, socket, todo, map, turn, messages, arg>>
      BY <2>0, <2>3, FailsTyped DEF Add, PlaceInv
    <3> QED
      BY <2>0, <2>3, <3>1, LinkTyped DEF Add, Message
  <2>4. CASE Create(t) \/ Register(t) \/ Reset(t)
    <3>1. /\ failures' \in 0 .. MaxFailures /\ running' \in BOOLEAN
          /\ WireTyped' /\ socket' \in Seq(Message)
          /\ subscriber' \in {"none", "bare", "ready"}
          /\ UNCHANGED <<cbMutex, todo, map, turn, messages, arg>>
      <4>1. UNCHANGED failures \/ Fails
        BY <2>4 DEF Create, Register, Reset
      <4>2. /\ running' = running \/ running' = FALSE
            /\ requested' = requested \/ requested' = {}
            /\ sent' = sent \/ sent' = {}
            /\ subscribed' = subscribed \/ subscribed' = {}
            /\ socket' = socket \/ socket' = <<>>
            /\ subscriber' = subscriber \/ subscriber' \in {"none", "bare", "ready"}
            /\ UNCHANGED <<cbMutex, todo, map, turn, messages, arg>>
        BY <2>4 DEF Create, Register, Reset
      <4>3. failures' \in 0 .. MaxFailures
        BY <2>0, <4>1, FailsTyped
      <4> QED
        <5>1. socket \in Seq(Message) /\ <<>> \in Seq(Message)
          BY <2>0 DEF Message
        <5> QED
          BY <2>0, <4>2, <4>3, <5>1
    <3> QED
      BY <2>0, <2>4, <3>1, LinkTyped DEF Create, Register, Reset
  <2>5. CASE LoopBegins(t, "resubscribing", "resubscribe")
             \/ LoopEnds(t, "resubscribe", "join")
    BY <2>0, <2>5 DEF LoopBegins, LoopEnds
  <2>6. CASE Resubscribe(t)
    <3>1. /\ failures' \in 0 .. MaxFailures /\ cbMutex' \in Callers \cup {NoThread}
          /\ WireTyped' /\ todo' \in [Callers -> SUBSET Channels]
          /\ UNCHANGED <<running, subscriber, socket, map, turn, messages, arg>>
      <4>1. UNCHANGED failures \/ Fails
        BY <2>6 DEF Resubscribe, LoopThrows
      <4>2. failures' \in 0 .. MaxFailures
        BY <2>0, <4>1, FailsTyped
      <4> QED
        <5>1. cbMutex' = cbMutex \/ cbMutex' = NoThread
          BY <2>6 DEF Resubscribe, LoopThrows
        <5>2. /\ \/ requested' = requested
                 \/ \E c \in Channels : requested' = requested \cup {c}
              /\ UNCHANGED wire
          BY <2>6 DEF Resubscribe, LoopThrows
        <5>3. todo' = [todo EXCEPT ![t] = todo'[t]] /\ todo'[t] \subseteq todo[t]
          BY <2>0, <2>6 DEF Resubscribe, LoopStep, LoopThrows
        <5>4. UNCHANGED <<running, subscriber, socket, map, turn, messages, arg>>
          BY <2>6 DEF Resubscribe
        <5> QED
          BY <2>0, <4>2, <5>1, <5>2, <5>3, <5>4
    <3> QED
      BY <2>0, <2>6, <3>1, LinkTyped DEF Resubscribe, Message
  <2> QED
    BY <2>1, <2>2, <2>3, <2>4, <2>5, <2>6 DEF SubscribeStep
<1>3. PlaceInv'
  <2> USE DEF PlaceInv, TypeOK, Goes, Threads
  <2>1. CASE Insert(t) \/ Check(t) \/ Recheck(t)
    BY <2>1 DEF Insert, Check, Recheck
  <2>2. CASE Add(t)
    BY <2>2 DEF Add
  <2>3. CASE Create(t) \/ Register(t) \/ Reset(t)
    BY <2>3 DEF Create, Register, Reset
  <2>4. CASE LoopBegins(t, "resubscribing", "resubscribe")
             \/ LoopEnds(t, "resubscribe", "join")
    BY <2>4 DEF LoopBegins, LoopEnds
  <2>5. CASE Resubscribe(t)
    BY <2>5 DEF Resubscribe, LoopStep, LoopThrows
  <2>6. CASE Join(t) \/ Start(t)
    BY <2>6 DEF Join, Start
  <2> QED
    BY <2>1, <2>2, <2>3, <2>4, <2>5, <2>6 DEF SubscribeStep
<1> QED
  BY <1>1, <1>2, <1>3, TypePartsNext

LEMMA UnsubscribeTyped ==
  ASSUME TypeOK, PlaceInv, NEW t \in Callers, UnsubscribeStep(t)
  PROVE  TypeOK' /\ PlaceInv'
<1> USE RedisChannelAssumption
    DEF Moves, Only, flags, map, clients, link, messages, calls, data, Client, ClientCalls,
        NewLink, Unlocks, Fails, StopsRunning, Back
<1>1. PcTyped'
  <2>1. CASE UNCHANGED pc
    BY <2>1 DEF TypeOK, PcTyped
  <2>2. CASE \E place \in {"empty", "remove", "erase", "idle", "halt", "lastJoin",
                           "removing", "removeAll", "clear"} : Goes(t, place)
    BY <2>2, CallerMoves DEF Places
  <2> QED
    BY <2>1, <2>2 DEF UnsubscribeStep, Find, Remove, Erase, Empty, Halt, Stop, RemoveAll,
       Clear, LoopBegins, LoopEnds, LoopThrows
<1>2. DataTyped'
  <2> USE DEF DataTyped, WireTyped, Threads, wire
  <2>0. DataTyped
    BY TypeParts
  <2>1. CASE Find(t) \/ Empty(t) \/ Halt(t) \/ Stop(t)
    BY <2>0, <2>1 DEF Find, Empty, Halt, Stop
  <2>2. CASE Remove(t)
    BY <2>0, <2>2 DEF Remove
  <2>3. CASE Erase(t) \/ Clear(t)
    BY <2>0, <2>3 DEF Erase, Clear, Erases
  <2>4. CASE LoopBegins(t, "removing", "removeAll") \/ LoopEnds(t, "removeAll", "clear")
    BY <2>0, <2>4 DEF LoopBegins, LoopEnds
  <2>5. CASE RemoveAll(t)
    <3>1. UNCHANGED <<running, subscriber, wire, socket, map, turn, messages, arg>>
      BY <2>5 DEF RemoveAll
    <3>2. /\ failures' \in 0 .. MaxFailures /\ cbMutex' \in Callers \cup {NoThread}
          /\ WireTyped' /\ todo' \in [Callers -> SUBSET Channels]
      <4>1. CASE LoopThrows(t, "clear")
        BY <2>0, <3>1, <4>1, FailsTyped DEF LoopThrows
      <4>2. CASE \E c \in Channels : /\ LoopStep(t, c) /\ requested' = requested \ {c}
                                    /\ UNCHANGED <<pc, failures, cbMutex>>
        BY <2>0, <3>1, <4>2 DEF LoopStep
      <4> QED
        BY <2>5, <4>1, <4>2 DEF RemoveAll
    <3> QED
      BY <2>0, <2>5, <3>1, <3>2, LinkTyped DEF RemoveAll, Message
  <2> QED
    BY <2>1, <2>2, <2>3, <2>4, <2>5 DEF UnsubscribeStep
<1>3. PlaceInv'
  <2> USE DEF PlaceInv, TypeOK, Goes, Threads
  <2>1. CASE Find(t) \/ Empty(t) \/ Halt(t) \/ Stop(t)
    BY <2>1 DEF Find, Empty, Halt, Stop
  <2>2. CASE Remove(t)
    BY <2>2 DEF Remove
  <2>3. CASE Erase(t) \/ Clear(t)
    BY <2>3 DEF Erase, Clear
  <2>4. CASE LoopBegins(t, "removing", "removeAll") \/ LoopEnds(t, "removeAll", "clear")
    BY <2>4 DEF LoopBegins, LoopEnds
  <2>5. CASE RemoveAll(t)
    BY <2>5 DEF RemoveAll, LoopStep, LoopThrows
  <2> QED
    BY <2>1, <2>2, <2>3, <2>4, <2>5 DEF UnsubscribeStep
<1> QED
  BY <1>1, <1>2, <1>3, TypePartsNext

LEMMA ConsumerTyped ==
  ASSUME TypeOK, PlaceInv, ConsumerStep
  PROVE  TypeOK' /\ PlaceInv'
<1> USE RedisChannelAssumption
    DEF Moves, Only, flags, map, clients, link, messages, calls, data, Client, ClientCalls,
        NewLink, Unlocks, Fails, StopsRunning, Consuming
<1>1. PcTyped'
  <2>1. CASE \E place \in {"consume", "done", "deliver", "test"} : Goes(Consumer, place)
    BY <2>1, ConsumerMoves DEF ConsumerPlaces
  <2>2. CASE UNCHANGED pc
    BY <2>2 DEF TypeOK, PcTyped
  <2> QED
    BY <2>1, <2>2 DEF ConsumerStep, Tests, Sends, Receives, Delivers, Drops, ReceivesNothing,
       LosesConnection
<1>2. DataTyped'
  <2> USE DEF DataTyped, WireTyped, Threads, wire
  <2>0. DataTyped
    BY TypeParts
  <2>1. CASE Tests \/ Sends \/ Receives
    BY <2>0, <2>1 DEF Tests, Sends, Receives
  <2>2. CASE Delivers
    <3>1. /\ Head(socket)[2] \in 1 .. MaxMessages
          /\ socket' \in Seq(Channels \X (1 .. MaxMessages))
      BY <2>0, <2>2, HeadTyped DEF Delivers, Message, PlaceInv
    <3>2. handed' \in Seq(1 .. MaxMessages)
      <4>1. handed' = handed \/ handed' = Append(handed, Head(socket)[2])
        BY <2>2 DEF Delivers
      <4> QED
        <5>1. handed \in Seq(1 .. MaxMessages)
          BY <2>0
        <5> HIDE DEF DataTyped
        <5> QED
          BY <3>1, <4>1, <5>1, AppendTyped
    <3> QED
      BY <2>0, <2>2, <3>1, <3>2 DEF Delivers
  <2>3. CASE Drops
    <3>1. socket' \in Seq(Channels \X (1 .. MaxMessages))
      BY <2>0, <2>3, HeadTyped DEF Drops, Message
    <3> QED
      BY <2>0, <2>3, <3>1 DEF Drops
  <2>4. CASE ReceivesNothing
    BY <2>0, <2>4 DEF ReceivesNothing
  <2>5. CASE LosesConnection
    <3>1. failures' \in 0 .. MaxFailures
      BY <2>0, <2>5, FailsTyped DEF LosesConnection
    <3> QED
      BY <2>0, <2>5, <3>1, LinkTyped DEF LosesConnection, Message
  <2> QED
    BY <2>1, <2>2, <2>3, <2>4, <2>5 DEF ConsumerStep
<1>3. PlaceInv'
  BY DEF PlaceInv, TypeOK, Goes, Threads, ConsumerStep, Tests, Sends, Receives, Delivers, Drops,
     ReceivesNothing, LosesConnection
<1> QED
  BY <1>1, <1>2, <1>3, TypePartsNext

LEMMA OthersTyped ==
  ASSUME TypeOK, PlaceInv
  PROVE  /\ \A t \in Callers : Publishes(t) \/ LastJoin(t) => TypeOK' /\ PlaceInv'
         /\ \A c \in Channels : OtherPublish(c) => TypeOK' /\ PlaceInv'
         /\ ServerStep => TypeOK' /\ PlaceInv'
         /\ Breaks => TypeOK' /\ PlaceInv'
         /\ UNCHANGED vars => TypeOK' /\ PlaceInv'
<1> USE RedisChannelAssumption
    DEF Moves, Only, flags, map, clients, link, wire, messages, calls, data
<1>0. PcTyped /\ DataTyped
  BY TypeParts
<1>1. ASSUME NEW t \in Callers, Publishes(t) PROVE TypeOK' /\ PlaceInv'
  <2>1. PcTyped'
    BY <1>1, CallerMoves DEF Publishes, Places
  <2>2. /\ socket' \in Seq(Message) /\ published' \in 0 .. MaxMessages
        /\ socket # <<>> => socket' # <<>>
        /\ UNCHANGED <<subscriber, requested, wire, handed>>
    BY <1>0, <1>1, PublishedTyped DEF Publishes, Published, DataTyped, Message
  <2>3. DataTyped'
    BY <1>0, <1>1, <2>2 DEF Publishes, DataTyped, WireTyped, Message, Unlocks, Threads
  <2>4. PlaceInv'
    BY <1>1, <2>2 DEF Publishes, PlaceInv, Client, Unlocks, Goes, TypeOK, Threads
  <2> QED
    BY <2>1, <2>3, <2>4, TypePartsNext
<1>2. ASSUME NEW t \in Callers, LastJoin(t) PROVE TypeOK' /\ PlaceInv'
  <2>1. PcTyped'
    BY <1>2, CallerMoves DEF LastJoin, Places
  <2>2. DataTyped'
    BY <1>0, <1>2 DEF LastJoin, DataTyped, WireTyped, Threads
  <2>3. PlaceInv'
    BY <1>2 DEF LastJoin, PlaceInv, Goes, TypeOK, Threads
  <2> QED
    BY <2>1, <2>2, <2>3, TypePartsNext
<1>3. ASSUME NEW c \in Channels, OtherPublish(c) PROVE TypeOK' /\ PlaceInv'
  <2>1. /\ socket' \in Seq(Message) /\ published' \in 0 .. MaxMessages
        /\ socket # <<>> => socket' # <<>>
        /\ UNCHANGED <<subscriber, requested, wire, handed>>
    BY <1>3, PublishedTyped DEF OtherPublish, Published
  <2> QED
    BY <1>3, <2>1 DEF OtherPublish, TypeOK, PlaceInv, Message, Threads
<1>6. ASSUME NEW c \in Channels, Obeys(c) PROVE TypeOK' /\ PlaceInv'
  BY <1>6 DEF Obeys, TypeOK, PlaceInv, Threads
<1>4. CASE Breaks
  <2>1. PcTyped'
    BY <1>4 DEF Breaks, PcTyped, Threads, Places, ConsumerPlaces
  <2>2. DataTyped'
    BY <1>0, <1>4 DEF Breaks, DataTyped, WireTyped, Threads
  <2>3. PlaceInv'
    BY <1>4 DEF Breaks, PlaceInv, Threads
  <2> QED
    BY <2>1, <2>2, <2>3, TypePartsNext
<1>5. CASE UNCHANGED vars
  BY <1>5 DEF vars, TypeOK, PlaceInv, Threads
<1> QED
  BY <1>1, <1>2, <1>3, <1>4, <1>5, <1>6 DEF ServerStep

LEMMA TypeStep ==
  ASSUME TypeOK, PlaceInv, [Next]_vars
  PROVE  TypeOK' /\ PlaceInv'
BY LockTyped, CallTyped, SubscribeTyped, UnsubscribeTyped, ConsumerTyped, OthersTyped
DEF Next, CallerStep, Threads

LEMMA InitData ==
  ASSUME Init, <<>> \in Seq(Channels \X (1 .. MaxMessages)),
         <<>> \in Seq(1 .. MaxMessages)
  PROVE  DataTyped
<1>1. /\ arg \in [Callers -> Channels \cup {Every, AtExit}]
      /\ todo \in [Callers -> SUBSET Channels]
  BY DEF Init
<1>2. published \in 0 .. MaxMessages /\ failures \in 0 .. MaxFailures
  BY RedisChannelAssumption DEF Init
<1> QED
  BY <1>1, <1>2 DEF Init, DataTyped, WireTyped

LEMMA Typed == Spec => [](TypeOK /\ PlaceInv)
<1>1. Init => TypeOK /\ PlaceInv
  <2> USE RedisChannelAssumption DEF Init, Threads
  <2>1. Init => PcTyped
    BY DEF PcTyped, Places, ConsumerPlaces
  <2>2. Init => DataTyped
    <3>1. <<>> \in Seq(Channels \X (1 .. MaxMessages)) /\ <<>> \in Seq(1 .. MaxMessages)
      OBVIOUS
    <3> QED
      BY <3>1, InitData
  <2>3. Init => PlaceInv
    BY DEF PlaceInv
  <2> QED
    BY <2>1, <2>2, <2>3, TypeParts
<1> QED
  BY <1>1, TypeStep, PTL DEF Spec

(* The state keeps its types in every run. *)
THEOREM TypeCorrect == Spec => []TypeOK
BY Typed, PTL

-----------------------------------------------------------------------------
(* running_ and the consumer it stands for.                                *)
LEMMA ListenStep ==
  ASSUME TypeOK, SomeoneListens, [Next]_vars
  PROVE  SomeoneListens'
<1> USE RedisChannelAssumption
    DEF SomeoneListens, Listening, Starting, Broken, TypeOK, Threads, Moves, Goes, Only,
        flags, data, Fails, StopsRunning, Places, ConsumerPlaces
<1>1. CASE UNCHANGED vars
  BY <1>1 DEF vars
<1>2. ASSUME NEW t \in Threads, LockClient(t) PROVE SomeoneListens'
  BY <1>2 DEF LockClient
<1>3. ASSUME NEW t \in Callers, Call(t) PROVE SomeoneListens'
  <2>1. \E place \in {"insert", "find", "stop", "publish"} : Moves(t, "idle", place)
        /\ UNCHANGED flags
    BY <1>3 DEF Call, Subscribe, Unsubscribe, UnsubscribeAll, Publish, Destroy, Begin
  <2> QED
    BY <2>1
<1>4. ASSUME NEW t \in Callers, SubscribeStep(t) PROVE SomeoneListens'
  <2>1. CASE Insert(t) \/ Recheck(t)
    BY <2>1 DEF Insert, Recheck
  <2>2. CASE Check(t)
    BY <2>2 DEF Check
  <2>3. CASE Add(t)
    BY <2>3 DEF Add, ClientCalls, Client
  <2>4. CASE Create(t)
    BY <2>4 DEF Create, Client
  <2>8. CASE Register(t)
    BY <2>8 DEF Register, ClientCalls, Client
  <2>9. CASE Reset(t)
    BY <2>9 DEF Reset
  <2>5. CASE LoopBegins(t, "resubscribing", "resubscribe")
             \/ LoopEnds(t, "resubscribe", "join")
    BY <2>5 DEF LoopBegins, LoopEnds
  <2>6. CASE Resubscribe(t)
    BY <2>6 DEF Resubscribe, LoopThrows
  <2>7. CASE Join(t) \/ Start(t)
    BY <2>7 DEF Join, Start
  <2> QED
    BY <1>4, <2>1, <2>2, <2>3, <2>4, <2>5, <2>6, <2>7, <2>8, <2>9 DEF SubscribeStep
<1>5. ASSUME NEW t \in Callers, UnsubscribeStep(t) PROVE SomeoneListens'
  <2>1. CASE Find(t) \/ Erase(t) \/ Empty(t) \/ Clear(t)
    BY <2>1 DEF Find, Erase, Empty, Clear
  <2>2. CASE Remove(t)
    BY <2>2 DEF Remove, ClientCalls, Client
  <2>3. CASE Halt(t) \/ Stop(t)
    BY <2>3 DEF Halt, Stop
  <2>4. CASE LoopBegins(t, "removing", "removeAll") \/ LoopEnds(t, "removeAll", "clear")
    BY <2>4 DEF LoopBegins, LoopEnds
  <2>5. CASE RemoveAll(t)
    BY <2>5 DEF RemoveAll, LoopThrows, ClientCalls, Client
  <2> QED
    BY <1>5, <2>1, <2>2, <2>3, <2>4, <2>5 DEF UnsubscribeStep
<1>6. ASSUME NEW t \in Callers, Publishes(t) \/ LastJoin(t) PROVE SomeoneListens'
  BY <1>6 DEF Publishes, LastJoin, Client
<1>7. CASE ConsumerStep
  BY <1>7 DEF ConsumerStep, Tests, Sends, Receives, Delivers, Drops, ReceivesNothing,
     LosesConnection
<1>8. ASSUME NEW c \in Channels, OtherPublish(c) PROVE SomeoneListens'
  BY <1>8 DEF OtherPublish
<1>10. CASE ServerStep
  BY <1>10 DEF ServerStep, Obeys
<1>9. CASE Breaks
  BY <1>9 DEF Breaks
<1> QED
  BY <1>1, <1>2, <1>3, <1>4, <1>5, <1>6, <1>7, <1>8, <1>9, <1>10
DEF Next, CallerStep

(* While no call throws, a set running_ means that there is a consumer, or  *)
(* a caller about to start one.                                            *)
THEOREM ListenersCorrect == Spec => []SomeoneListens
<1>1. Init => SomeoneListens
  BY DEF Init, SomeoneListens
<1>2. TypeOK /\ SomeoneListens /\ [Next]_vars => SomeoneListens'
  BY ListenStep
<1> QED
  BY <1>1, <1>2, TypeCorrect, PTL DEF Spec

-----------------------------------------------------------------------------
(* The order of the messages: what was handed over came before what is in  *)
(* the connection, and that before what will be published.                 *)
OrderInv ==
  /\ HandedInOrder
  /\ \A i, j \in 1 .. Len(socket) : i < j => socket[i][2] < socket[j][2]
  /\ \A i \in 1 .. Len(handed) :
       /\ handed[i] <= published
       /\ \A j \in 1 .. Len(socket) : handed[i] < socket[j][2]
  /\ \A j \in 1 .. Len(socket) : socket[j][2] <= published

LEMMA NumbersTyped ==
  ASSUME TypeOK
  PROVE  /\ published \in Nat /\ Len(socket) \in Nat /\ Len(handed) \in Nat
         /\ \A i \in 1 .. Len(handed) : handed[i] \in Nat
         /\ \A j \in 1 .. Len(socket) : socket[j][2] \in Nat
<1>1. \A j \in 1 .. Len(socket) : socket[j][2] \in 1 .. MaxMessages
  <2>1. socket \in Seq(Message)
    BY DEF TypeOK, Message
  <2>2. \A j \in 1 .. Len(socket) : socket[j] \in Message
    BY <2>1
  <2> QED
    BY <2>2 DEF Message
<1>2. \A i \in 1 .. Len(handed) : handed[i] \in 1 .. MaxMessages
  <2>1. handed \in Seq(1 .. MaxMessages)
    BY DEF TypeOK
  <2> QED
    BY <2>1, ElementTyped
<1> QED
  BY <1>1, <1>2, RedisChannelAssumption DEF TypeOK

LEMMA OrderKept ==
  ASSUME TypeOK, OrderInv, UNCHANGED messages, socket' = socket \/ socket' = <<>>
  PROVE  OrderInv'
<1>1. CASE socket' = socket
  BY <1>1 DEF OrderInv, HandedInOrder, messages
<1>2. CASE socket' = <<>>
  BY <1>2 DEF OrderInv, HandedInOrder, messages
<1> QED
  BY <1>1, <1>2

LEMMA OrderPublished ==
  ASSUME TypeOK, OrderInv, NEW c, Published(c)
  PROVE  OrderInv'
<1>1. published \in Nat /\ published' = published + 1 /\ handed' = handed
  BY RedisChannelAssumption DEF TypeOK, Published
<1>2. CASE socket' = socket
  BY <1>1, <1>2, NumbersTyped DEF OrderInv, HandedInOrder
<1>3. CASE socket' = Append(socket, <<c, published'>>)
  <2>1. /\ Len(socket') = Len(socket) + 1 /\ Len(socket) \in Nat
        /\ \A i \in 1 .. Len(socket) : socket'[i] = socket[i]
        /\ socket'[Len(socket) + 1] = <<c, published'>>
    BY <1>3 DEF TypeOK
  <2>2. \A i \in 1 .. Len(socket) : socket'[i][2] <= published
    BY <2>1 DEF OrderInv
  <2> QED
    <3>1. HandedInOrder'
      BY <1>1 DEF OrderInv, HandedInOrder
    <3>2. \A i, j \in 1 .. Len(socket') : i < j => socket'[i][2] < socket'[j][2]
      <4>1. \A i, j \in 1 .. Len(socket) : i < j => socket[i][2] < socket[j][2]
        BY DEF OrderInv
      <4>2. /\ \A j \in 1 .. Len(socket') : j \in 1 .. Len(socket) \/ j = Len(socket) + 1
            /\ \A i \in 1 .. Len(socket) : socket[i][2] \in Nat
        BY <2>1, NumbersTyped
      <4> QED
        BY <1>1, <2>1, <2>2, <4>1, <4>2
    <3>3. \A i \in 1 .. Len(handed) :
            /\ handed[i] <= published'
            /\ \A j \in 1 .. Len(socket') : handed[i] < socket'[j][2]
      <4>1. \A i \in 1 .. Len(handed) :
              /\ handed[i] \in Nat /\ handed[i] <= published
              /\ \A j \in 1 .. Len(socket) : handed[i] < socket[j][2]
        BY NumbersTyped DEF OrderInv
      <4>2. \A j \in 1 .. Len(socket') : j \in 1 .. Len(socket) \/ j = Len(socket) + 1
        BY <2>1, NumbersTyped
      <4>3. published' = published + 1 /\ published \in Nat
        BY <1>1, NumbersTyped
      <4>4. \A i \in 1 .. Len(handed), j \in 1 .. Len(socket) :
              handed[i] < socket'[j][2]
        BY <2>1, <4>1
      <4>5. \A i \in 1 .. Len(handed) :
              handed[i] <= published' /\ handed[i] < socket'[Len(socket) + 1][2]
        BY <2>1, <4>1, <4>3
      <4> QED
        BY <4>2, <4>4, <4>5
    <3>4. \A j \in 1 .. Len(socket') : socket'[j][2] <= published'
      BY <1>1, <2>1, <2>2, NumbersTyped
    <3> QED
      BY <1>1, <3>1, <3>2, <3>3, <3>4 DEF OrderInv
<1> QED
  BY <1>2, <1>3 DEF Published

LEMMA OrderDelivered ==
  ASSUME TypeOK, OrderInv, socket # <<>>, socket' = Tail(socket), published' = published,
         handed' = handed \/ handed' = Append(handed, Head(socket)[2])
  PROVE  OrderInv'
<1>1. /\ Len(socket') = Len(socket) - 1 /\ Len(socket) \in Nat \ {0}
      /\ \A i \in 1 .. Len(socket') : socket'[i] = socket[i + 1]
      /\ Head(socket) = socket[1]
  BY DEF TypeOK
<1>2. \A i \in 1 .. Len(socket) : socket[i][2] \in Nat
  BY DEF TypeOK
<1>3. CASE handed' = handed
  BY <1>1, <1>2, <1>3 DEF OrderInv, HandedInOrder, TypeOK
<1>4. CASE handed' = Append(handed, Head(socket)[2])
  <2>1. /\ Len(handed') = Len(handed) + 1 /\ Len(handed) \in Nat
        /\ \A i \in 1 .. Len(handed) : handed'[i] = handed[i] /\ handed[i] \in Nat
        /\ handed'[Len(handed) + 1] = socket[1][2]
    <3>1. Head(socket)[2] \in 1 .. MaxMessages
      BY HeadTyped DEF TypeOK, Message
    <3>2. handed \in Seq(1 .. MaxMessages)
      BY DEF TypeOK
    <3> QED
      BY <1>1, <1>4, <3>1, <3>2, NumbersTyped
  <2> QED
    <3>1. HandedInOrder'
      <4>1. \A i \in 1 .. Len(handed) : handed[i] < socket[1][2]
        BY <1>1 DEF OrderInv
      <4>2. \A i \in 1 .. Len(handed') : i \in 1 .. Len(handed) \/ i = Len(handed) + 1
        BY <2>1
      <4> QED
        BY <2>1, <4>1, <4>2 DEF OrderInv, HandedInOrder
    <3>2. \A i, j \in 1 .. Len(socket') : i < j => socket'[i][2] < socket'[j][2]
      BY <1>1, NumbersTyped DEF OrderInv
    <3>3. \A i \in 1 .. Len(handed') :
            /\ handed'[i] <= published
            /\ \A j \in 1 .. Len(socket') : handed'[i] < socket'[j][2]
      <4>1. \A j \in 1 .. Len(socket') :
              socket'[j] = socket[j + 1] /\ 1 < j + 1 /\ j + 1 \in 1 .. Len(socket)
        BY <1>1
      <4>2. \A j \in 1 .. Len(socket') : socket[1][2] < socket'[j][2]
        BY <1>1, <4>1 DEF OrderInv
      <4>3. socket[1][2] <= published
        BY <1>1 DEF OrderInv
      <4>4. \A i \in 1 .. Len(handed) :
              /\ handed[i] <= published
              /\ \A j \in 1 .. Len(socket') : handed[i] < socket'[j][2]
        BY <4>1 DEF OrderInv
      <4>5. \A i \in 1 .. Len(handed') : i \in 1 .. Len(handed) \/ i = Len(handed) + 1
        BY <2>1
      <4> QED
        BY <2>1, <4>2, <4>3, <4>4, <4>5
    <3>4. \A j \in 1 .. Len(socket') : socket'[j][2] <= published
      BY <1>1, NumbersTyped DEF OrderInv
    <3> QED
      BY <3>1, <3>2, <3>3, <3>4 DEF OrderInv
<1> QED
  BY <1>3, <1>4

LEMMA OrderStep ==
  ASSUME TypeOK, PlaceInv, OrderInv, [Next]_vars
  PROVE  OrderInv'
<1> USE DEF messages, link, data, Only, NewLink
<1>1. CASE UNCHANGED vars
  BY <1>1, OrderKept DEF vars
<1>2. ASSUME NEW t \in Threads, LockClient(t) PROVE OrderInv'
  BY <1>2, OrderKept DEF LockClient
<1>3. ASSUME NEW t \in Callers, Call(t) PROVE OrderInv'
  BY <1>3, OrderKept
  DEF Call, Subscribe, Unsubscribe, UnsubscribeAll, Publish, Destroy, Begin
<1>4. ASSUME NEW t \in Callers, SubscribeStep(t) PROVE OrderInv'
  BY <1>4, OrderKept DEF SubscribeStep, Insert, Check, Recheck, Add, Create, Register,
     Reset, LoopBegins, LoopEnds, Resubscribe, Join, Start
<1>5. ASSUME NEW t \in Callers, UnsubscribeStep(t) PROVE OrderInv'
  BY <1>5, OrderKept DEF UnsubscribeStep, Find, Remove, Erase, Empty, Halt, Stop,
     LoopBegins, LoopEnds, RemoveAll, Clear
<1>6. ASSUME NEW t \in Callers, Publishes(t) \/ LastJoin(t) PROVE OrderInv'
  BY <1>6, OrderKept, OrderPublished DEF Publishes, LastJoin
<1>7. CASE ConsumerStep
  BY <1>7, OrderKept, OrderDelivered DEF ConsumerStep, Tests, Sends, Receives, Delivers, Drops,
     ReceivesNothing, LosesConnection, PlaceInv
<1>8. ASSUME NEW c \in Channels, OtherPublish(c) PROVE OrderInv'
  BY <1>8, OrderPublished DEF OtherPublish
<1>10. CASE ServerStep
  BY <1>10, OrderKept DEF ServerStep, Obeys
<1>9. CASE Breaks
  BY <1>9, OrderKept DEF Breaks
<1> QED
  BY <1>1, <1>2, <1>3, <1>4, <1>5, <1>6, <1>7, <1>8, <1>9, <1>10
DEF Next, CallerStep, Threads

(* Messages reach the pool in the order they were sent, each at most once. *)
THEOREM OrderCorrect == Spec => []HandedInOrder
<1>1. Init => OrderInv
  BY DEF Init, OrderInv, HandedInOrder
<1>2. TypeOK /\ PlaceInv /\ OrderInv /\ [Next]_vars => OrderInv'
  BY OrderStep
<1>3. OrderInv => HandedInOrder
  BY DEF OrderInv
<1> QED
  BY <1>1, <1>2, <1>3, Typed, PTL DEF Spec

-----------------------------------------------------------------------------
(* One caller, c.  While there is no subscriber_ nothing of c's runs that  *)
(* uses it, and no consumer unless a registration failed; nobody else can  *)
(* make an iterator of c's stale.                                          *)
SoleInv(c) ==
  /\ stale = {}
  /\ pc[c] = "reset" => failures # 0
  /\ subscriber = "none" =>
       /\ pc[c] \in {"idle", "insert", "check", "create", "find", "erase", "empty", "halt",
                     "publish", "lastJoin", "gone", "broken"}
       /\ running => pc[c] \in {"create", "broken"}
       /\ failures = 0 => pc[Consumer] \in {"none", "broken"}

LEMMA SoleStep ==
  ASSUME TypeOK, NEW c, Callers = {c}, SoleInv(c), [Next]_vars
  PROVE  SoleInv(c)'
<1> USE RedisChannelAssumption
    DEF SoleInv, TypeOK, Threads, Moves, Goes, Only, flags, map, link, data, Fails,
        StopsRunning, ConsumerPlaces
<1>1. CASE UNCHANGED vars
  BY <1>1 DEF vars
<1>2. ASSUME NEW t \in Threads, LockClient(t) PROVE SoleInv(c)'
  BY <1>2 DEF LockClient
<1>3. CASE Call(c)
  BY <1>3 DEF Call, Subscribe, Unsubscribe, UnsubscribeAll, Publish, Destroy, Begin
<1>4. CASE SubscribeStep(c)
  <2>1. CASE Insert(c) \/ Check(c) \/ Recheck(c)
    BY <2>1 DEF Insert, Check, Recheck
  <2>2. CASE Add(c) \/ Create(c) \/ Register(c) \/ Reset(c)
    BY <2>2 DEF Add, Create, Register, Reset, NewLink, ClientCalls, Client
  <2>3. CASE LoopBegins(c, "resubscribing", "resubscribe")
             \/ LoopEnds(c, "resubscribe", "join") \/ Resubscribe(c)
    BY <2>3 DEF LoopBegins, LoopEnds, Resubscribe, LoopThrows, ClientCalls, Client
  <2>4. CASE Join(c) \/ Start(c)
    BY <2>4 DEF Join, Start
  <2> QED
    BY <1>4, <2>1, <2>2, <2>3, <2>4 DEF SubscribeStep
<1>5. CASE UnsubscribeStep(c)
  <2>1. CASE Find(c) \/ Erase(c) \/ Empty(c) \/ Clear(c)
    BY <2>1 DEF Find, Erase, Empty, Clear, Erases, Back
  <2>2. CASE Remove(c) \/ RemoveAll(c)
    BY <2>2 DEF Remove, RemoveAll, LoopThrows, ClientCalls, ClientCalls, Client
  <2>3. CASE Halt(c) \/ Stop(c)
    BY <2>3 DEF Halt, Stop, Back
  <2>4. CASE LoopBegins(c, "removing", "removeAll") \/ LoopEnds(c, "removeAll", "clear")
    BY <2>4 DEF LoopBegins, LoopEnds
  <2> QED
    BY <1>5, <2>1, <2>2, <2>3, <2>4 DEF UnsubscribeStep
<1>6. CASE Publishes(c) \/ LastJoin(c)
  BY <1>6 DEF Publishes, Published, LastJoin, Client
<1>7. CASE ConsumerStep
  BY <1>7 DEF ConsumerStep, Tests, Sends, Receives, Delivers, Drops, ReceivesNothing,
     LosesConnection, Consuming, ClientCalls, Client
<1>8. ASSUME NEW d \in Channels, OtherPublish(d) PROVE SoleInv(c)'
  BY <1>8 DEF OtherPublish, Published
<1>10. CASE ServerStep
  BY <1>10 DEF ServerStep, Obeys
<1>9. CASE Breaks
  BY <1>9 DEF Breaks
<1> QED
  BY <1>1, <1>2, <1>3, <1>4, <1>5, <1>6, <1>7, <1>8, <1>9, <1>10
DEF Next, CallerStep

LEMMA SoleRace ==
  ASSUME TypeOK, NEW c, Callers = {c}, SoleInv(c), UndefinedBehaviour
  PROVE  \/ pc[Consumer] = "deliver" /\ pc[c] \in {"erase", "clear"}
         \/ /\ failures > 0 /\ subscriber = "none"
            /\ redisMutex = Consumer /\ pc[Consumer] \in {"consume", "deliver"}
<1>1. ~DanglingIterator /\ ~ThreadRace
  BY RedisChannelAssumption DEF DanglingIterator, ThreadRace, SoleInv, Threads
<1>2. CASE NullSubscriber
  <2>1. PICK t \in Threads : redisMutex = t /\ pc[t] \in Subscribing
    BY <1>2 DEF NullSubscriber
  <2>2. t = Consumer
    BY <1>2, <2>1 DEF NullSubscriber, SoleInv, Subscribing, Uses, Threads
  <2>3. pc[Consumer] \in {"consume", "deliver"}
    BY <2>1, <2>2 DEF Subscribing, Uses, TypeOK, ConsumerPlaces
  <2>4. failures > 0
    BY <1>2, <2>3, RedisChannelAssumption DEF NullSubscriber, SoleInv, TypeOK
  <2> QED
    BY <1>2, <2>1, <2>2, <2>3, <2>4 DEF NullSubscriber
<1>3. CASE CallbackRace
  <2>1. PICK t \in Threads, u \in Threads :
          /\ t # u /\ Changes(t) /\ (Changes(u) \/ Reads(u)) /\ ~(Inside(t) /\ Inside(u))
    BY <1>3 DEF CallbackRace
  <2>2. t = c /\ u = Consumer
    BY <2>1, RedisChannelAssumption DEF Threads, Changes, TypeOK, ConsumerPlaces
  <2>3. cbMutex # Consumer
    BY RedisChannelAssumption DEF TypeOK
  <2> QED
    BY <2>1, <2>2, <2>3 DEF Changes, Reads, Inside, TypeOK, ConsumerPlaces
<1> QED
  BY <1>1, <1>2, <1>3 DEF UndefinedBehaviour

LEMMA OneCaller ==
  ASSUME IsFiniteSet(Callers), Cardinality(Callers) = 1
  PROVE  \E c : Callers = {c}
BY FS_Singleton

(* With one caller nothing is undefined but its removal of an entry while  *)
(* the consumer looks one up, and the reset of a subscriber that failed to *)
(* register under a consumer that was told to stop.                        *)
THEOREM RacesAreTwo == IsFiniteSet(Callers) /\ Spec => []TwoRacesOnly
<1>1. CASE IsFiniteSet(Callers) /\ Cardinality(Callers) = 1
  <2>1. PICK c : Callers = {c}
    BY <1>1, OneCaller
  <2>2. Init => SoleInv(c)
    BY <2>1, RedisChannelAssumption DEF Init, SoleInv, Threads
  <2>3. TypeOK /\ SoleInv(c) /\ [Next]_vars => SoleInv(c)'
    BY <2>1, SoleStep
  <2>4. TypeOK /\ SoleInv(c) => TwoRacesOnly
    BY <2>1, SoleRace DEF TwoRacesOnly
  <2> QED
    BY <2>2, <2>3, <2>4, TypeCorrect, PTL DEF Spec
<1>2. CASE Cardinality(Callers) # 1
  <2>1. TwoRacesOnly
    BY <1>2 DEF TwoRacesOnly
  <2> QED
    BY <2>1, PTL
<1> QED
  BY <1>1, <1>2

-----------------------------------------------------------------------------
(* What the one caller has done so far of what its call asks for: how the  *)
(* callbacks, the subscriptions asked for and running_ relate at each      *)
(* place.                                                                  *)
Settled == (running <=> callbacks # {}) /\ requested = callbacks
SettleInv(c) ==
  failures = 0 =>
    CASE pc[c] \in {"idle", "insert", "find", "publish", "lastJoin", "gone"} -> Settled
      [] pc[c] = "check" -> /\ arg[c] \in callbacks
                            /\ running => requested \cup {arg[c]} = callbacks
                            /\ ~running => requested = {} /\ callbacks = {arg[c]}
      [] pc[c] \in {"recheck", "add"} ->
           running /\ requested \cup {arg[c]} = callbacks
      [] pc[c] = "create" -> running /\ callbacks # {}
      [] pc[c] \in {"register", "resubscribing"} ->
           running /\ callbacks # {} /\ requested = {}
      [] pc[c] = "resubscribe" ->
           /\ running /\ callbacks # {} /\ todo[c] \subseteq callbacks
           /\ requested = callbacks \ todo[c]
      [] pc[c] \in {"join", "start"} ->
           running /\ callbacks # {} /\ requested = callbacks
      [] pc[c] = "remove" -> running /\ requested = callbacks /\ arg[c] \in callbacks
      [] pc[c] = "erase" ->
           running /\ arg[c] \in callbacks /\ requested = callbacks \ {arg[c]}
      [] pc[c] = "empty" -> requested = callbacks /\ (callbacks # {} => running)
      [] pc[c] = "halt" -> requested = {} /\ callbacks = {}
      [] pc[c] = "stop" -> requested = callbacks
      [] pc[c] = "removing" -> ~running /\ requested = callbacks
      [] pc[c] = "removeAll" -> ~running /\ requested = todo[c]
      [] pc[c] = "clear" -> ~running /\ requested = {}
      [] pc[c] = "reset" -> FALSE
      [] OTHER -> TRUE

LEMMA SettleStep ==
  ASSUME TypeOK, NEW c, Callers = {c}, SettleInv(c), [Next]_vars
  PROVE  SettleInv(c)'
<1> USE RedisChannelAssumption
    DEF SettleInv, Settled, TypeOK, Threads, Moves, Goes, Only, flags, map, link, data,
        calls, Fails, StopsRunning, NewLink
<1>1. CASE UNCHANGED vars
  BY <1>1 DEF vars
<1>2. ASSUME NEW t \in Threads, LockClient(t) PROVE SettleInv(c)'
  BY <1>2 DEF LockClient
<1>3. CASE Call(c)
  BY <1>3 DEF Call, Subscribe, Unsubscribe, UnsubscribeAll, Publish, Destroy, Begin
<1>4. CASE SubscribeStep(c)
  <2>1. CASE Insert(c)
    BY <2>1 DEF Insert
  <2>2. CASE Check(c) \/ Recheck(c)
    BY <2>2 DEF Check, Recheck
  <2>3. CASE Add(c)
    <3>1. failures = 0 => running /\ requested \cup {arg[c]} = callbacks
      BY <2>3 DEF Add, ClientCalls, ClientCalls, Client
    <3>2. pc' = [pc EXCEPT ![c] = "idle"] /\ UNCHANGED callbacks
      BY <2>3 DEF Add
    <3>3. \/ requested' = requested \cup {arg[c]} /\ UNCHANGED <<running, failures>>
          \/ failures' # 0
      BY <2>3 DEF Add
    <3>4. failures' = 0 => Settled'
      BY <3>1, <3>2, <3>3
    <3> QED
      BY <3>2, <3>4
  <2>4. CASE Create(c) \/ Register(c) \/ Reset(c)
    BY <2>4 DEF Create, Register, Reset, ClientCalls, Client
  <2>5. CASE LoopBegins(c, "resubscribing", "resubscribe")
             \/ LoopEnds(c, "resubscribe", "join")
    <3>1. CASE LoopBegins(c, "resubscribing", "resubscribe")
      <4>1. failures = 0 => running /\ callbacks # {} /\ requested = {}
        BY <3>1 DEF LoopBegins
      <4>2. /\ pc' = [pc EXCEPT ![c] = "resubscribe"] /\ todo'[c] = callbacks
            /\ UNCHANGED <<running, failures, callbacks, requested>>
        BY <3>1 DEF LoopBegins
      <4>3. pc'[c] = "resubscribe"
        BY <4>2
      <4> QED
        BY <4>1, <4>2, <4>3
    <3>2. CASE LoopEnds(c, "resubscribe", "join")
      <4>1. failures = 0 => /\ running /\ callbacks # {}
                            /\ requested = callbacks \ todo[c] /\ todo[c] = {}
        BY <3>2 DEF LoopEnds
      <4>2. /\ pc' = [pc EXCEPT ![c] = "join"]
            /\ UNCHANGED <<running, failures, callbacks, requested>>
        BY <3>2 DEF LoopEnds
      <4>3. pc'[c] = "join"
        BY <4>2
      <4>4. failures = 0 => requested = callbacks
        BY <4>1
      <4> QED
        BY <4>1, <4>2, <4>3, <4>4
    <3> QED
      BY <2>5, <3>1, <3>2
  <2>6. CASE Resubscribe(c)
    BY <2>6 DEF Resubscribe, LoopThrows, LoopStep, ClientCalls, Client
  <2>7. CASE Join(c) \/ Start(c)
    BY <2>7 DEF Join, Start
  <2> QED
    BY <1>4, <2>1, <2>2, <2>3, <2>4, <2>5, <2>6, <2>7 DEF SubscribeStep
<1>5. CASE UnsubscribeStep(c)
  <2>1. CASE Find(c)
    BY <2>1 DEF Find
  <2>2. CASE Erase(c) \/ Clear(c)
    <3>1. CASE Erase(c)
      BY <3>1 DEF Erase, Erases
    <3>2. CASE Clear(c)
      <4>1. failures = 0 => ~running /\ requested = {}
        BY <3>2 DEF Clear
      <4>2. /\ callbacks' = {} /\ UNCHANGED <<running, failures, requested>>
            /\ pc' = [pc EXCEPT ![c] = "idle"] \/ pc' = [pc EXCEPT ![c] = "lastJoin"]
        BY <3>2 DEF Clear, Erases, Back
      <4> QED
        BY <4>1, <4>2
    <3> QED
      BY <2>2, <3>1, <3>2
  <2>3. CASE Empty(c)
    BY <2>3 DEF Empty, Back
  <2>4. CASE Remove(c)
    BY <2>4 DEF Remove, ClientCalls, Client
  <2>5. CASE RemoveAll(c)
    <3>1. failures = 0 => ~running /\ requested = todo[c]
      BY <2>5 DEF RemoveAll, ClientCalls, Client
    <3>2. CASE failures' # 0
      BY <3>2
    <3>3. CASE \E d \in Channels :
                 LoopStep(c, d) /\ requested' = requested \ {d}
                 /\ UNCHANGED <<pc, failures, cbMutex>>
      <4>1. pc'[c] = "removeAll" /\ UNCHANGED <<running, failures>>
        BY <2>5, <3>3 DEF RemoveAll, ClientCalls, Client
      <4>2. failures = 0 => requested' = todo'[c]
        BY <3>1, <3>3 DEF LoopStep
      <4> QED
        BY <3>1, <4>1, <4>2
    <3> QED
      BY <2>5, <3>2, <3>3 DEF RemoveAll, LoopThrows
  <2>6. CASE Halt(c) \/ Stop(c)
    <3>1. CASE Halt(c)
      <4>1. /\ pc' = [pc EXCEPT ![c] = "idle"] \/ pc' = [pc EXCEPT ![c] = "lastJoin"]
            /\ running' = FALSE /\ UNCHANGED <<failures, callbacks, requested>>
        BY <3>1 DEF Halt, Back
      <4>2. failures = 0 => callbacks = {} /\ requested = {}
        BY <3>1 DEF Halt
      <4>3. pc'[c] \in {"idle", "lastJoin"}
        BY <4>1
      <4>4. failures' = 0 => Settled'
        BY <4>1, <4>2
      <4> QED
        BY <4>3, <4>4
    <3>2. CASE Stop(c)
      BY <3>2 DEF Stop
    <3> QED
      BY <2>6, <3>1, <3>2
  <2>7. CASE LoopBegins(c, "removing", "removeAll") \/ LoopEnds(c, "removeAll", "clear")
    BY <2>7 DEF LoopBegins, LoopEnds
  <2> QED
    BY <1>5, <2>1, <2>2, <2>3, <2>4, <2>5, <2>6, <2>7 DEF UnsubscribeStep
<1>6. CASE Publishes(c) \/ LastJoin(c)
  BY <1>6 DEF Publishes, Published, LastJoin, Client
<1>7. CASE ConsumerStep
  BY <1>7 DEF ConsumerStep, Tests, Sends, Receives, Delivers, Drops, ReceivesNothing,
     LosesConnection, Consuming, ClientCalls, Client
<1>8. ASSUME NEW d \in Channels, OtherPublish(d) PROVE SettleInv(c)'
  BY <1>8 DEF OtherPublish, Published
<1>10. CASE ServerStep
  BY <1>10 DEF ServerStep, Obeys
<1>9. CASE Breaks
  BY <1>9 DEF Breaks
<1> QED
  BY <1>1, <1>2, <1>3, <1>4, <1>5, <1>6, <1>7, <1>8, <1>9, <1>10
DEF Next, CallerStep

(* With one caller the connection has been asked for what has a callback,  *)
(* and running_ is set if anything has, whenever no call is under way and  *)
(* none has thrown.                                                        *)
THEOREM CallsSettle == IsFiniteSet(Callers) /\ Spec => []SettlesExactly
<1>1. CASE IsFiniteSet(Callers) /\ Cardinality(Callers) = 1
  <2>1. PICK c : Callers = {c}
    BY <1>1, OneCaller
  <2>2. Init => SettleInv(c)
    BY <2>1, RedisChannelAssumption DEF Init, SettleInv, Settled, Threads
  <2>3. TypeOK /\ SettleInv(c) /\ [Next]_vars => SettleInv(c)'
    BY <2>1, SettleStep
  <2>4. TypeOK /\ SettleInv(c) => SettlesExactly
    BY <2>1 DEF SettlesExactly, Quiet, SettleInv, Settled
  <2> QED
    BY <2>2, <2>3, <2>4, TypeCorrect, PTL DEF Spec
<1>2. CASE Cardinality(Callers) # 1
  <2>1. SettlesExactly
    BY <1>2 DEF SettlesExactly
  <2> QED
    BY <2>1, PTL
<1> QED
  BY <1>1, <1>2

-----------------------------------------------------------------------------
(* The mutexes: who has one is where it uses it, and who waits for         *)
(* redis_mutex_ with instance_mutex_ in hand has not got it yet.           *)
MutexInv ==
  /\ cbMutex # NoThread => InLoop(cbMutex)
  /\ \A t \in Callers : InLoop(t) => cbMutex = t
  /\ redisMutex # NoThread =>
       /\ pc[redisMutex] \in Uses \cup {"deliver"}
       /\ InLoop(redisMutex) => todo[redisMutex] # {}
  /\ turn # NoThread => WantsClient(turn)
Down == \A t \in Threads : pc[t] = "broken"

LEMMA DownStep ==
  ASSUME TypeOK, Down, [Next]_vars
  PROVE  Down'
<1> USE RedisChannelAssumption DEF Down, TypeOK, Threads, Moves, Only
<1>1. CASE UNCHANGED pc
  BY <1>1
<1>2. ASSUME NEW t \in Threads, LockClient(t) PROVE FALSE
  BY <1>2 DEF LockClient, WantsClient, Uses
<1>3. ASSUME NEW t \in Callers PROVE ~Call(t)
  BY <1>3 DEF Call, Subscribe, Unsubscribe, UnsubscribeAll, Publish, Destroy, Begin
<1>4. ASSUME NEW t \in Callers PROVE ~SubscribeStep(t)
  BY <1>4 DEF SubscribeStep, Insert, Check, Recheck, Add, Create, Register, LoopBegins,
     Resubscribe, LoopEnds, Join, Start, Reset, ClientCalls, Client
<1>5. ASSUME NEW t \in Callers PROVE ~UnsubscribeStep(t)
  BY <1>5 DEF UnsubscribeStep, Find, Remove, Erase, Empty, Halt, Stop, LoopBegins,
     RemoveAll, LoopEnds, Clear, ClientCalls, Client
<1>6. ASSUME NEW t \in Callers PROVE ~(Publishes(t) \/ LastJoin(t))
  BY <1>6 DEF Publishes, LastJoin, Client
<1>7. ~ConsumerStep
  BY DEF ConsumerStep, Tests, Sends, Receives, Delivers, Drops, ReceivesNothing,
     LosesConnection, Consuming, ClientCalls, Client
<1>8. CASE Breaks
  BY <1>8 DEF Breaks
<1> QED
  BY <1>1, <1>2, <1>3, <1>4, <1>5, <1>6, <1>7, <1>8
  DEF Next, CallerStep, vars, OtherPublish, ServerStep, Obeys

(* A loop over callbacks_ that begins, has dealt with an entry, throws, or  *)
(* ends.                                                                   *)
LEMMA MutexLoop ==
  ASSUME TypeOK, MutexInv, NEW t \in Callers, pc' = [pc EXCEPT ![t] = pc'[t]],
         ~WantsClient(t), UNCHANGED turn, redisMutex' = redisMutex \/ redisMutex' = NoThread,
         redisMutex' = NoThread \/ redisMutex # t,
         todo' = [todo EXCEPT ![t] = todo'[t]],
         \/ cbMutex' = t /\ cbMutex \in {t, NoThread} /\ InLoop(t)'
         \/ cbMutex' = NoThread /\ cbMutex = t /\ ~InLoop(t)'
  PROVE  MutexInv'
<1> USE RedisChannelAssumption
<1>1. \A u \in Threads \ {t} : pc'[u] = pc[u] /\ (u \in Callers => todo'[u] = todo[u])
  BY DEF TypeOK, Threads
<1>2. t \in Threads /\ t # NoThread
  BY DEF Threads
<1>3. \A u \in Callers \ {t} : ~InLoop(u)
  BY DEF MutexInv
<1>4. cbMutex' # NoThread => InLoop(cbMutex)'
  OBVIOUS
<1>5. \A u \in Callers : InLoop(u)' => cbMutex' = u
  BY <1>1, <1>3 DEF InLoop, Threads
<1>6. ASSUME redisMutex' # NoThread
      PROVE  /\ pc'[redisMutex'] \in Uses \cup {"deliver"}
             /\ InLoop(redisMutex)' => todo'[redisMutex'] # {}
  <2>1. redisMutex' = redisMutex /\ redisMutex \in Threads \ {t}
    BY <1>6 DEF TypeOK
  <2>2. pc'[redisMutex'] = pc[redisMutex] /\ pc[redisMutex] \in Uses \cup {"deliver"}
    BY <1>1, <1>6, <2>1 DEF MutexInv
  <2>3. ~InLoop(redisMutex)
    <3>1. CASE redisMutex \in Callers
      BY <1>3, <2>1, <3>1
    <3>2. CASE redisMutex = Consumer
      BY <3>2 DEF TypeOK, ConsumerPlaces, InLoop
    <3> QED
      BY <2>1, <3>1, <3>2 DEF Threads
  <2> QED
    BY <2>1, <2>2, <2>3 DEF InLoop
<1>7. ASSUME turn' # NoThread PROVE WantsClient(turn)'
  <2>1. turn' = turn /\ turn \in Threads /\ WantsClient(turn)
    BY <1>7 DEF TypeOK, MutexInv
  <2>2. turn # t
    BY <2>1
  <2>3. pc'[turn] = pc[turn] /\ redisMutex' # turn
    <3>1. redisMutex # turn /\ turn # NoThread
      BY <1>7, <2>1 DEF WantsClient
    <3> QED
      BY <1>1, <2>1, <2>2, <3>1
  <2>4. ~InLoop(turn)
    <3>1. CASE turn \in Callers
      BY <1>3, <2>2, <3>1
    <3>2. CASE turn = Consumer
      BY <3>2 DEF TypeOK, ConsumerPlaces, InLoop
    <3> QED
      BY <2>1, <3>1, <3>2 DEF Threads
  <2> QED
    BY <2>1, <2>3, <2>4 DEF WantsClient, InLoop
<1> QED
  BY <1>4, <1>5, <1>6, <1>7 DEF MutexInv

LEMMA MutexBegins ==
  ASSUME TypeOK, MutexInv, NEW t \in Callers,
         NEW from \in {"resubscribing", "removing"}, NEW to \in {"resubscribe", "removeAll"},
         LoopBegins(t, from, to)
  PROVE  MutexInv'
<1>1. /\ pc[t] = from /\ pc' = [pc EXCEPT ![t] = to] /\ pc'[t] = to
      /\ cbMutex = NoThread /\ cbMutex' = t
      /\ todo' = [todo EXCEPT ![t] = callbacks] /\ todo'[t] = callbacks
      /\ UNCHANGED <<turn, redisMutex>>
  BY DEF LoopBegins, Moves, Goes, clients, TypeOK, Threads
<1>2. ~WantsClient(t)
  BY <1>1 DEF WantsClient, Uses
<1>3. redisMutex # t
  BY <1>1, RedisChannelAssumption DEF MutexInv, Uses
<1>4. InLoop(t)'
  BY <1>1 DEF InLoop
<1> QED
  BY <1>1, <1>2, <1>3, <1>4, MutexLoop

LEMMA MutexEnds ==
  ASSUME TypeOK, MutexInv, NEW t \in Callers,
         NEW from \in {"resubscribe", "removeAll"}, NEW to \in {"join", "clear"},
         LoopEnds(t, from, to)
  PROVE  MutexInv'
<1>1. /\ pc[t] = from /\ pc' = [pc EXCEPT ![t] = to] /\ pc'[t] = to
      /\ todo[t] = {} /\ redisMutex # t /\ cbMutex' = NoThread
      /\ UNCHANGED <<turn, redisMutex, todo>>
  BY DEF LoopEnds, Moves, Goes, clients, calls, TypeOK, Threads
<1>2. ~WantsClient(t)
  BY <1>1 DEF WantsClient
<1>3. cbMutex = t
  BY <1>1 DEF MutexInv, InLoop
<1>4. ~InLoop(t)'
  BY <1>1 DEF InLoop
<1>5. todo' = [todo EXCEPT ![t] = todo'[t]]
  BY <1>1 DEF TypeOK
<1> QED
  BY <1>1, <1>2, <1>3, <1>4, <1>5, MutexLoop

LEMMA MutexTurns ==
  ASSUME TypeOK, MutexInv, NEW t \in Callers, Resubscribe(t) \/ RemoveAll(t)
  PROVE  MutexInv'
<1>1. PICK from \in {"resubscribe", "removeAll"}, to \in {"idle", "clear"} :
        /\ Client(t, from) /\ Unlocks
        /\ \/ (\E c \in Channels : LoopStep(t, c)) /\ UNCHANGED <<pc, cbMutex>>
           \/ LoopThrows(t, to)
  BY DEF Resubscribe, RemoveAll, ClientCalls
<1>2. pc[t] = from /\ redisMutex = t /\ redisMutex' = NoThread /\ UNCHANGED turn
  BY <1>1 DEF Client, Unlocks
<1>3. ~WantsClient(t) /\ cbMutex = t
  BY <1>1, <1>2 DEF WantsClient, MutexInv, InLoop
<1>4. CASE (\E c \in Channels : LoopStep(t, c)) /\ UNCHANGED <<pc, cbMutex>>
  <2>1. todo' = [todo EXCEPT ![t] = todo'[t]] /\ pc' = [pc EXCEPT ![t] = pc'[t]]
    BY <1>4 DEF LoopStep, TypeOK, Threads
  <2>2. InLoop(t)'
    BY <1>2, <1>4 DEF InLoop
  <2> QED
    BY <1>2, <1>3, <1>4, <2>1, <2>2, MutexLoop
<1>5. CASE LoopThrows(t, to)
  <2>1. /\ pc' = [pc EXCEPT ![t] = to] /\ pc'[t] = to /\ cbMutex' = NoThread
        /\ todo' = [todo EXCEPT ![t] = {}] /\ todo'[t] = {}
    BY <1>5 DEF LoopThrows, Goes, TypeOK, Threads
  <2>2. ~InLoop(t)'
    BY <2>1 DEF InLoop
  <2> QED
    BY <1>2, <1>3, <2>1, <2>2, MutexLoop
<1> QED
  BY <1>1, <1>4, <1>5

LEMMA MutexStep ==
  ASSUME TypeOK, PlaceInv, MutexInv, [Next]_vars
  PROVE  MutexInv' \/ Down'
<1> USE RedisChannelAssumption
    DEF MutexInv, InLoop, TypeOK, Threads, Uses, WantsClient, Moves, Goes, Only, Client,
        ClientCalls, Unlocks, flags, map, clients, link, messages, calls, data
<1>1. CASE UNCHANGED vars
  BY <1>1 DEF vars
<1>2. ASSUME NEW t \in Threads, LockClient(t) PROVE MutexInv'
  BY <1>2 DEF LockClient
<1>3. ASSUME NEW t \in Callers, Call(t) PROVE MutexInv'
  BY <1>3 DEF Call, Subscribe, Unsubscribe, UnsubscribeAll, Publish, Destroy, Begin
<1>4. ASSUME NEW t \in Callers, SubscribeStep(t) PROVE MutexInv'
  <2>1. CASE Insert(t) \/ Check(t) \/ Recheck(t)
    BY <2>1 DEF Insert, Check, Recheck
  <2>2. CASE Add(t) \/ Create(t) \/ Register(t) \/ Reset(t)
    BY <2>2 DEF Add, Create, Register, Reset
  <2>3. CASE LoopBegins(t, "resubscribing", "resubscribe")
             \/ LoopEnds(t, "resubscribe", "join") \/ Resubscribe(t)
    BY <2>3, MutexBegins, MutexEnds, MutexTurns
  <2>4. CASE Join(t)
    BY <2>4 DEF Join
  <2>5. CASE Start(t)
    BY <2>5 DEF Start
  <2> QED
    BY <1>4, <2>1, <2>2, <2>3, <2>4, <2>5 DEF SubscribeStep
<1>5. ASSUME NEW t \in Callers, UnsubscribeStep(t) PROVE MutexInv'
  <2>1. CASE Find(t) \/ Erase(t) \/ Empty(t) \/ Clear(t)
    BY <2>1 DEF Find, Erase, Empty, Clear, Erases, Back
  <2>2. CASE Remove(t)
    BY <2>2 DEF Remove
  <2>3. CASE LoopBegins(t, "removing", "removeAll")
             \/ LoopEnds(t, "removeAll", "clear") \/ RemoveAll(t)
    BY <2>3, MutexBegins, MutexEnds, MutexTurns
  <2>4. CASE Halt(t) \/ Stop(t)
    BY <2>4 DEF Halt, Stop, Back
  <2> QED
    BY <1>5, <2>1, <2>2, <2>3, <2>4 DEF UnsubscribeStep
<1>6. ASSUME NEW t \in Callers, Publishes(t) \/ LastJoin(t) PROVE MutexInv'
  BY <1>6 DEF Publishes, Published, LastJoin
<1>7. CASE ConsumerStep
  BY <1>7 DEF ConsumerStep, Tests, Sends, Receives, Delivers, Drops, ReceivesNothing,
     LosesConnection, Consuming
<1>8. ASSUME NEW c \in Channels, OtherPublish(c) PROVE MutexInv'
  BY <1>8 DEF OtherPublish, Published
<1>10. CASE ServerStep
  BY <1>10 DEF ServerStep, Obeys
<1>9. CASE Breaks
  BY <1>9 DEF Breaks, Down
<1> QED
  BY <1>1, <1>2, <1>3, <1>4, <1>5, <1>6, <1>7, <1>8, <1>9, <1>10
DEF Next, CallerStep

(* Whoever has redis_mutex_ can go on, or is a consumer that waits for     *)
(* callbacks_mutex_, whose loop has come to its end or waits for ever; if  *)
(* nobody has it, whoever has instance_mutex_ can take it; and if nobody   *)
(* has that one either, the loop that has callbacks_mutex_ can go on.      *)
LEMMA SomebodyFrees ==
  ASSUME TypeOK, PlaceInv, MutexInv,
         cbMutex # NoThread \/ turn # NoThread \/ redisMutex # NoThread
  PROVE  MutualWait \/ \E u \in Threads : Frees(u)
<1>1. CASE redisMutex # NoThread
  <2>1. redisMutex \in Threads /\ pc[redisMutex] \in Uses \cup {"deliver"}
    BY <1>1 DEF TypeOK, MutexInv
  <2>2. CASE pc[redisMutex] = "deliver"
    <3>1. redisMutex = Consumer
      BY <2>1, <2>2 DEF TypeOK, Places, Threads
    <3>2. CASE cbMutex = NoThread
      BY <2>1, <2>2, <3>2 DEF Frees
    <3>3. CASE cbMutex # NoThread
      <4>1. cbMutex \in Callers /\ InLoop(cbMutex) /\ cbMutex # redisMutex
        BY <3>1, <3>3, RedisChannelAssumption DEF TypeOK, MutexInv
      <4> QED
        BY <2>2, <3>1, <4>1 DEF MutualWait, Frees, Threads
    <3> QED
      BY <3>2, <3>3
  <2>3. CASE pc[redisMutex] \in Uses
    BY <1>1, <2>1, <2>3 DEF MutexInv, Frees
  <2> QED
    BY <2>1, <2>2, <2>3
<1>2. CASE redisMutex = NoThread /\ turn # NoThread
  BY <1>2 DEF TypeOK, MutexInv, Frees
<1>3. CASE redisMutex = NoThread /\ turn = NoThread /\ cbMutex # NoThread
  <2>1. cbMutex \in Threads /\ InLoop(cbMutex)
    BY <1>3 DEF TypeOK, MutexInv, Threads
  <2> QED
    BY <1>3, <2>1 DEF Frees
<1> QED
  BY <1>1, <1>2, <1>3

(* However many threads use the channel, the only deadlock is the mutual   *)
(* wait of the consumer and a loop over callbacks_: in every other state in *)
(* which somebody waits for a mutex, a thread that has one can go on, and  *)
(* whoever waits for the consumer's end waits for one that can go on or    *)
(* waits for such a thread itself.                                         *)
THEOREM DeadlockIsOne == Spec => []OneDeadlockOnly
<1> DEFINE Inv == Down \/ MutexInv
<1>1. Init => Inv
  BY RedisChannelAssumption DEF Init, MutexInv, InLoop, Threads
<1>2. TypeOK /\ PlaceInv /\ Inv /\ [Next]_vars => Inv'
  BY DownStep, MutexStep
<1>3. TypeOK /\ PlaceInv /\ Inv => OneDeadlockOnly
  <2> SUFFICES ASSUME TypeOK, PlaceInv, Inv, NEW t \in Threads, Waits(t),
                      ~MutualWait, ~\E u \in Threads : Frees(u)
               PROVE  Joins(t) /\ (pc[Consumer] = "test"
                                    \/ (pc[Consumer] = "consume" /\ turn = NoThread))
    BY DEF OneDeadlockOnly
  <2>1. MutexInv
    BY DEF Down, Waits, WantsClient, Uses, Joins
  <2>2. cbMutex = NoThread /\ turn = NoThread /\ redisMutex = NoThread
    BY <2>1, SomebodyFrees
  <2>3. Joins(t)
    BY <2>2 DEF Waits
  <2>4. pc[Consumer] # "deliver"
    BY <2>2, RedisChannelAssumption DEF PlaceInv
  <2> QED
    BY <2>2, <2>3, <2>4 DEF Joins, Listening
<1> QED
  BY <1>1, <1>2, <1>3, Typed, PTL DEF Spec

=============================================================================
