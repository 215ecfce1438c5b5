---------------------------- MODULE LoggingProofs ----------------------------
(***************************************************************************)
(* Proofs about the loggers, for any threads, loggers, levels and lengths. *)
(***************************************************************************)
EXTENDS LoggingProperties, TLAPS

LEMMA MessageSome == ASSUME NEW m \in Messages PROVE m # None
BY DEF Messages, None

LEMMA LowestTyped == Lowest \in Levels
BY LoggingAssumption DEF Lowest

(* What the places of the threads say of their pointers and messages.      *)
ThreadPlaces == {"idle", "has", "level", "given", "write", "stop", "notify", "join"}
PlaceInv ==
  /\ \A t \in Threads :
       /\ pc[t] \in ThreadPlaces
       /\ pc[t] \in {"has", "level", "given", "write"} => ref[t] # NoLogger
  /\ \A t \in Threads \cup {Worker} : pc[t] = "write" <=> writing[t] # None
  /\ fate[Async] = "unborn" => pc[Worker] = "none"

LEMMA AppendTyped ==
  ASSUME NEW s \in Seq(Messages), NEW m \in Messages
  PROVE  Append(s, m) \in Seq(Messages) /\ Len(Append(s, m)) = Len(s) + 1
OBVIOUS

LEMMA HeadTyped ==
  ASSUME NEW s \in Seq(Messages), s # <<>>
  PROVE  /\ Head(s) \in Messages /\ Head(s)[1] \in 1 .. MaxMessages
         /\ Tail(s) \in Seq(Messages) /\ Len(Tail(s)) = Len(s) - 1
<1>1. Head(s) \in Messages
  OBVIOUS
<1> QED
  BY <1>1 DEF Messages

LEMMA PushTyped ==
  ASSUME TypeOK, NEW m \in Messages, Push(m)
  PROVE  /\ queue' \in Seq(Messages) /\ Len(queue') <= MaxQueue
         /\ dropped' \subseteq 1 .. MaxMessages
<1> USE LoggingAssumption
<1>0. queue \in Seq(Messages) /\ Len(queue) <= MaxQueue
      /\ dropped \subseteq 1 .. MaxMessages /\ Len(queue) \in Nat
  BY DEF TypeOK
<1>1. CASE Len(queue) >= MaxQueue
  <2>1. queue # <<>> /\ Len(queue) = MaxQueue
    BY <1>0, <1>1
  <2>2. queue' = Append(Tail(queue), m) /\ dropped' = dropped \cup {Head(queue)[1]}
    BY <1>1 DEF Push
  <2>3. /\ Head(queue)[1] \in 1 .. MaxMessages /\ Tail(queue) \in Seq(Messages)
        /\ Len(Tail(queue)) = Len(queue) - 1
    BY <1>0, <2>1, HeadTyped
  <2>4. queue' \in Seq(Messages) /\ Len(queue') = Len(Tail(queue)) + 1
    BY <2>2, <2>3, AppendTyped
  <2>5. Len(queue') <= MaxQueue
    BY <1>0, <2>1, <2>3, <2>4
  <2>6. dropped' \subseteq 1 .. MaxMessages
    BY <1>0, <2>2, <2>3
  <2> QED
    BY <2>4, <2>5, <2>6
<1>2. CASE ~(Len(queue) >= MaxQueue)
  <2>1. queue' = Append(queue, m) /\ dropped' = dropped
    BY <1>2 DEF Push
  <2> QED
    BY <1>0, <1>2, <2>1, AppendTyped
<1> QED
  BY <1>1, <1>2

(* What log of the AsyncLogger and the worker's Check touch, and the rest. *)
AsyncTyped ==
  /\ pc \in [Threads \cup {Worker} ->
               {"idle", "has", "level", "given", "write", "stop", "notify", "join",
                "none", "check", "dozing", "asleep", "process", "done"}]
  /\ queueMutex \in {Worker, NoThread} /\ stop \in BOOLEAN
  /\ queue \in Seq(Messages) /\ batch \in Seq(Messages)
  /\ Len(queue) <= MaxQueue /\ Len(batch) <= MaxQueue
  /\ logged \in 0 .. MaxMessages /\ dropped \subseteq 1 .. MaxMessages
RestTyped ==
  /\ global \in Loggers \cup {NoLogger}
  /\ factoryMutex \in Threads \cup {NoThread}
  /\ fate \in [Loggers -> {"unborn", "alive", "dead"}]
  /\ level \in [Loggers -> Levels]
  /\ ref \in [Threads -> Loggers \cup {NoLogger}]
  /\ writing \in [Threads \cup {Worker} -> Messages \cup {None}]
  /\ written \in [Loggers -> Seq(Messages)]
  /\ levels \in 0 .. MaxLevels
  /\ silenced \cup overtaken \subseteq 1 .. MaxMessages

LEMMA TypeParts == TypeOK <=> AsyncTyped /\ RestTyped
BY DEF TypeOK, AsyncTyped, RestTyped

LEMMA TypePartsNext == TypeOK' <=> AsyncTyped' /\ RestTyped'
BY DEF TypeOK, AsyncTyped, RestTyped

LEMMA RestKept ==
  ASSUME RestTyped,
         UNCHANGED <<factory, ref, writing, written, silenced, overtaken>>
  PROVE  RestTyped'
BY DEF RestTyped, factory

Places == {"idle", "has", "level", "given", "write", "stop", "notify", "join", "none",
           "check", "dozing", "asleep", "process", "done"}

(* A thread that lets go of its logger goes on without, or to destroy it.  *)
LEMMA LetsGoTyped ==
  ASSUME TypeOK, PlaceInv, NEW t \in Threads, LetsGo(t, ref[t]),
         pc[t] \in {"has", "given", "level"}
  PROVE  /\ ref' \in [Threads -> Loggers \cup {NoLogger}]
         /\ fate' \in [Loggers -> {"unborn", "alive", "dead"}]
         /\ pc' \in [Threads \cup {Worker} -> Places]
         /\ fate'[Async] = "unborn" => fate[Async] = "unborn"
         /\ pc'[Worker] = pc[Worker] /\ pc[t] # "write" /\ pc'[t] \in {"idle", "stop"}
         /\ \A u \in Threads \ {t} : pc'[u] = pc[u] /\ ref'[u] = ref[u]
<1> USE LoggingAssumption DEF TypeOK, PlaceInv, Loggers, Places
<1>1. ref[t] \in Loggers
  OBVIOUS
<1>2. fate' = fate \/ fate' = [fate EXCEPT ![ref[t]] = "dead"]
  BY DEF LetsGo
<1>3. ref' = [ref EXCEPT ![t] = NoLogger]
  BY DEF LetsGo
<1>4. pc' = [pc EXCEPT ![t] = "idle"] \/ pc' = [pc EXCEPT ![t] = "stop"]
  BY DEF LetsGo, Goes
<1>5. /\ fate' \in [Loggers -> {"unborn", "alive", "dead"}]
      /\ fate'[Async] = "unborn" => fate[Async] = "unborn"
  BY <1>1, <1>2
<1> QED
  BY <1>3, <1>4, <1>5

LEMMA TypeStep ==
  ASSUME TypeOK, PlaceInv, [Next]_vars
  PROVE  TypeOK' /\ PlaceInv'
<1> USE LoggingAssumption DEF TypeOK, PlaceInv, ThreadPlaces, Goes, Loggers,
        factory, async, history
<1>1. CASE UNCHANGED vars
  BY <1>1 DEF vars
<1>2. ASSUME NEW t \in Threads, NEW place \in {"has", "level"}, GetLogger(t, place),
             levels' \in 0 .. MaxLevels
      PROVE  TypeOK' /\ PlaceInv'
  BY <1>2 DEF GetLogger
<1>3. ASSUME NEW t \in Threads, NEW place \in {"has", "given"}, Forget(t, place)
      PROVE  TypeOK' /\ PlaceInv'
  <2>1. LetsGo(t, ref[t]) /\ pc[t] \in {"has", "given", "level"}
    BY <1>3 DEF Forget
  <2>2. /\ ref' \in [Threads -> Loggers \cup {NoLogger}]
        /\ fate' \in [Loggers -> {"unborn", "alive", "dead"}]
        /\ pc' \in [Threads \cup {Worker} -> Places]
        /\ fate'[Async] = "unborn" => fate[Async] = "unborn"
        /\ pc'[Worker] = pc[Worker] /\ pc[t] # "write" /\ pc'[t] \in {"idle", "stop"}
        /\ \A u \in Threads \ {t} : pc'[u] = pc[u] /\ ref'[u] = ref[u]
    BY <2>1, LetsGoTyped
  <2>3. TypeOK'
    BY <1>3, <2>2 DEF Forget, Places
  <2>4. PlaceInv'
    BY <1>3, <2>2 DEF Forget
  <2> QED
    BY <2>3, <2>4
<1>4. ASSUME NEW t \in Threads, NEW v \in Levels, SetLevel(t, v)
      PROVE  TypeOK' /\ PlaceInv'
  <2>1. overtaken' \subseteq 1 .. MaxMessages
    BY <1>4 DEF SetLevel, Messages
  <2>2. LetsGo(t, ref[t]) /\ pc[t] = "level"
    BY <1>4 DEF SetLevel
  <2>3. /\ ref' \in [Threads -> Loggers \cup {NoLogger}]
        /\ fate' \in [Loggers -> {"unborn", "alive", "dead"}]
        /\ pc' \in [Threads \cup {Worker} -> Places]
        /\ fate'[Async] = "unborn" => fate[Async] = "unborn"
        /\ pc'[Worker] = pc[Worker] /\ pc[t] # "write" /\ pc'[t] \in {"idle", "stop"}
        /\ \A u \in Threads \ {t} : pc'[u] = pc[u] /\ ref'[u] = ref[u]
    BY <2>2, LetsGoTyped
  <2> QED
    BY <1>4, <2>1, <2>3 DEF SetLevel, Places
<1>5. ASSUME NEW t \in Threads, NEW l \in Loggers, SetLogger(t, l)
      PROVE  TypeOK' /\ PlaceInv'
  BY <1>5 DEF SetLogger
<1>6. ASSUME NEW t \in Threads, NEW v \in Levels, Log(t, v)
      PROVE  TypeOK' /\ PlaceInv'
  <2>1. logged' \in 1 .. MaxMessages /\ <<logged', v>> \in Messages
    BY <1>6 DEF Log, Messages
  <2>2. <<logged', v>> # None
    BY <2>1, MessageSome
  <2>3. CASE Reads(t, ref[t], <<logged', v>>) /\ Goes(t, "write") /\ UNCHANGED silenced
    BY <1>6, <2>1, <2>2, <2>3 DEF Log, Reads
  <2>4. CASE silenced' = silenced \cup {logged'} /\ UNCHANGED <<pc, writing>>
    BY <1>6, <2>1, <2>4 DEF Log
  <2> QED
    BY <1>6, <2>3, <2>4 DEF Log
<1>7. ASSUME NEW t \in Threads, Writes(t, ref[t], "has"), UNCHANGED async
      PROVE  TypeOK' /\ PlaceInv'
  BY <1>7, MessageSome, AppendTyped DEF Writes
<1>8. ASSUME NEW t \in Threads, NEW v \in Levels, LogAsync(t, v)
      PROVE  TypeOK' /\ PlaceInv'
  <2>1. logged' \in 1 .. MaxMessages /\ <<logged', v>> \in Messages
    BY <1>8 DEF LogAsync, Messages
  <2>2. /\ queue' \in Seq(Messages) /\ Len(queue') <= MaxQueue
        /\ dropped' \subseteq 1 .. MaxMessages
    BY <1>8, <2>1, PushTyped DEF LogAsync
  <2>3. /\ UNCHANGED <<factory, ref, writing, queueMutex, batch, stop>>
        /\ UNCHANGED <<written, silenced, overtaken>>
        /\ Wakes /\ ref[t] = Async /\ pc[t] = "has"
    BY <1>8 DEF LogAsync
  <2>4. RestTyped'
    BY <2>3, RestKept, TypeParts
  <2>5. CASE pc[Worker] = "asleep" /\ Goes(Worker, "check")
    <3>1. TypeOK'
      BY <2>1, <2>2, <2>3, <2>4, <2>5, TypePartsNext DEF AsyncTyped
    <3>2. PlaceInv'
      BY <2>3, <2>5
    <3> QED
      BY <3>1, <3>2
  <2>6. CASE UNCHANGED pc
    <3>1. TypeOK'
      BY <2>1, <2>2, <2>3, <2>4, <2>6, TypePartsNext DEF AsyncTyped
    <3>2. PlaceInv'
      BY <2>3, <2>6
    <3> QED
      BY <3>1, <3>2
  <2> QED
    BY <2>3, <2>5, <2>6 DEF Wakes
<1>9. ASSUME NEW t \in Threads, Stop(t) \/ Notify(t) \/ Join(t)
      PROVE  TypeOK' /\ PlaceInv'
  <2>1. CASE Stop(t)
    BY <2>1 DEF Stop
  <2>2. CASE Notify(t)
    BY <2>2 DEF Notify
  <2>3. CASE Join(t)
    BY <2>3 DEF Join
  <2> QED
    BY <1>9, <2>1, <2>2, <2>3
<1>10. CASE Check
  <2>1. fate[Async] # "unborn" /\ <<>> \in Seq(Messages) /\ Len(<<>>) = 0
    BY <1>10 DEF Check
  <2>2. /\ UNCHANGED <<factory, ref, writing, stop, history>>
        /\ Goes(Worker, "process") \/ Goes(Worker, "done") \/ Goes(Worker, "dozing")
        /\ queueMutex' \in {queueMutex, Worker}
        /\ \/ batch' = queue /\ queue' = <<>>
           \/ UNCHANGED <<queue, batch>>
    BY <1>10 DEF Check
  <2>3. /\ queue' \in Seq(Messages) /\ Len(queue') <= MaxQueue
        /\ batch' \in Seq(Messages) /\ Len(batch') <= MaxQueue
    <3>1. CASE batch' = queue /\ queue' = <<>>
      <4>1. Len(queue') = 0 /\ Len(batch') = Len(queue)
        BY <2>1, <3>1
      <4> QED
        BY <2>1, <3>1, <4>1
    <3>2. CASE UNCHANGED <<queue, batch>>
      BY <3>2
    <3> QED
      BY <2>2, <3>1, <3>2
  <2>4. TypeOK'
    <3>1. RestTyped'
      BY <2>2, RestKept, TypeParts
    <3>2. pc' \in [Threads \cup {Worker} -> {"idle", "has", "level", "given",
              "write", "stop", "notify", "join", "none", "check", "dozing",
              "asleep", "process", "done"}]
      BY <2>2
    <3> QED
      BY <2>2, <2>3, <3>1, <3>2, TypePartsNext DEF AsyncTyped
  <2>5. PlaceInv'
    BY <1>10, <2>1, <2>2 DEF Check
  <2> QED
    BY <2>4, <2>5
<1>11. CASE Doze \/ PassedAll
  BY <1>11 DEF Doze, PassedAll
<1>12. CASE Passes
  BY <1>12, HeadTyped, MessageSome DEF Passes, Reads
<1>13. CASE Writes(Worker, Async, "process") /\ UNCHANGED async
  BY <1>13, AppendTyped, MessageSome DEF Writes
<1>14. ASSUME NEW t \in Threads, Call(t) PROVE TypeOK' /\ PlaceInv'
  <2>1. levels < MaxLevels /\ levels' = levels + 1 => levels' \in 0 .. MaxLevels
    OBVIOUS
  <2>2. UNCHANGED levels => levels' \in 0 .. MaxLevels
    OBVIOUS
  <2> QED
    BY <1>14, <1>2, <1>3, <1>5, <1>6, <1>8, <2>1, <2>2 DEF Call
<1>15. ASSUME NEW t \in Threads, Proceed(t) PROVE TypeOK' /\ PlaceInv'
  <2>1. ASSUME Keeps(t) PROVE TypeOK' /\ PlaceInv'
    BY <2>1 DEF Keeps
  <2> QED
    BY <1>15, <1>3, <1>4, <1>7, <1>9, <2>1 DEF Proceed, Write
<1> QED
  BY <1>1, <1>10, <1>11, <1>12, <1>13, <1>14, <1>15 DEF Next, WorkerStep

LEMMA InitTyped == Init => TypeOK /\ PlaceInv
<1>1. Init => TypeOK
  <2>1. <<>> \in Seq(Messages) /\ Len(<<>>) = 0
    OBVIOUS
  <2> SUFFICES ASSUME Init PROVE TypeOK
    OBVIOUS
  <2> USE LoggingAssumption DEF Init, Loggers
  <2>2. /\ global \in Loggers \cup {NoLogger}
        /\ factoryMutex \in Threads \cup {NoThread}
        /\ fate \in [Loggers -> {"unborn", "alive", "dead"}]
        /\ level \in [Loggers -> Levels]
    BY LowestTyped
  <2>3. pc \in [Threads \cup {Worker} ->
             {"idle", "has", "level", "given", "write", "stop", "notify", "join",
              "none", "check", "dozing", "asleep", "process", "done"}]
    OBVIOUS
  <2>4. /\ ref \in [Threads -> Loggers \cup {NoLogger}]
        /\ writing \in [Threads \cup {Worker} -> Messages \cup {None}]
        /\ queueMutex \in {Worker, NoThread} /\ stop \in BOOLEAN
    OBVIOUS
  <2>5. /\ queue \in Seq(Messages) /\ batch \in Seq(Messages)
        /\ Len(queue) <= MaxQueue /\ Len(batch) <= MaxQueue
    BY <2>1
  <2>6. written \in [Loggers -> Seq(Messages)]
    BY <2>1
  <2>7. /\ logged \in 0 .. MaxMessages /\ levels \in 0 .. MaxLevels
        /\ dropped \cup silenced \cup overtaken \subseteq 1 .. MaxMessages
    OBVIOUS
  <2> QED
    BY <2>2, <2>3, <2>4, <2>5, <2>6, <2>7 DEF TypeOK
<1>2. Init => PlaceInv
  BY LoggingAssumption DEF Init, PlaceInv, ThreadPlaces
<1> QED
  BY <1>1, <1>2

(* The state keeps its types in every run. *)
THEOREM TypeCorrect == Spec => []TypeOK
<1>1. TypeOK /\ PlaceInv /\ [Next]_vars => TypeOK' /\ PlaceInv'
  BY TypeStep
<1> QED
  BY <1>1, InitTyped, PTL DEF Spec

-----------------------------------------------------------------------------
(* Who has a pointer to a logger that may die: the factory and the threads. *)
Pointed(l) == global = l \/ \E t \in Threads : ref[t] = l
Ending(t)  == pc[t] \in {"stop", "notify", "join"}

(* An AsyncLogger's destructor is run by one thread, when nobody points to *)
(* the logger, and only then is the worker told to stop.                   *)
PointerInv ==
  /\ \A l \in Loggers : Pointed(l) => fate[l] = "alive"
  /\ \A t \in Threads : pc[t] = "idle" => ref[t] = NoLogger
  /\ \A t \in Threads : Ending(t) => ~Pointed(Async) /\ fate[Async] = "alive"
  /\ \A t, u \in Threads : Ending(t) /\ Ending(u) => t = u
  /\ stop => \/ fate[Async] = "dead"
             \/ \E t \in Threads : pc[t] \in {"notify", "join"}
  /\ pc[Worker] = "done" => stop

LEMMA PointerStep ==
  ASSUME TypeOK, PlaceInv, PointerInv, [Next]_vars
  PROVE  PointerInv'
<1> USE LoggingAssumption DEF TypeOK, PlaceInv, ThreadPlaces, PointerInv, Pointed,
        Ending, Goes, Loggers, factory, async
<1>1. CASE UNCHANGED vars
  BY <1>1 DEF vars
<1>2. ASSUME NEW t \in Threads, NEW place \in {"has", "level"}, GetLogger(t, place)
      PROVE  PointerInv'
  BY <1>2 DEF GetLogger
<1>3. ASSUME NEW t \in Threads, pc[t] \in {"has", "given", "level"}, LetsGo(t, ref[t]),
             UNCHANGED <<global, stop>>
      PROVE  PointerInv'
  <2>1. /\ ref[t] \in Loggers /\ ref' = [ref EXCEPT ![t] = NoLogger]
        /\ UNCHANGED <<global, stop>>
    BY <1>3 DEF LetsGo
  <2>2. CASE Last(t, ref[t]) /\ ref[t] = Async
    <3>1. Goes(t, "stop") /\ UNCHANGED fate
      BY <1>3, <2>2 DEF LetsGo
    <3>2. \A u \in Threads : ~Ending(u)
      BY <1>3, <2>1, <2>2
    <3> QED
      BY <1>3, <2>1, <2>2, <3>1, <3>2 DEF Last
  <2>3. CASE Last(t, ref[t]) /\ ref[t] # Async
    <3>1. Goes(t, "idle") /\ fate' = [fate EXCEPT ![ref[t]] = "dead"]
      BY <1>3, <2>3 DEF LetsGo
    <3> QED
      BY <1>3, <2>1, <2>3, <3>1 DEF Last
  <2>4. CASE ~Last(t, ref[t])
    <3>1. Goes(t, "idle") /\ UNCHANGED fate
      BY <1>3, <2>4 DEF LetsGo
    <3> QED
      BY <1>3, <2>1, <3>1
  <2> QED
    BY <2>2, <2>3, <2>4
<1>5. ASSUME NEW t \in Threads, NEW l \in Loggers, SetLogger(t, l)
      PROVE  PointerInv'
  <2>1. \/ pc[t] = "idle" /\ fate[l] = "unborn"
        \/ pc[t] = "has" /\ ref[t] = l
    BY <1>5 DEF SetLogger
  <2>2. /\ global' = l /\ ref' = [ref EXCEPT ![t] = l] /\ UNCHANGED stop
        /\ fate'[l] = "alive"
        /\ \A k \in Loggers \ {l} :
             fate'[k] = IF k = global /\ Ends /\ k # Async THEN "dead" ELSE fate[k]
    BY <1>5 DEF SetLogger
  <2>3. \A k \in Loggers \ {l} : Pointed(k)' => Pointed(k) /\ ~(k = global /\ Ends)
    BY <2>2 DEF Ends
  <2>4. ASSUME NEW k \in Loggers, Pointed(k)' PROVE fate'[k] = "alive"
    <3>1. CASE k = l
      BY <2>2, <3>1
    <3>2. CASE k # l
      <4>1. Pointed(k) /\ ~(k = global /\ Ends /\ k # Async)
        BY <2>3, <2>4, <3>2
      <4>2. fate[k] = "alive" /\ fate'[k] = fate[k]
        BY <2>2, <3>2, <4>1
      <4> QED
        BY <4>2
    <3> QED
      BY <3>1, <3>2
  <2>5. /\ pc'[t] = (IF Ends /\ global = Async THEN "stop" ELSE "given")
        /\ \A u \in Threads \ {t} : pc'[u] = pc[u]
        /\ pc'[Worker] = IF l = Async /\ fate[l] = "unborn" THEN "check" ELSE pc[Worker]
    BY <1>5 DEF SetLogger
  <2>6. ASSUME NEW u \in Threads, Ending(u) PROVE l # Async /\ global # Async
    BY <2>1, <2>6
  <2>7. ASSUME Ends, global = Async
        PROVE  ~Pointed(Async)' /\ fate'[Async] = "alive" /\ \A u \in Threads : ~Ending(u)
    <3>1. l # Async
      BY <2>1, <2>7 DEF Ends
    <3> QED
      BY <2>2, <2>3, <2>6, <2>7, <3>1
  <2>8. \A u \in Threads : Ending(u)' => ~Pointed(Async)' /\ fate'[Async] = "alive"
    BY <2>2, <2>3, <2>5, <2>6, <2>7
  <2>9. \A u, w \in Threads : Ending(u)' /\ Ending(w)' => u = w
    BY <2>5, <2>7
  <2>10. stop' => \/ fate'[Async] = "dead"
                  \/ \E u \in Threads : pc'[u] \in {"notify", "join"}
    BY <2>1, <2>2, <2>5
  <2> QED
    BY <2>2, <2>4, <2>5, <2>8, <2>9, <2>10
<1>6. ASSUME NEW t \in Threads, NEW v \in Levels, Log(t, v)
      PROVE  PointerInv'
  BY <1>6 DEF Log
<1>7. ASSUME NEW t \in Threads, Write(t)
      PROVE  PointerInv'
  BY <1>7 DEF Writes, Write
<1>8. ASSUME NEW t \in Threads, NEW v \in Levels, LogAsync(t, v)
      PROVE  PointerInv'
  BY <1>8 DEF LogAsync, Wakes
<1>9. ASSUME NEW t \in Threads, Stop(t)
      PROVE  PointerInv'
  BY <1>9 DEF Stop
<1>10. ASSUME NEW t \in Threads, Notify(t)
      PROVE  PointerInv'
  BY <1>10 DEF Notify
<1>11. ASSUME NEW t \in Threads, Join(t)
      PROVE  PointerInv'
  BY <1>11 DEF Join
<1>12. CASE WorkerStep
  <2>1. CASE Check
    BY <2>1 DEF Check
  <2>2. CASE Doze \/ PassedAll
    BY <2>2 DEF Doze, PassedAll
  <2>3. CASE Passes
    BY <2>3 DEF Passes
  <2>4. CASE Writes(Worker, Async, "process") /\ UNCHANGED async
    BY <2>4 DEF Writes
  <2> QED
    BY <1>12, <2>1, <2>2, <2>3, <2>4 DEF WorkerStep
<1>13. ASSUME NEW t \in Threads, Call(t) PROVE PointerInv'
  <2>1. ASSUME Forget(t, "has") PROVE PointerInv'
    BY <1>3, <2>1 DEF Forget
  <2> QED
    BY <1>2, <1>5, <1>6, <1>8, <1>13, <2>1 DEF Call
<1>14. ASSUME NEW t \in Threads, Proceed(t) PROVE PointerInv'
  <2>1. ASSUME Forget(t, "given") PROVE PointerInv'
    BY <1>3, <2>1 DEF Forget
  <2>2. ASSUME NEW v \in Levels, SetLevel(t, v) PROVE PointerInv'
    BY <1>3, <2>2 DEF SetLevel
  <2>3. ASSUME Keeps(t) PROVE PointerInv'
    BY <2>3 DEF Keeps
  <2> QED
    BY <1>7, <1>9, <1>10, <1>11, <1>14, <2>1, <2>2, <2>3 DEF Proceed
<1> QED
  BY <1>1, <1>12, <1>13, <1>14 DEF Next

(* No pointer outlives its logger. *)
THEOREM PointersCorrect == Spec => []PointersHold
<1> DEFINE Inv == TypeOK /\ PlaceInv /\ PointerInv
<1>1. Init => Inv
  <2>1. Init => TypeOK /\ PlaceInv
    BY InitTyped
  <2>2. Init => PointerInv
    BY LoggingAssumption DEF Init, PointerInv, Pointed, Ending, Loggers
  <2> QED
    BY <2>1, <2>2
<1>2. Inv /\ [Next]_vars => Inv'
  BY TypeStep, PointerStep
<1>3. Inv => PointersHold
  BY DEF TypeOK, PointerInv, Pointed, Ending, PointersHold
<1> QED
  BY <1>1, <1>2, <1>3, PTL DEF Spec

-----------------------------------------------------------------------------
(* A message about to be written has passed the level as it now is, or the *)
(* level was changed since.                                                *)
Passed(m, l) == m[2] >= level[l] \/ m[1] \in overtaken
LevelInv ==
  /\ \A t \in Threads : writing[t] # None => Passed(writing[t], ref[t])
  /\ writing[Worker] # None => Passed(writing[Worker], Async)

LEMMA LevelStep ==
  ASSUME TypeOK, PlaceInv, LevelInv, [Next]_vars
  PROVE  LevelInv'
<1> USE LoggingAssumption DEF TypeOK, PlaceInv, ThreadPlaces, LevelInv, Passed,
        Goes, Loggers, factory, async, history
<1>1. CASE UNCHANGED vars
  BY <1>1 DEF vars
<1>2. ASSUME NEW t \in Threads, NEW place \in {"has", "level"}, GetLogger(t, place)
      PROVE  LevelInv'
  BY <1>2 DEF GetLogger
<1>3. ASSUME NEW t \in Threads, NEW place \in {"has", "given"}, Forget(t, place)
      PROVE  LevelInv'
  BY <1>3 DEF Forget, LetsGo
<1>4. ASSUME NEW t \in Threads, NEW v \in Levels, SetLevel(t, v)
      PROVE  LevelInv'
  BY <1>4 DEF SetLevel, LetsGo
<1>5. ASSUME NEW t \in Threads, NEW l \in Loggers, SetLogger(t, l)
      PROVE  LevelInv'
  BY <1>5 DEF SetLogger
<1>6. ASSUME NEW t \in Threads, NEW v \in Levels, Log(t, v)
      PROVE  LevelInv'
  BY <1>6 DEF Log, Reads
<1>7. ASSUME NEW t \in Threads, Write(t)
      PROVE  LevelInv'
  BY <1>7 DEF Writes, Write
<1>8. ASSUME NEW t \in Threads, NEW v \in Levels, LogAsync(t, v)
      PROVE  LevelInv'
  BY <1>8 DEF LogAsync
<1>9. ASSUME NEW t \in Threads, Keeps(t) \/ Stop(t) \/ Notify(t) \/ Join(t)
      PROVE  LevelInv'
  BY <1>9 DEF Keeps, Stop, Notify, Join
<1>10. CASE Check \/ Doze \/ PassedAll
  BY <1>10 DEF Check, Doze, PassedAll
<1>11. CASE Passes
  BY <1>11 DEF Passes, Reads
<1>12. CASE Writes(Worker, Async, "process")
  BY <1>12 DEF Writes
<1>13. ASSUME NEW t \in Threads, Call(t) PROVE LevelInv'
  BY <1>2, <1>3, <1>5, <1>6, <1>8, <1>13 DEF Call
<1>14. ASSUME NEW t \in Threads, Proceed(t) PROVE LevelInv'
  BY <1>3, <1>4, <1>7, <1>9, <1>14 DEF Proceed
<1> QED
  BY <1>1, <1>10, <1>11, <1>12, <1>13, <1>14 DEF Next, WorkerStep

(* What a step writes is the message its thread had read the level for. *)
LEMMA WriteStep ==
  ASSUME TypeOK, PlaceInv, [Next]_vars, NEW l \in Loggers, written'[l] # written[l]
  PROVE  \E t \in Threads \cup {Worker} :
           /\ writing[t] # None /\ l = (IF t = Worker THEN Async ELSE ref[t])
           /\ written'[l] = Append(written[l], writing[t])
<1> USE LoggingAssumption DEF TypeOK, PlaceInv, factory, async, history
<1>1. ASSUME NEW t \in Threads, Call(t) PROVE UNCHANGED written
  BY <1>1 DEF Call, GetLogger, Forget, Log, LogAsync, SetLogger
<1>2. ASSUME NEW t \in Threads, Proceed(t) PROVE UNCHANGED written \/ Write(t)
  BY <1>2 DEF Proceed, SetLevel, Keeps, Forget, Stop, Notify, Join
<1>3. WorkerStep => UNCHANGED written \/ Writes(Worker, Async, "process")
  BY DEF WorkerStep, Check, Doze, Passes, PassedAll
<1>4. \/ \E t \in Threads : Write(t)
      \/ Writes(Worker, Async, "process")
  BY <1>1, <1>2, <1>3 DEF Next, vars
<1>5. ASSUME NEW t \in Threads \cup {Worker}, NEW k \in Loggers,
             pc[t] = "write", written' = [written EXCEPT ![k] = Append(@, writing[t])]
      PROVE  l = k /\ writing[t] # None /\ written'[l] = Append(written[l], writing[t])
  BY <1>5
<1>6. CASE Writes(Worker, Async, "process")
  BY <1>5, <1>6 DEF Writes, Loggers
<1>7. ASSUME NEW t \in Threads, Write(t), t # Worker
      PROVE  l = ref[t] /\ writing[t] # None
             /\ written'[l] = Append(written[l], writing[t])
  <2>1. ref[t] \in Loggers
    BY <1>7 DEF Write, Writes, Loggers
  <2> QED
    BY <1>5, <1>7, <2>1 DEF Write, Writes
<1> QED
  BY <1>4, <1>6, <1>7

(* A message below the level is only written if the level was changed      *)
(* after it had been read.                                                 *)
THEOREM WritesCorrect == Spec => WritesAsAllowed
<1> DEFINE Inv == TypeOK /\ PlaceInv /\ LevelInv
<1>1. Init => Inv
  <2>1. Init => LevelInv
    BY DEF Init, LevelInv
  <2> QED
    BY <2>1, InitTyped
<1>2. Inv /\ [Next]_vars => Inv'
  BY TypeStep, LevelStep
<1>3. Inv /\ [Next]_vars =>
        [\A l \in Loggers :
           written'[l] # written[l] =>
             LET m == written'[l][Len(written'[l])]
             IN  m[2] >= level[l] \/ m[1] \in overtaken]_vars
  <2> SUFFICES ASSUME Inv, [Next]_vars, NEW l \in Loggers, written'[l] # written[l]
               PROVE  Passed(written'[l][Len(written'[l])], l)
    BY DEF Passed
  <2>1. PICK t \in Threads \cup {Worker} :
          /\ writing[t] # None /\ l = (IF t = Worker THEN Async ELSE ref[t])
          /\ written'[l] = Append(written[l], writing[t])
    BY WriteStep
  <2>2. written'[l][Len(written'[l])] = writing[t]
    BY <2>1 DEF TypeOK
  <2> QED
    BY <2>1, <2>2, LoggingAssumption DEF LevelInv
<1> QED
  BY <1>1, <1>2, <1>3, PTL DEF Spec, WritesAsAllowed

-----------------------------------------------------------------------------
(* A thread is inside a call; what lets it, or the worker, take a step.    *)
Inside(t) == pc[t] \notin {"idle", "has"}
ThreadCanGo(t) ==
  \/ pc[t] = "level" /\ FactoryFree
  \/ pc[t] \in {"write", "given", "notify"}
  \/ pc[t] = "stop" /\ QueueFree
  \/ pc[t] = "join" /\ pc[Worker] = "done"
WorkerCanGo ==
  \/ pc[Worker] = "check" /\ QueueFree
  \/ pc[Worker] \in {"dozing", "process", "write"}

CallsCanGoOn ==
  \A t \in Threads : Inside(t) => WorkerCanGo \/ \E u \in Threads : ThreadCanGo(u)

(* Who keeps logger_mutex_ is in a destructor; who keeps queue_mutex_ is   *)
(* the worker, about to sleep.  stop_thread_, set under that mutex, finds  *)
(* the worker asleep or still to look, and the notification comes after it. *)
WakeInv ==
  /\ factoryMutex # NoThread => Ending(factoryMutex)
  /\ queueMutex = Worker <=> pc[Worker] = "dozing"
  /\ fate[Async] # "unborn" => pc[Worker] # "none"
  /\ pc[Worker] \in ThreadPlaces => pc[Worker] = "write"
  /\ stop => pc[Worker] # "dozing"
  /\ \A t \in Threads : pc[t] \in {"notify", "join"} => stop
  /\ \A t \in Threads : pc[t] = "join" => pc[Worker] # "asleep"

LEMMA WakeStep ==
  ASSUME TypeOK, PlaceInv, PointerInv, WakeInv, [Next]_vars
  PROVE  WakeInv'
<1> USE LoggingAssumption DEF TypeOK, PlaceInv, ThreadPlaces, PointerInv, WakeInv,
        Ending, Goes, Loggers, factory, async
<1>1. CASE UNCHANGED vars
  BY <1>1 DEF vars
<1>2. ASSUME NEW t \in Threads, NEW place \in {"has", "level"}, GetLogger(t, place)
      PROVE  WakeInv'
  BY <1>2 DEF GetLogger, FactoryFree
<1>3. ASSUME NEW t \in Threads, pc[t] \in {"has", "given", "level"}, LetsGo(t, ref[t]),
             UNCHANGED <<factoryMutex, async>>
      PROVE  WakeInv'
  <2>1. \/ Goes(t, "stop") /\ UNCHANGED fate
        \/ Goes(t, "idle") /\ UNCHANGED fate
        \/ Goes(t, "idle") /\ fate' = [fate EXCEPT ![ref[t]] = "dead"]
    BY <1>3 DEF LetsGo
  <2>2. fate'[Async] # "unborn" => fate[Async] # "unborn"
    BY <1>3, <2>1 DEF Pointed
  <2> QED
    BY <1>3, <2>1, <2>2
<1>4. ASSUME NEW t \in Threads, NEW l \in Loggers, SetLogger(t, l)
      PROVE  WakeInv'
  BY <1>4 DEF SetLogger, FactoryFree
<1>5. ASSUME NEW t \in Threads, NEW v \in Levels, Log(t, v) PROVE WakeInv'
  BY <1>5 DEF Log
<1>6. ASSUME NEW t \in Threads, Write(t) PROVE WakeInv'
  BY <1>6 DEF Write, Writes
<1>7. ASSUME NEW t \in Threads, NEW v \in Levels, LogAsync(t, v) PROVE WakeInv'
  BY <1>7 DEF LogAsync, Wakes
<1>8. ASSUME NEW t \in Threads, Stop(t) PROVE WakeInv'
  BY <1>8 DEF Stop, QueueFree
<1>9. ASSUME NEW t \in Threads, Notify(t) PROVE WakeInv'
  BY <1>9 DEF Notify
<1>10. ASSUME NEW t \in Threads, Join(t) PROVE WakeInv'
  BY <1>10 DEF Join
<1>11. CASE WorkerStep
  <2>1. CASE Check
    BY <2>1 DEF Check, QueueFree
  <2>2. CASE Doze \/ PassedAll
    BY <2>2 DEF Doze, PassedAll
  <2>3. CASE Passes
    BY <2>3 DEF Passes
  <2>4. CASE Writes(Worker, Async, "process") /\ UNCHANGED async
    BY <2>4 DEF Writes
  <2> QED
    BY <1>11, <2>1, <2>2, <2>3, <2>4 DEF WorkerStep
<1>12. ASSUME NEW t \in Threads, Call(t) PROVE WakeInv'
  <2>1. ASSUME Forget(t, "has") PROVE WakeInv'
    BY <1>3, <2>1 DEF Forget
  <2> QED
    BY <1>2, <1>4, <1>5, <1>7, <1>12, <2>1 DEF Call
<1>13. ASSUME NEW t \in Threads, Proceed(t) PROVE WakeInv'
  <2>1. ASSUME Forget(t, "given") PROVE WakeInv'
    BY <1>3, <2>1 DEF Forget
  <2>2. ASSUME NEW v \in Levels, SetLevel(t, v) PROVE WakeInv'
    BY <1>3, <2>2 DEF SetLevel
  <2>3. ASSUME Keeps(t) PROVE WakeInv'
    BY <2>3 DEF Keeps
  <2> QED
    BY <1>6, <1>8, <1>9, <1>10, <1>13, <2>1, <2>2, <2>3 DEF Proceed
<1> QED
  BY <1>1, <1>11, <1>12, <1>13 DEF Next

(* No call is stuck: not even setLogger, when with logger_mutex_ in hand   *)
(* it joins the worker of the AsyncLogger it replaces.  stop_thread_ is    *)
(* set under queue_mutex_, so the worker cannot go to sleep past it.       *)
THEOREM NoCallIsStuck == Spec => []CallsCanGoOn
<1> DEFINE Inv == TypeOK /\ PlaceInv /\ PointerInv /\ WakeInv
<1>1. Init => Inv
  <2>1. Init => PointerInv /\ WakeInv
    BY LoggingAssumption
    DEF Init, PointerInv, Pointed, Ending, WakeInv, ThreadPlaces, Loggers
  <2> QED
    BY <2>1, InitTyped
<1>2. Inv /\ [Next]_vars => Inv'
  BY TypeStep, PointerStep, WakeStep
<1>3. Inv => CallsCanGoOn
  <2> SUFFICES ASSUME Inv, NEW t \in Threads, Inside(t)
               PROVE  WorkerCanGo \/ \E u \in Threads : ThreadCanGo(u)
    BY DEF CallsCanGoOn
  <2> USE LoggingAssumption DEF PlaceInv, ThreadPlaces
  <2>1. ASSUME NEW u \in Threads, Ending(u)
        PROVE  WorkerCanGo \/ ThreadCanGo(u)
    <3>1. pc[Worker] \notin {"none"} /\ (pc[u] = "join" => pc[Worker] # "asleep")
      BY <2>1 DEF PointerInv, WakeInv
    <3>2. queueMutex = NoThread \/ pc[Worker] = "dozing"
      BY DEF TypeOK, WakeInv
    <3>3. pc[Worker] \in {"write", "check", "dozing", "asleep", "process", "done"}
      BY <3>1 DEF TypeOK, WakeInv
    <3> QED
      BY <2>1, <3>1, <3>2, <3>3 DEF Ending, WorkerCanGo, ThreadCanGo, QueueFree
  <2>2. CASE factoryMutex # NoThread
    <3>1. factoryMutex \in Threads /\ Ending(factoryMutex)
      BY <2>2 DEF TypeOK, WakeInv
    <3> QED
      BY <2>1, <3>1
  <2>3. CASE factoryMutex = NoThread /\ ~Ending(t)
    BY <2>3 DEF Inside, Ending, ThreadCanGo, FactoryFree
  <2> QED
    BY <2>1, <2>2, <2>3
<1> QED
  BY <1>1, <1>2, <1>3, PTL DEF Spec

=============================================================================
