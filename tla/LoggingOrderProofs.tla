-------------------------- MODULE LoggingOrderProofs --------------------------
(***************************************************************************)
(* Proofs about the messages: where each one is, and in which order the    *)
(* AsyncLogger passes them on.                                             *)
(***************************************************************************)
EXTENDS LoggingProofs, FiniteSetTheorems

-----------------------------------------------------------------------------
(* The numbers of a sequence of messages. *)

LEMMA NumbersEmpty == Numbers(<<>>) = {}
BY DEF Numbers

LEMMA NumbersAppend ==
  ASSUME NEW s \in Seq(Messages), NEW m \in Messages
  PROVE  Numbers(Append(s, m)) = Numbers(s) \cup {m[1]}
<1>1. /\ DOMAIN Append(s, m) = DOMAIN s \cup {Len(s) + 1}
      /\ \A i \in DOMAIN s : Append(s, m)[i] = s[i]
      /\ Append(s, m)[Len(s) + 1] = m
  OBVIOUS
<1> QED
  BY <1>1 DEF Numbers

LEMMA NumbersHead ==
  ASSUME NEW s \in Seq(Messages), s # <<>>
  PROVE  Numbers(s) = {Head(s)[1]} \cup Numbers(Tail(s))
<1>1. /\ DOMAIN s = 1 .. Len(s) /\ DOMAIN Tail(s) = 1 .. Len(s) - 1
      /\ Len(s) \in Nat /\ Len(s) > 0 /\ Head(s) = s[1]
      /\ \A i \in 1 .. Len(s) - 1 : Tail(s)[i] = s[i + 1]
  OBVIOUS
<1>2. ASSUME NEW n \in Numbers(s) PROVE n = Head(s)[1] \/ n \in Numbers(Tail(s))
  <2>1. PICK i \in 1 .. Len(s) : n = s[i][1]
    BY <1>1, <1>2 DEF Numbers
  <2>2. CASE i = 1
    BY <1>1, <2>1, <2>2
  <2>3. CASE i # 1
    <3>1. i - 1 \in 1 .. Len(s) - 1 /\ Tail(s)[i - 1] = s[i]
      BY <1>1, <2>1, <2>3
    <3> QED
      BY <1>1, <2>1, <3>1 DEF Numbers
  <2> QED
    BY <2>2, <2>3
<1>3. ASSUME NEW n \in Numbers(Tail(s)) PROVE n \in Numbers(s)
  <2>1. PICK i \in 1 .. Len(s) - 1 : n = Tail(s)[i][1]
    BY <1>1, <1>3 DEF Numbers
  <2>2. i + 1 \in 1 .. Len(s) /\ Tail(s)[i] = s[i + 1]
    BY <1>1, <2>1
  <2> QED
    BY <1>1, <2>1, <2>2 DEF Numbers
<1>4. Head(s)[1] \in Numbers(s)
  BY <1>1 DEF Numbers
<1> QED
  BY <1>2, <1>3, <1>4

LEMMA NumbersTyped ==
  ASSUME NEW s \in Seq(Messages)
  PROVE  Numbers(s) \subseteq 1 .. MaxMessages
BY DEF Numbers, Messages

-----------------------------------------------------------------------------
(* Increasing sequences. *)

Before(A, B) == \A a \in A, b \in B : a < b

LEMMA IncreasingEmpty == Increasing(<<>>)
BY DEF Increasing

LEMMA IncreasingAppend ==
  ASSUME NEW s \in Seq(Messages), NEW m \in Messages, Increasing(s),
         Before(Numbers(s), {m[1]})
  PROVE  Increasing(Append(s, m))
<1>1. /\ DOMAIN Append(s, m) = 1 .. Len(s) + 1 /\ DOMAIN s = 1 .. Len(s)
      /\ Len(s) \in Nat
      /\ \A i \in 1 .. Len(s) : Append(s, m)[i] = s[i]
      /\ Append(s, m)[Len(s) + 1] = m
  OBVIOUS
<1>2. \A i \in 1 .. Len(s) : s[i][1] < m[1]
  BY <1>1 DEF Numbers, Before
<1> SUFFICES ASSUME NEW i \in 1 .. Len(s) + 1, NEW j \in 1 .. Len(s) + 1, i < j
             PROVE  Append(s, m)[i][1] < Append(s, m)[j][1]
  BY <1>1 DEF Increasing
<1>3. i \in 1 .. Len(s)
  BY <1>1
<1>4. CASE j = Len(s) + 1
  BY <1>1, <1>2, <1>3, <1>4
<1>5. CASE j # Len(s) + 1
  <2>1. j \in 1 .. Len(s)
    BY <1>1, <1>5
  <2> QED
    BY <1>1, <1>3, <2>1 DEF Increasing
<1> QED
  BY <1>4, <1>5

LEMMA IncreasingHead ==
  ASSUME NEW s \in Seq(Messages), s # <<>>, Increasing(s)
  PROVE  Increasing(Tail(s)) /\ Before({Head(s)[1]}, Numbers(Tail(s)))
<1>1. /\ DOMAIN s = 1 .. Len(s) /\ DOMAIN Tail(s) = 1 .. Len(s) - 1
      /\ Len(s) \in Nat /\ Len(s) > 0 /\ Head(s) = s[1]
      /\ \A i \in 1 .. Len(s) - 1 : Tail(s)[i] = s[i + 1]
  OBVIOUS
<1>2. Increasing(Tail(s))
  <2> SUFFICES ASSUME NEW i \in 1 .. Len(s) - 1, NEW j \in 1 .. Len(s) - 1, i < j
               PROVE  Tail(s)[i][1] < Tail(s)[j][1]
    BY <1>1 DEF Increasing
  <2>1. i + 1 \in 1 .. Len(s) /\ j + 1 \in 1 .. Len(s) /\ i + 1 < j + 1
    BY <1>1
  <2>2. s[i + 1][1] < s[j + 1][1]
    BY <1>1, <2>1 DEF Increasing
  <2> QED
    BY <1>1, <2>2
<1>3. ASSUME NEW n \in Numbers(Tail(s)) PROVE Head(s)[1] < n
  <2>1. PICK i \in 1 .. Len(s) - 1 : n = Tail(s)[i][1]
    BY <1>1, <1>3 DEF Numbers
  <2>2. 1 \in 1 .. Len(s) /\ i + 1 \in 1 .. Len(s) /\ 1 < i + 1
    BY <1>1, <2>1
  <2>3. s[1][1] < s[i + 1][1]
    BY <1>1, <2>2 DEF Increasing
  <2> QED
    BY <1>1, <2>1, <2>3
<1> QED
  BY <1>2, <1>3 DEF Before

LEMMA IncreasingConcat ==
  ASSUME NEW s \in Seq(Messages), NEW u \in Seq(Messages),
         Increasing(s), Increasing(u), Before(Numbers(s), Numbers(u))
  PROVE  Increasing(s \o u) /\ Numbers(s \o u) = Numbers(s) \cup Numbers(u)
<1>1. /\ DOMAIN s = 1 .. Len(s) /\ DOMAIN u = 1 .. Len(u)
      /\ DOMAIN (s \o u) = 1 .. Len(s) + Len(u)
      /\ Len(s) \in Nat /\ Len(u) \in Nat
      /\ \A i \in 1 .. Len(s) + Len(u) :
           (s \o u)[i] = IF i <= Len(s) THEN s[i] ELSE u[i - Len(s)]
  OBVIOUS
<1>2. ASSUME NEW i \in 1 .. Len(s) + Len(u)
      PROVE  \/ i \in 1 .. Len(s) /\ (s \o u)[i] = s[i]
             \/ i - Len(s) \in 1 .. Len(u) /\ (s \o u)[i] = u[i - Len(s)]
                /\ ~(i <= Len(s))
  BY <1>1
<1>3. Numbers(s \o u) = Numbers(s) \cup Numbers(u)
  <2>1. Numbers(s \o u) \subseteq Numbers(s) \cup Numbers(u)
    BY <1>1, <1>2 DEF Numbers
  <2>2. ASSUME NEW i \in 1 .. Len(s) PROVE s[i][1] \in Numbers(s \o u)
    BY <1>1 DEF Numbers
  <2>3. ASSUME NEW i \in 1 .. Len(u) PROVE u[i][1] \in Numbers(s \o u)
    <3>1. i + Len(s) \in 1 .. Len(s) + Len(u) /\ (s \o u)[i + Len(s)] = u[i]
      BY <1>1
    <3> QED
      BY <1>1, <3>1 DEF Numbers
  <2> QED
    BY <1>1, <2>1, <2>2, <2>3 DEF Numbers
<1>4. ASSUME NEW i \in 1 .. Len(s) + Len(u), NEW j \in 1 .. Len(s) + Len(u), i < j
      PROVE  (s \o u)[i][1] < (s \o u)[j][1]
  <2>1. CASE i \in 1 .. Len(s) /\ j \in 1 .. Len(s)
    BY <1>1, <1>4, <2>1 DEF Increasing
  <2>2. CASE i \in 1 .. Len(s) /\ ~(j <= Len(s))
    <3>1. (s \o u)[i] = s[i] /\ s[i][1] \in Numbers(s)
      BY <1>1, <2>2 DEF Numbers
    <3>2. (s \o u)[j] = u[j - Len(s)] /\ j - Len(s) \in 1 .. Len(u)
      BY <1>1, <2>2
    <3>3. u[j - Len(s)][1] \in Numbers(u)
      BY <1>1, <3>2 DEF Numbers
    <3> QED
      BY <3>1, <3>2, <3>3 DEF Before
  <2>3. CASE ~(i <= Len(s)) /\ ~(j <= Len(s))
    <3>1. /\ i - Len(s) \in 1 .. Len(u) /\ j - Len(s) \in 1 .. Len(u)
          /\ i - Len(s) < j - Len(s)
          /\ (s \o u)[i] = u[i - Len(s)] /\ (s \o u)[j] = u[j - Len(s)]
      BY <1>1, <1>4, <2>3
    <3>2. u[i - Len(s)][1] < u[j - Len(s)][1]
      BY <1>1, <3>1 DEF Increasing
    <3> QED
      BY <3>1, <3>2
  <2> QED
    BY <1>1, <1>4, <2>1, <2>2, <2>3
<1> QED
  BY <1>1, <1>3, <1>4 DEF Increasing

-----------------------------------------------------------------------------
(* Where a message is: written, about to be written, in the batch, in the  *)
(* queue, silenced or dropped.                                             *)
Written    == UNION {Numbers(written[l]) : l \in Loggers}
Holders    == {t \in Threads \cup {Worker} : writing[t] # None}
Held       == {writing[t][1] : t \in Holders}
WorkerHeld == IF writing[Worker] = None THEN {} ELSE {writing[Worker][1]}

(* Six sets that share no number have all of them up to n between them.    *)
Apart(A, B) == A \cap B = {}
Split(W, H, B, Q, S, D, n) ==
  /\ W \cup H \cup B \cup Q \cup S \cup D = 1 .. n
  /\ Apart(W, H) /\ Apart(W, B) /\ Apart(W, Q) /\ Apart(W, S) /\ Apart(W, D)
  /\ Apart(H, B) /\ Apart(H, Q) /\ Apart(H, S) /\ Apart(H, D)
  /\ Apart(B, Q) /\ Apart(B, S) /\ Apart(B, D)
  /\ Apart(Q, S) /\ Apart(Q, D) /\ Apart(S, D)

AccountInv ==
  /\ Split(Written, Held, Numbers(batch), Numbers(queue), silenced, dropped, logged)
  /\ \A t, u \in Holders : writing[t][1] = writing[u][1] => t = u

(* What the AsyncLogger has written is older than what its worker is about *)
(* to write, that is older than the batch, and the batch than the queue.   *)
OrderInv ==
  /\ \A t \in Threads : pc[t] = "write" => ref[t] # Async
  /\ Increasing(written[Async]) /\ Increasing(batch) /\ Increasing(queue)
  /\ Before(Numbers(written[Async]), WorkerHeld)
  /\ Before(Numbers(written[Async]), Numbers(batch))
  /\ Before(Numbers(written[Async]), Numbers(queue))
  /\ Before(WorkerHeld, Numbers(batch)) /\ Before(WorkerHeld, Numbers(queue))
  /\ Before(Numbers(batch), Numbers(queue)) /\ Before(dropped, Numbers(queue))

(* The worker ends with nothing left, and the logger after the worker.     *)
EndInv ==
  /\ pc[Worker] \notin {"process", "write"} => batch = <<>>
  /\ pc[Worker] = "done" => queue = <<>>
  /\ fate[Async] = "dead" => pc[Worker] = "done"

LEMMA HeldTyped ==
  ASSUME TypeOK, NEW t \in Holders
  PROVE  writing[t] \in Messages /\ writing[t][1] \in 1 .. MaxMessages
BY DEF TypeOK, Holders, Messages

LEMMA Takes ==
  ASSUME TypeOK, NEW t \in Threads \cup {Worker}, NEW m \in Messages,
         writing[t] = None, writing' = [writing EXCEPT ![t] = m]
  PROVE  /\ Holders' = Holders \cup {t} /\ t \notin Holders
         /\ Held' = Held \cup {m[1]}
         /\ \A u \in Holders : writing'[u] = writing[u]
         /\ writing'[t] = m
<1>1. /\ m # None /\ writing'[t] = m
      /\ \A u \in Threads \cup {Worker} : u # t => writing'[u] = writing[u]
  BY MessageSome DEF TypeOK
<1>2. Holders' = Holders \cup {t} /\ t \notin Holders
  BY <1>1 DEF Holders
<1>3. \A u \in Holders : writing'[u] = writing[u]
  BY <1>1, <1>2 DEF Holders
<1>4. Held' = Held \cup {m[1]}
  BY <1>1, <1>2, <1>3 DEF Held
<1> QED
  BY <1>1, <1>2, <1>3, <1>4

LEMMA Releases ==
  ASSUME TypeOK, AccountInv, NEW t \in Holders, writing' = [writing EXCEPT ![t] = None]
  PROVE  /\ Holders' = Holders \ {t}
         /\ Held' = Held \ {writing[t][1]} /\ writing[t][1] \in Held
         /\ \A u \in Holders' : writing'[u] = writing[u]
<1>1. /\ t \in Threads \cup {Worker} /\ writing'[t] = None
      /\ \A u \in Threads \cup {Worker} : u # t => writing'[u] = writing[u]
  BY DEF TypeOK, Holders
<1>2. Holders' = Holders \ {t}
  BY <1>1 DEF Holders
<1>3. \A u \in Holders' : writing'[u] = writing[u]
  BY <1>1, <1>2 DEF Holders
<1>4. Held' = {writing[u][1] : u \in Holders \ {t}}
  BY <1>2, <1>3 DEF Held
<1>5. \A u \in Holders \ {t} : writing[u][1] # writing[t][1]
  BY DEF AccountInv
<1> QED
  BY <1>2, <1>3, <1>4, <1>5 DEF Held

LEMMA WrittenAppend ==
  ASSUME TypeOK, NEW l \in Loggers, NEW m \in Messages,
         written' = [written EXCEPT ![l] = Append(@, m)]
  PROVE  Written' = Written \cup {m[1]}
<1>1. /\ written'[l] = Append(written[l], m) /\ written[l] \in Seq(Messages)
      /\ \A k \in Loggers : k # l => written'[k] = written[k]
  BY DEF TypeOK
<1>2. Numbers(written'[l]) = Numbers(written[l]) \cup {m[1]}
  BY <1>1, NumbersAppend
<1>3. \A k \in Loggers : k # l => Numbers(written'[k]) = Numbers(written[k])
  BY <1>1
<1> QED
  BY <1>2, <1>3 DEF Written

(* A new message is one number more; a message moves from set to set. *)
LEMMA SplitNew ==
  ASSUME NEW W, NEW H, NEW B, NEW Q, NEW S, NEW D, NEW n \in Nat,
         Split(W, H, B, Q, S, D, n)
  PROVE  /\ 1 .. n + 1 = 1 .. n \cup {n + 1}
         /\ n + 1 \notin W \cup H \cup B \cup Q \cup S \cup D
         /\ Split(W, H \cup {n + 1}, B, Q, S, D, n + 1)
         /\ Split(W, H, B, Q, S \cup {n + 1}, D, n + 1)
         /\ Split(W, H, B, Q \cup {n + 1}, S, D, n + 1)
<1>1. n + 1 \notin W \cup H \cup B \cup Q \cup S \cup D
  <2>1. n + 1 \notin 1 .. n
    OBVIOUS
  <2> QED
    BY <2>1 DEF Split
<1>2. 1 .. n + 1 = 1 .. n \cup {n + 1}
  OBVIOUS
<1>3. W \cup H \cup B \cup Q \cup S \cup D = 1 .. n
  BY DEF Split
<1>4. Split(W, H \cup {n + 1}, B, Q, S, D, n + 1)
  <2>1. W \cup (H \cup {n + 1}) \cup B \cup Q \cup S \cup D = 1 .. n + 1
    BY <1>2, <1>3
  <2> QED
    BY <1>1, <2>1 DEF Split, Apart
<1>5. Split(W, H, B, Q, S \cup {n + 1}, D, n + 1)
  <2>1. W \cup H \cup B \cup Q \cup (S \cup {n + 1}) \cup D = 1 .. n + 1
    BY <1>2, <1>3
  <2> QED
    BY <1>1, <2>1 DEF Split, Apart
<1>6. Split(W, H, B, Q \cup {n + 1}, S, D, n + 1)
  <2>1. W \cup H \cup B \cup (Q \cup {n + 1}) \cup S \cup D = 1 .. n + 1
    BY <1>2, <1>3
  <2> QED
    BY <1>1, <2>1 DEF Split, Apart
<1> QED
  BY <1>1, <1>2, <1>4, <1>5, <1>6

LEMMA SplitMove ==
  ASSUME NEW W, NEW H, NEW B, NEW Q, NEW S, NEW D, NEW n, NEW x,
         Split(W, H, B, Q, S, D, n)
  PROVE  /\ x \in H => Split(W \cup {x}, H \ {x}, B, Q, S, D, n)
         /\ x \in B => Split(W, H \cup {x}, B \ {x}, Q, S, D, n)
         /\ x \in B => Split(W, H, B \ {x}, Q, S \cup {x}, D, n)
         /\ x \in Q => Split(W, H, B, Q \ {x}, S, D \cup {x}, n)
         /\ B = {} => Split(W, H, Q, {}, S, D, n)
BY DEF Split, Apart

-----------------------------------------------------------------------------
(* What the steps do with messages. *)

LEMMA PushNumbers ==
  ASSUME TypeOK, AccountInv, OrderInv, NEW m \in Messages, Push(m)
  PROVE  \/ /\ Numbers(queue') = Numbers(queue) \cup {m[1]} /\ UNCHANGED dropped
            /\ queue' = Append(queue, m)
         \/ /\ queue # <<>> /\ queue' = Append(Tail(queue), m)
            /\ Head(queue)[1] \in Numbers(queue)
            /\ Numbers(Tail(queue)) = Numbers(queue) \ {Head(queue)[1]}
            /\ Numbers(queue') = (Numbers(queue) \ {Head(queue)[1]}) \cup {m[1]}
            /\ dropped' = dropped \cup {Head(queue)[1]}
<1>1. queue \in Seq(Messages) /\ Len(queue) \in Nat /\ MaxQueue \in Nat /\ MaxQueue > 0
  BY LoggingAssumption DEF TypeOK
<1>2. CASE Len(queue) >= MaxQueue
  <2>1. queue # <<>>
    BY <1>1, <1>2
  <2>2. queue' = Append(Tail(queue), m) /\ dropped' = dropped \cup {Head(queue)[1]}
    BY <1>2 DEF Push
  <2>3. Tail(queue) \in Seq(Messages) /\ Head(queue)[1] \in 1 .. MaxMessages
    BY <1>1, <2>1, HeadTyped
  <2>4. Numbers(queue) = {Head(queue)[1]} \cup Numbers(Tail(queue))
    BY <1>1, <2>1, NumbersHead
  <2>5. Head(queue)[1] \notin Numbers(Tail(queue))
    <3>1. Before({Head(queue)[1]}, Numbers(Tail(queue)))
      BY <1>1, <2>1, IncreasingHead DEF OrderInv
    <3> QED
      BY <2>3, <3>1 DEF Before
  <2>6. Numbers(queue') = Numbers(Tail(queue)) \cup {m[1]}
    BY <2>2, <2>3, NumbersAppend
  <2> QED
    BY <2>1, <2>2, <2>4, <2>5, <2>6
<1>3. CASE ~(Len(queue) >= MaxQueue)
  BY <1>1, <1>3, NumbersAppend DEF Push
<1> QED
  BY <1>2, <1>3

(* What the worker takes from the batch. *)
LEMMA PassNumbers ==
  ASSUME TypeOK, OrderInv, batch # <<>>, batch' = Tail(batch)
  PROVE  /\ Head(batch) \in Messages /\ Head(batch)[1] \in Numbers(batch)
         /\ Numbers(batch') = Numbers(batch) \ {Head(batch)[1]}
         /\ Increasing(batch') /\ Before({Head(batch)[1]}, Numbers(batch'))
<1>1. batch \in Seq(Messages)
  BY DEF TypeOK
<1>2. Head(batch) \in Messages /\ Head(batch)[1] \in 1 .. MaxMessages
  BY <1>1, HeadTyped
<1>3. Numbers(batch) = {Head(batch)[1]} \cup Numbers(Tail(batch))
  BY <1>1, NumbersHead
<1>4. Increasing(Tail(batch)) /\ Before({Head(batch)[1]}, Numbers(Tail(batch)))
  BY <1>1, IncreasingHead DEF OrderInv
<1>5. Head(batch)[1] \notin Numbers(Tail(batch))
  BY <1>2, <1>4 DEF Before
<1> QED
  BY <1>2, <1>3, <1>4, <1>5

(* What is written, about to be written, queued, silenced and dropped.     *)
messages == <<written, writing, batch, queue, silenced, dropped, logged>>

LEMMA AccountKept ==
  ASSUME AccountInv, UNCHANGED messages
  PROVE  AccountInv'
<1>1. Written' = Written /\ Held' = Held /\ Holders' = Holders
  BY DEF messages, Written, Held, Holders
<1>2. Numbers(batch)' = Numbers(batch) /\ Numbers(queue)' = Numbers(queue)
  BY DEF messages
<1>3. UNCHANGED <<writing, silenced, dropped, logged>>
  BY DEF messages
<1>4. Split(Written, Held, Numbers(batch), Numbers(queue), silenced, dropped, logged)'
  BY <1>1, <1>2, <1>3 DEF AccountInv, Split, Apart
<1> QED
  BY <1>1, <1>3, <1>4 DEF AccountInv

LEMMA AccountStep ==
  ASSUME TypeOK, PlaceInv, AccountInv, OrderInv, EndInv, [Next]_vars
  PROVE  AccountInv'
<1> DEFINE B == Numbers(batch)  Q == Numbers(queue)
<1> USE LoggingAssumption
<1>1. /\ Split(Written, Held, B, Q, silenced, dropped, logged)
      /\ \A t, u \in Holders : writing[t][1] = writing[u][1] => t = u
  BY DEF AccountInv
<1>2. logged \in Nat
  BY DEF TypeOK
<1>3. CASE UNCHANGED vars
  BY <1>3, AccountKept DEF vars, history, async, messages
<1>4. ASSUME NEW t \in Threads, NEW place \in {"has", "level"}, GetLogger(t, place)
      PROVE  AccountInv'
  BY <1>4, AccountKept DEF GetLogger, history, async, messages
<1>5. ASSUME NEW t \in Threads, NEW place \in {"has", "given"}, Forget(t, place)
      PROVE  AccountInv'
  BY <1>5, AccountKept DEF Forget, history, async, messages
<1>6. ASSUME NEW t \in Threads, NEW v \in Levels, SetLevel(t, v)
      PROVE  AccountInv'
  BY <1>6, AccountKept DEF SetLevel, async, messages
<1>7. ASSUME NEW t \in Threads, NEW l \in Loggers, SetLogger(t, l)
      PROVE  AccountInv'
  BY <1>7, AccountKept DEF SetLogger, history, async, messages
<1>8. ASSUME NEW t \in Threads, NEW v \in Levels, Log(t, v)
      PROVE  AccountInv'
  <2> DEFINE m == <<logged', v>>
  <2>1. /\ pc[t] = "has" /\ logged' = logged + 1 /\ logged' \in 1 .. MaxMessages
        /\ UNCHANGED <<written, batch, queue, dropped>>
    BY <1>8, <1>2 DEF Log, async, TypeOK
  <2>2. m \in Messages /\ m[1] = logged + 1 /\ writing[t] = None
    BY <2>1 DEF Messages, PlaceInv
  <2>3. CASE writing' = [writing EXCEPT ![t] = m] /\ UNCHANGED silenced
    <3>1. /\ Holders' = Holders \cup {t} /\ t \notin Holders
          /\ Held' = Held \cup {logged + 1} /\ writing'[t][1] = logged + 1
          /\ \A u \in Holders : writing'[u] = writing[u]
      BY <2>2, <2>3, Takes
    <3>2. logged + 1 \notin Held
      BY <1>1, <1>2, SplitNew
    <3>3. \A u \in Holders : writing'[u][1] # logged + 1
      BY <3>1, <3>2 DEF Held
    <3>4. Split(Written, Held \cup {logged + 1}, B, Q, silenced, dropped, logged + 1)
      BY <1>1, <1>2, SplitNew
    <3>5. Written' = Written
      BY <2>1 DEF Written
    <3>6. Split(Written, Held, B, Q, silenced, dropped, logged)'
      BY <2>1, <2>3, <3>1, <3>4, <3>5 DEF Split, Apart
    <3> QED
      BY <1>1, <3>1, <3>3, <3>6 DEF AccountInv
  <2>4. CASE silenced' = silenced \cup {logged'} /\ UNCHANGED writing
    <3>1. Split(Written, Held, B, Q, silenced \cup {logged + 1}, dropped, logged + 1)
      BY <1>1, <1>2, SplitNew
    <3>2. Written' = Written /\ Held' = Held /\ Holders' = Holders
      BY <2>1, <2>4 DEF Written, Held, Holders
    <3>3. Split(Written, Held, B, Q, silenced, dropped, logged)'
      BY <2>1, <2>4, <3>1, <3>2 DEF Split, Apart
    <3> QED
      BY <1>1, <2>4, <3>2, <3>3 DEF AccountInv
  <2> QED
    BY <1>8, <2>3, <2>4 DEF Log, Reads
<1>9. ASSUME NEW t \in Threads \cup {Worker}, NEW l \in Loggers, NEW place,
             Writes(t, l, place), UNCHANGED async
      PROVE  AccountInv'
  <2>1. /\ t \in Holders /\ written' = [written EXCEPT ![l] = Append(@, writing[t])]
        /\ writing' = [writing EXCEPT ![t] = None]
        /\ UNCHANGED <<batch, queue, silenced, dropped, logged>>
    BY <1>9 DEF Writes, Holders, PlaceInv, async
  <2>2. writing[t] \in Messages
    BY <2>1, HeldTyped
  <2>3. Written' = Written \cup {writing[t][1]}
    BY <2>1, <2>2, WrittenAppend
  <2>4. /\ Held' = Held \ {writing[t][1]} /\ writing[t][1] \in Held
        /\ Holders' = Holders \ {t} /\ \A u \in Holders' : writing'[u] = writing[u]
    BY <2>1, Releases
  <2>5. Split(Written \cup {writing[t][1]}, Held \ {writing[t][1]}, B, Q, silenced,
              dropped, logged)
    BY <1>1, <2>4, SplitMove
  <2>6. Split(Written, Held, B, Q, silenced, dropped, logged)'
    BY <2>1, <2>3, <2>4, <2>5 DEF Split, Apart
  <2> QED
    BY <1>1, <2>4, <2>6 DEF AccountInv
<1>10. ASSUME NEW t \in Threads, NEW v \in Levels, LogAsync(t, v)
       PROVE  AccountInv'
  <2> DEFINE m == <<logged', v>>
  <2>1. /\ logged' = logged + 1 /\ logged' \in 1 .. MaxMessages /\ Push(m)
        /\ UNCHANGED <<written, writing, batch, silenced>>
    BY <1>10, <1>2 DEF LogAsync, TypeOK
  <2>2. m \in Messages /\ m[1] = logged + 1
    BY <2>1 DEF Messages
  <2>3. Written' = Written /\ Held' = Held /\ Holders' = Holders
    BY <2>1 DEF Written, Held, Holders
  <2>4. /\ Split(Written, Held, B, Q \cup {logged + 1}, silenced, dropped, logged + 1)
        /\ logged + 1 \notin Q
    BY <1>1, <1>2, SplitNew
  <2>5. CASE Numbers(queue') = Q \cup {m[1]} /\ UNCHANGED dropped
    <3>1. Split(Written, Held, B, Q, silenced, dropped, logged)'
      BY <2>1, <2>2, <2>3, <2>4, <2>5 DEF Split, Apart
    <3> QED
      BY <1>1, <2>1, <2>3, <3>1 DEF AccountInv
  <2>6. CASE /\ Head(queue)[1] \in Q
             /\ Numbers(queue') = (Q \ {Head(queue)[1]}) \cup {m[1]}
             /\ dropped' = dropped \cup {Head(queue)[1]}
    <3> DEFINE h == Head(queue)[1]
    <3>1. Split(Written, Held, B, (Q \cup {logged + 1}) \ {h}, silenced,
                dropped \cup {h}, logged + 1)
      BY <2>4, <2>6, SplitMove
    <3>2. Numbers(queue') = (Q \cup {logged + 1}) \ {h}
      BY <2>2, <2>4, <2>6
    <3>3. Split(Written, Held, B, Q, silenced, dropped, logged)'
      BY <2>1, <2>3, <2>6, <3>1, <3>2 DEF Split, Apart
    <3> QED
      BY <1>1, <2>1, <2>3, <3>3 DEF AccountInv
  <2>7. \/ Numbers(queue') = Q \cup {m[1]} /\ UNCHANGED dropped
        \/ /\ Head(queue)[1] \in Q
           /\ Numbers(queue') = (Q \ {Head(queue)[1]}) \cup {m[1]}
           /\ dropped' = dropped \cup {Head(queue)[1]}
    BY <2>1, <2>2, PushNumbers
  <2> QED
    BY <2>5, <2>6, <2>7
<1>11. ASSUME NEW t \in Threads, Keeps(t) \/ Stop(t) \/ Notify(t) \/ Join(t)
       PROVE  AccountInv'
  BY <1>11, AccountKept DEF Keeps, Stop, Notify, Join, history, async, messages
<1>12. CASE Check
  <2>1. CASE batch' = queue /\ queue' = <<>>
    <3>1. batch = <<>> /\ UNCHANGED <<written, writing, silenced, dropped, logged>>
      BY <1>12 DEF Check, EndInv, history
    <3>2. B = {} /\ Numbers(batch') = Q /\ Numbers(queue') = {}
      BY <2>1, <3>1, NumbersEmpty
    <3>3. Split(Written, Held, Q, {}, silenced, dropped, logged)
      BY <1>1, <3>2, SplitMove
    <3>4. Written' = Written /\ Held' = Held /\ Holders' = Holders
      BY <3>1 DEF Written, Held, Holders
    <3>5. Split(Written, Held, B, Q, silenced, dropped, logged)'
      BY <3>1, <3>2, <3>3, <3>4 DEF Split, Apart
    <3> QED
      BY <1>1, <3>1, <3>4, <3>5 DEF AccountInv
  <2>2. CASE UNCHANGED <<queue, batch>>
    BY <1>12, <2>2, AccountKept DEF Check, history, messages
  <2> QED
    BY <1>12, <2>1, <2>2 DEF Check
<1>13. CASE Doze \/ PassedAll
  BY <1>13, AccountKept DEF Doze, PassedAll, history, async, messages
<1>14. CASE Passes
  <2> DEFINE m == Head(batch)
  <2>1. /\ pc[Worker] = "process" /\ batch # <<>> /\ batch' = Tail(batch)
        /\ UNCHANGED <<queue, written, logged, dropped>>
    BY <1>14 DEF Passes
  <2>2. m \in Messages /\ m[1] \in B /\ Numbers(batch') = B \ {m[1]}
    BY <2>1, PassNumbers
  <2>3. writing[Worker] = None /\ Written' = Written
    BY <2>1 DEF PlaceInv, Written
  <2>4. CASE writing' = [writing EXCEPT ![Worker] = m] /\ UNCHANGED silenced
    <3>1. /\ Holders' = Holders \cup {Worker} /\ Worker \notin Holders
          /\ Held' = Held \cup {m[1]} /\ writing'[Worker] = m
          /\ \A u \in Holders : writing'[u] = writing[u]
      BY <2>2, <2>3, <2>4, Takes
    <3>2. m[1] \notin Held
      BY <1>1, <2>2 DEF Split, Apart
    <3>3. \A u \in Holders : writing'[u][1] # m[1]
      BY <3>1, <3>2 DEF Held
    <3>4. Split(Written, Held \cup {m[1]}, B \ {m[1]}, Q, silenced, dropped, logged)
      BY <1>1, <2>2, SplitMove
    <3>5. Split(Written, Held, B, Q, silenced, dropped, logged)'
      BY <2>1, <2>2, <2>3, <2>4, <3>1, <3>4 DEF Split, Apart
    <3> QED
      BY <1>1, <3>1, <3>3, <3>5 DEF AccountInv
  <2>5. CASE silenced' = silenced \cup {m[1]} /\ UNCHANGED writing
    <3>1. Split(Written, Held, B \ {m[1]}, Q, silenced \cup {m[1]}, dropped, logged)
      BY <1>1, <2>2, SplitMove
    <3>2. Held' = Held /\ Holders' = Holders
      BY <2>5 DEF Held, Holders
    <3>3. Split(Written, Held, B, Q, silenced, dropped, logged)'
      BY <2>1, <2>2, <2>3, <2>5, <3>1, <3>2 DEF Split, Apart
    <3> QED
      BY <1>1, <2>5, <3>2, <3>3 DEF AccountInv
  <2> QED
    BY <1>14, <2>4, <2>5 DEF Passes, Reads
<1>15. ASSUME NEW t \in Threads, Write(t) PROVE AccountInv'
  <2>1. ref[t] \in Loggers /\ Writes(t, ref[t], "has") /\ UNCHANGED async
    BY <1>15 DEF Write, Writes, PlaceInv, TypeOK
  <2> QED
    BY <1>9, <2>1
<1>16. CASE Writes(Worker, Async, "process") /\ UNCHANGED async
  BY <1>9, <1>16 DEF Loggers
<1>17. ASSUME NEW t \in Threads, Call(t) PROVE AccountInv'
  BY <1>4, <1>5, <1>7, <1>8, <1>10, <1>17 DEF Call
<1>18. ASSUME NEW t \in Threads, Proceed(t) PROVE AccountInv'
  BY <1>5, <1>6, <1>11, <1>15, <1>18 DEF Proceed
<1> QED
  BY <1>3, <1>12, <1>13, <1>14, <1>16, <1>17, <1>18 DEF Next, WorkerStep

-----------------------------------------------------------------------------
(* What the AsyncLogger has, and who writes to it. *)
asyncMessages == <<written, writing, batch, queue, dropped>>

LEMMA OrderKept ==
  ASSUME OrderInv, UNCHANGED <<asyncMessages, pc, ref>>
  PROVE  OrderInv'
BY DEF OrderInv, asyncMessages, WorkerHeld

(* Steps that move no message: a thread that goes elsewhere than to write. *)
LEMMA OrderGoes ==
  ASSUME OrderInv, UNCHANGED asyncMessages,
         \A t \in Threads : pc'[t] = "write" => pc[t] = "write" /\ ref'[t] = ref[t]
  PROVE  OrderInv'
BY DEF OrderInv, asyncMessages, WorkerHeld

(* Every number is one that has been given out. *)
LEMMA NumbersLogged ==
  ASSUME TypeOK, AccountInv
  PROVE  /\ Numbers(written[Async]) \subseteq 1 .. logged
         /\ WorkerHeld \subseteq 1 .. logged /\ Numbers(batch) \subseteq 1 .. logged
         /\ Numbers(queue) \subseteq 1 .. logged /\ dropped \subseteq 1 .. logged
<1>1. /\ Written \subseteq 1 .. logged /\ Held \subseteq 1 .. logged
      /\ Numbers(batch) \subseteq 1 .. logged
      /\ Numbers(queue) \subseteq 1 .. logged /\ dropped \subseteq 1 .. logged
  BY DEF AccountInv, Split
<1>2. Numbers(written[Async]) \subseteq Written
  BY DEF Written, Loggers
<1>3. WorkerHeld \subseteq Held
  BY DEF WorkerHeld, Held, Holders
<1> QED
  BY <1>1, <1>2, <1>3

LEMMA OrderStep ==
  ASSUME TypeOK, PlaceInv, AccountInv, OrderInv, EndInv, [Next]_vars
  PROVE  OrderInv'
<1> USE LoggingAssumption
<1>1. CASE UNCHANGED vars
  BY <1>1, OrderKept DEF vars, history, async, asyncMessages
<1>2. ASSUME NEW t \in Threads, NEW place \in {"has", "level"}, GetLogger(t, place)
      PROVE  OrderInv'
  BY <1>2, OrderGoes DEF GetLogger, history, async, asyncMessages, Goes, TypeOK
<1>3. ASSUME NEW t \in Threads, pc[t] \in {"has", "given", "level"}, LetsGo(t, ref[t]),
             UNCHANGED asyncMessages
      PROVE  OrderInv'
  <2>1. /\ \A u \in Threads \ {t} : pc'[u] = pc[u] /\ ref'[u] = ref[u]
        /\ pc'[t] \in {"idle", "stop"}
    BY <1>3, LetsGoTyped
  <2> QED
    BY <1>3, <2>1, OrderGoes
<1>4. ASSUME NEW t \in Threads, NEW place \in {"has", "given"}, Forget(t, place)
      PROVE  OrderInv'
  BY <1>3, <1>4 DEF Forget, history, async, asyncMessages
<1>5. ASSUME NEW t \in Threads, NEW v \in Levels, SetLevel(t, v)
      PROVE  OrderInv'
  BY <1>3, <1>5 DEF SetLevel, async, asyncMessages
<1>6. ASSUME NEW t \in Threads, NEW l \in Loggers, SetLogger(t, l)
      PROVE  OrderInv'
  <2>1. /\ UNCHANGED asyncMessages /\ pc'[t] \in {"stop", "given"}
        /\ \A u \in Threads \ {t} : pc'[u] = pc[u] /\ ref'[u] = ref[u]
    BY <1>6 DEF SetLogger, history, async, asyncMessages, TypeOK
  <2> QED
    BY <2>1, OrderGoes
<1>7. ASSUME NEW t \in Threads, NEW v \in Levels, Log(t, v)
      PROVE  OrderInv'
  <2>1. /\ UNCHANGED <<written, batch, queue, dropped, ref>> /\ ref[t] # Async
        /\ \A u \in Threads \ {t} : pc'[u] = pc[u]
        /\ writing'[Worker] = writing[Worker]
    BY <1>7 DEF Log, Reads, Goes, async, TypeOK
  <2>2. WorkerHeld' = WorkerHeld
    BY <2>1 DEF WorkerHeld
  <2> QED
    BY <2>1, <2>2 DEF OrderInv
<1>8. ASSUME NEW t \in Threads, Write(t)
      PROVE  OrderInv'
  <2>1. /\ UNCHANGED <<batch, queue, dropped, ref>> /\ pc[t] = "write"
        /\ written' = [written EXCEPT ![ref[t]] = Append(@, writing[t])]
        /\ writing' = [writing EXCEPT ![t] = None] /\ Goes(t, "has")
    BY <1>8 DEF Write, Writes, async
  <2>2. /\ written'[Async] = written[Async] /\ writing'[Worker] = writing[Worker]
        /\ \A u \in Threads : pc'[u] = "write" => pc[u] = "write"
    BY <2>1 DEF OrderInv, TypeOK, Goes, Loggers
  <2>3. WorkerHeld' = WorkerHeld
    BY <2>2 DEF WorkerHeld
  <2> QED
    BY <2>1, <2>2, <2>3 DEF OrderInv
<1>9. ASSUME NEW t \in Threads, NEW v \in Levels, LogAsync(t, v)
      PROVE  OrderInv'
  <2> DEFINE m == <<logged', v>>
  <2>1. /\ logged' = logged + 1 /\ logged' \in 1 .. MaxMessages /\ Push(m)
        /\ UNCHANGED <<written, writing, batch, ref>> /\ Wakes
    BY <1>9 DEF LogAsync, TypeOK
  <2>2. m \in Messages /\ m[1] = logged + 1 /\ logged \in Nat
    BY <2>1 DEF Messages, TypeOK
  <2>3. WorkerHeld' = WorkerHeld
    BY <2>1 DEF WorkerHeld
  <2>4. \A u \in Threads : pc'[u] = pc[u]
    BY <2>1 DEF Wakes, Goes, TypeOK
  <2>5. /\ Before(Numbers(written[Async]), {m[1]}) /\ Before(WorkerHeld, {m[1]})
        /\ Before(Numbers(batch), {m[1]}) /\ Before(Numbers(queue), {m[1]})
        /\ Before(dropped, {m[1]})
    <3>1. \A x \in 1 .. logged : x < m[1]
      BY <2>2
    <3> QED
      BY <3>1, NumbersLogged DEF Before
  <2>6. queue \in Seq(Messages)
    BY DEF TypeOK
  <2>7. CASE /\ Numbers(queue') = Numbers(queue) \cup {m[1]} /\ UNCHANGED dropped
             /\ queue' = Append(queue, m)
    <3>1. Increasing(queue')
      BY <2>2, <2>5, <2>6, <2>7, IncreasingAppend DEF OrderInv
    <3>2. /\ Before(Numbers(written[Async]), Numbers(queue'))
          /\ Before(WorkerHeld, Numbers(queue')) /\ Before(Numbers(batch), Numbers(queue'))
          /\ Before(dropped, Numbers(queue'))
      BY <2>5, <2>7 DEF OrderInv, Before
    <3> QED
      BY <2>1, <2>3, <2>4, <2>7, <3>1, <3>2 DEF OrderInv
  <2>8. CASE /\ queue # <<>> /\ queue' = Append(Tail(queue), m)
             /\ Numbers(Tail(queue)) = Numbers(queue) \ {Head(queue)[1]}
             /\ Numbers(queue') = (Numbers(queue) \ {Head(queue)[1]}) \cup {m[1]}
             /\ dropped' = dropped \cup {Head(queue)[1]}
             /\ Head(queue)[1] \in Numbers(queue)
    <3>1. /\ Tail(queue) \in Seq(Messages) /\ Increasing(Tail(queue))
          /\ Before({Head(queue)[1]}, Numbers(Tail(queue)))
      BY <2>6, <2>8, HeadTyped, IncreasingHead DEF OrderInv
    <3>2. Before(Numbers(Tail(queue)), {m[1]})
      BY <2>5, <2>8 DEF Before
    <3>3. Increasing(queue')
      BY <2>2, <2>8, <3>1, <3>2, IncreasingAppend
    <3>4. /\ Before(Numbers(written[Async]), Numbers(queue'))
          /\ Before(WorkerHeld, Numbers(queue')) /\ Before(Numbers(batch), Numbers(queue'))
      BY <2>5, <2>8 DEF OrderInv, Before
    <3>5. Before(dropped', Numbers(queue'))
      BY <2>5, <2>8, <3>1 DEF OrderInv, Before
    <3> QED
      BY <2>1, <2>3, <2>4, <2>8, <3>3, <3>4, <3>5 DEF OrderInv
  <2> QED
    BY <2>1, <2>2, <2>7, <2>8, PushNumbers
<1>10. ASSUME NEW t \in Threads, Keeps(t) \/ Stop(t) \/ Notify(t) \/ Join(t)
       PROVE  OrderInv'
  <2>1. UNCHANGED <<asyncMessages, ref>>
    BY <1>10 DEF Keeps, Stop, Notify, Join, history, async, asyncMessages
  <2>2. \A u \in Threads : pc'[u] = "write" => pc[u] = "write"
    BY <1>10 DEF Keeps, Stop, Notify, Join, Goes, TypeOK
  <2> QED
    BY <2>1, <2>2, OrderGoes
<1>11. CASE Check
  <2>1. \A u \in Threads : pc'[u] = pc[u]
    BY <1>11 DEF Check, Goes, TypeOK
  <2>2. UNCHANGED <<written, writing, dropped, ref>> /\ batch = <<>>
    BY <1>11 DEF Check, history, EndInv
  <2>3. CASE batch' = queue /\ queue' = <<>>
    <3>1. WorkerHeld' = WorkerHeld /\ WorkerHeld = {}
      BY <1>11, <2>2 DEF WorkerHeld, PlaceInv, Check
    <3>2. Numbers(queue') = {} /\ Increasing(queue') /\ Numbers(batch') = Numbers(queue)
      BY <2>3, NumbersEmpty, IncreasingEmpty
    <3> QED
      BY <2>1, <2>2, <2>3, <3>1, <3>2 DEF OrderInv, Before
  <2>4. CASE UNCHANGED <<queue, batch>>
    BY <2>1, <2>2, <2>4, OrderGoes DEF asyncMessages
  <2> QED
    BY <1>11, <2>3, <2>4 DEF Check
<1>12. CASE Doze \/ PassedAll
  <2>1. UNCHANGED <<asyncMessages, ref>>
    BY <1>12 DEF Doze, PassedAll, history, async, asyncMessages
  <2>2. \A u \in Threads : pc'[u] = pc[u]
    BY <1>12 DEF Doze, PassedAll, Goes, TypeOK
  <2> QED
    BY <2>1, <2>2, OrderGoes
<1>13. CASE Passes
  <2> DEFINE m == Head(batch)
  <2>1. /\ batch # <<>> /\ batch' = Tail(batch) /\ pc[Worker] = "process"
        /\ UNCHANGED <<queue, written, dropped, ref>>
    BY <1>13 DEF Passes
  <2>2. \A u \in Threads : pc'[u] = pc[u]
    BY <1>13 DEF Passes, Reads, Goes, TypeOK
  <2>3. /\ m[1] \in Numbers(batch) /\ Numbers(batch') = Numbers(batch) \ {m[1]}
        /\ Increasing(batch') /\ Before({m[1]}, Numbers(batch'))
    BY <2>1, PassNumbers
  <2>4. WorkerHeld = {} /\ WorkerHeld' \subseteq {m[1]}
    <3>1. writing[Worker] = None
      BY <2>1 DEF PlaceInv
    <3>2. writing'[Worker] = m \/ writing'[Worker] = None
      BY <1>13, <3>1 DEF Passes, Reads, TypeOK
    <3> QED
      BY <3>1, <3>2 DEF WorkerHeld
  <2>5. /\ Before(Numbers(written[Async]), Numbers(batch'))
        /\ Before(Numbers(batch'), Numbers(queue))
        /\ Before(Numbers(written[Async]), WorkerHeld') /\ Before(WorkerHeld', Numbers(queue))
        /\ Before(WorkerHeld', Numbers(batch'))
    BY <2>3, <2>4 DEF OrderInv, Before
  <2> QED
    BY <2>1, <2>2, <2>3, <2>5 DEF OrderInv
<1>14. CASE Writes(Worker, Async, "process") /\ UNCHANGED async
  <2> DEFINE m == writing[Worker]
  <2>1. /\ Worker \in Holders /\ written'[Async] = Append(written[Async], m)
        /\ writing' = [writing EXCEPT ![Worker] = None]
        /\ UNCHANGED <<batch, queue, dropped, ref>>
    BY <1>14 DEF Writes, Holders, PlaceInv, TypeOK, Loggers, async
  <2>2. \A u \in Threads : pc'[u] = pc[u]
    BY <1>14 DEF Writes, Goes, TypeOK
  <2>3. m \in Messages /\ written[Async] \in Seq(Messages) /\ WorkerHeld = {m[1]}
        /\ WorkerHeld' = {}
    BY <2>1, HeldTyped DEF WorkerHeld, Holders, TypeOK, Loggers
  <2>4. Numbers(written'[Async]) = Numbers(written[Async]) \cup {m[1]}
    BY <2>1, <2>3, NumbersAppend
  <2>5. Increasing(written'[Async])
    BY <2>1, <2>3, IncreasingAppend DEF OrderInv
  <2> QED
    BY <2>1, <2>2, <2>3, <2>4, <2>5 DEF OrderInv, Before
<1>15. ASSUME NEW t \in Threads, Call(t) PROVE OrderInv'
  BY <1>2, <1>4, <1>6, <1>7, <1>9, <1>15 DEF Call
<1>16. ASSUME NEW t \in Threads, Proceed(t) PROVE OrderInv'
  BY <1>4, <1>5, <1>8, <1>10, <1>16 DEF Proceed
<1> QED
  BY <1>1, <1>11, <1>12, <1>13, <1>14, <1>15, <1>16 DEF Next, WorkerStep

-----------------------------------------------------------------------------
(* The worker's end. *)

(* Steps of threads that do not touch the queue and the worker's place. *)
LEMMA EndKept ==
  ASSUME EndInv, UNCHANGED <<queue, batch>>, pc'[Worker] = pc[Worker],
         fate'[Async] = "dead" => fate[Async] = "dead"
  PROVE  EndInv'
BY DEF EndInv

LEMMA EndStep ==
  ASSUME TypeOK, PlaceInv, PointerInv, EndInv, [Next]_vars
  PROVE  EndInv'
<1> USE LoggingAssumption DEF Goes
<1>1. CASE UNCHANGED vars
  BY <1>1, EndKept DEF vars, factory, async
<1>2. ASSUME NEW t \in Threads, NEW place \in {"has", "level"}, GetLogger(t, place)
      PROVE  EndInv'
  BY <1>2, EndKept DEF GetLogger, async, TypeOK, Loggers
<1>3. ASSUME NEW t \in Threads, LetsGo(t, ref[t]), UNCHANGED async
      PROVE  EndInv'
  <2>1. pc'[Worker] = pc[Worker] /\ (fate'[Async] = "dead" => fate[Async] = "dead")
    BY <1>3 DEF LetsGo, TypeOK, Loggers
  <2> QED
    BY <1>3, <2>1, EndKept DEF async
<1>4. ASSUME NEW t \in Threads, NEW place \in {"has", "given"}, Forget(t, place)
      PROVE  EndInv'
  BY <1>3, <1>4 DEF Forget
<1>5. ASSUME NEW t \in Threads, NEW v \in Levels, SetLevel(t, v)
      PROVE  EndInv'
  BY <1>3, <1>5 DEF SetLevel
<1>6. ASSUME NEW t \in Threads, NEW l \in Loggers, SetLogger(t, l)
      PROVE  EndInv'
  <2>1. UNCHANGED <<queue, batch>>
    BY <1>6 DEF SetLogger, async
  <2>2. CASE l = Async /\ fate[l] = "unborn"
    <3>1. pc[Worker] = "none" /\ pc'[Worker] = "check" /\ fate'[Async] = "alive"
      BY <1>6, <2>2 DEF SetLogger, PlaceInv, TypeOK, Loggers
    <3> QED
      BY <2>1, <3>1 DEF EndInv
  <2>3. CASE ~(l = Async /\ fate[l] = "unborn")
    <3>1. pc'[Worker] = pc[Worker] /\ (fate'[Async] = "dead" => fate[Async] = "dead")
      BY <1>6, <2>3 DEF SetLogger, TypeOK, Loggers
    <3> QED
      BY <2>1, <3>1, EndKept
  <2> QED
    BY <2>2, <2>3
<1>7. ASSUME NEW t \in Threads, NEW v \in Levels, Log(t, v)
      PROVE  EndInv'
  BY <1>7, EndKept DEF Log, Reads, factory, async, TypeOK
<1>8. ASSUME NEW t \in Threads, Write(t)
      PROVE  EndInv'
  BY <1>8, EndKept DEF Write, Writes, factory, async, TypeOK
<1>9. ASSUME NEW t \in Threads, NEW v \in Levels, LogAsync(t, v)
      PROVE  EndInv'
  <2>1. Pointed(Async) /\ fate[Async] = "alive"
    BY <1>9 DEF LogAsync, Pointed, PointerInv, Loggers
  <2>2. pc[Worker] # "done"
    BY <2>1 DEF PointerInv, Ending
  <2>3. UNCHANGED <<batch, fate>>
    BY <1>9 DEF LogAsync, factory
  <2>4. \/ pc[Worker] = "asleep" /\ pc'[Worker] = "check"
        \/ pc'[Worker] = pc[Worker]
    BY <1>9 DEF LogAsync, Wakes, TypeOK
  <2> QED
    BY <2>1, <2>2, <2>3, <2>4 DEF EndInv
<1>10. ASSUME NEW t \in Threads, Keeps(t) \/ Stop(t)
       PROVE  EndInv'
  BY <1>10, EndKept DEF Keeps, Stop, factory, async, TypeOK
<1>11. ASSUME NEW t \in Threads, Notify(t)
       PROVE  EndInv'
  BY <1>11 DEF Notify, factory, async, TypeOK, EndInv
<1>12. ASSUME NEW t \in Threads, Join(t)
       PROVE  EndInv'
  BY <1>12 DEF Join, async, TypeOK, EndInv
<1>13. CASE Check
  BY <1>13 DEF Check, factory, TypeOK, EndInv
<1>14. CASE Doze \/ PassedAll
  BY <1>14 DEF Doze, PassedAll, factory, async, TypeOK, EndInv
<1>15. CASE Passes
  BY <1>15 DEF Passes, Reads, factory, TypeOK, EndInv
<1>16. CASE Writes(Worker, Async, "process") /\ UNCHANGED async
  BY <1>16 DEF Writes, factory, async, TypeOK, EndInv
<1>17. ASSUME NEW t \in Threads, Call(t) PROVE EndInv'
  BY <1>2, <1>4, <1>6, <1>7, <1>9, <1>17 DEF Call
<1>18. ASSUME NEW t \in Threads, Proceed(t) PROVE EndInv'
  BY <1>4, <1>5, <1>8, <1>10, <1>11, <1>12, <1>18 DEF Proceed
<1> QED
  BY <1>1, <1>13, <1>14, <1>15, <1>16, <1>17, <1>18 DEF Next, WorkerStep

-----------------------------------------------------------------------------
(* From sets to their sizes. *)

LEMMA DisjointSizes ==
  ASSUME NEW A, NEW B, IsFiniteSet(A), IsFiniteSet(B), Apart(A, B)
  PROVE  /\ IsFiniteSet(A \cup B)
         /\ Cardinality(A \cup B) = Cardinality(A) + Cardinality(B)
         /\ Cardinality(A) \in Nat /\ Cardinality(B) \in Nat
<1>1. Cardinality(A \cap B) = 0
  BY FS_EmptySet DEF Apart
<1>2. Cardinality(A) \in Nat /\ Cardinality(B) \in Nat
  BY FS_CardinalityType
<1>3. /\ IsFiniteSet(A \cup B)
      /\ Cardinality(A \cup B) = Cardinality(A) + Cardinality(B) - Cardinality(A \cap B)
  BY FS_Union
<1> QED
  BY <1>1, <1>2, <1>3

LEMMA SplitSizes ==
  ASSUME TypeOK, AccountInv
  PROVE  LET BQ == Numbers(batch) \cup Numbers(queue)
         IN  /\ IsFiniteSet(Held) /\ IsFiniteSet(BQ)
             /\ logged = Cardinality(Written) + Cardinality(Held) + Cardinality(BQ)
                           + Cardinality(silenced) + Cardinality(dropped)
             /\ Cardinality(Written) \in Nat /\ Cardinality(Held) \in Nat
             /\ Cardinality(BQ) \in Nat
             /\ Cardinality(silenced) \in Nat /\ Cardinality(dropped) \in Nat
<1> DEFINE W == Written  H == Held  B == Numbers(batch)  Q == Numbers(queue)
           S == silenced  D == dropped  n == logged
<1>0. n \in Nat /\ Split(W, H, B, Q, S, D, n)
  BY DEF TypeOK, AccountInv
<1> HIDE DEF W, H, B, Q, S, D, n
<1>1. IsFiniteSet(1 .. n) /\ Cardinality(1 .. n) = n
  BY <1>0, FS_Interval
<1>2. \A X \in SUBSET (1 .. n) : IsFiniteSet(X)
  BY <1>1, FS_Subset
<1>3. W \cup H \cup B \cup Q \cup S \cup D = 1 .. n
  BY <1>0 DEF Split
<1>4. /\ IsFiniteSet(W) /\ IsFiniteSet(H) /\ IsFiniteSet(B) /\ IsFiniteSet(Q)
      /\ IsFiniteSet(B \cup Q) /\ IsFiniteSet(S) /\ IsFiniteSet(D)
  BY <1>2, <1>3
<1>5. /\ Apart(W, H) /\ Apart(W \cup H, B \cup Q) /\ Apart(W \cup H \cup (B \cup Q), S)
      /\ Apart(W \cup H \cup (B \cup Q) \cup S, D)
  BY <1>0 DEF Split, Apart
<1>6. /\ IsFiniteSet(W \cup H)
      /\ Cardinality(W \cup H) = Cardinality(W) + Cardinality(H)
      /\ Cardinality(W) \in Nat /\ Cardinality(H) \in Nat
  BY <1>4, <1>5, DisjointSizes
<1>7. /\ IsFiniteSet(W \cup H \cup (B \cup Q)) /\ Cardinality(B \cup Q) \in Nat
      /\ Cardinality(W \cup H \cup (B \cup Q)) = Cardinality(W \cup H) + Cardinality(B \cup Q)
  BY <1>4, <1>5, <1>6, DisjointSizes
<1>8. /\ IsFiniteSet(W \cup H \cup (B \cup Q) \cup S) /\ Cardinality(S) \in Nat
      /\ Cardinality(W \cup H \cup (B \cup Q) \cup S)
            = Cardinality(W \cup H \cup (B \cup Q)) + Cardinality(S)
  BY <1>4, <1>5, <1>7, DisjointSizes
<1>9. /\ Cardinality(W \cup H \cup (B \cup Q) \cup S \cup D)
            = Cardinality(W \cup H \cup (B \cup Q) \cup S) + Cardinality(D)
      /\ Cardinality(D) \in Nat
  BY <1>4, <1>5, <1>8, DisjointSizes
<1>10. W \cup H \cup (B \cup Q) \cup S \cup D = 1 .. n
  BY <1>3
<1>11. /\ IsFiniteSet(H) /\ IsFiniteSet(B \cup Q)
       /\ n = Cardinality(W) + Cardinality(H) + Cardinality(B \cup Q)
               + Cardinality(S) + Cardinality(D)
  BY <1>1, <1>4, <1>6, <1>7, <1>8, <1>9, <1>10
<1> QED
  BY <1>6, <1>7, <1>8, <1>9, <1>11 DEF W, H, B, Q, S, D, n

(* As many threads are about to write as there are messages they hold. *)
Busy == {t \in Threads : writing[t] # None}

LEMMA BusySize ==
  ASSUME TypeOK, AccountInv
  PROVE  /\ Cardinality(Held) = Cardinality(Busy) + Cardinality(WorkerHeld)
         /\ Cardinality(Busy) \in Nat /\ Cardinality(WorkerHeld) \in Nat
<1> DEFINE R == {writing[t][1] : t \in Busy}
           f == [t \in Busy |-> writing[t][1]]
<1> USE LoggingAssumption
<1>1. IsFiniteSet(Held)
  BY SplitSizes
<1>2. Busy \subseteq Holders /\ (Worker \in Holders <=> writing[Worker] # None)
      /\ Holders \subseteq Busy \cup {Worker} /\ Worker \notin Busy
  BY DEF Busy, Holders
<1>3. Held = R \cup WorkerHeld
  BY <1>2 DEF Held, WorkerHeld
<1>4. Apart(R, WorkerHeld)
  BY <1>2 DEF Apart, WorkerHeld, AccountInv
<1>5. IsFiniteSet(R) /\ IsFiniteSet(WorkerHeld)
  BY <1>1, <1>3, FS_Subset
<1>6. /\ Cardinality(Held) = Cardinality(R) + Cardinality(WorkerHeld)
      /\ Cardinality(WorkerHeld) \in Nat
  BY <1>3, <1>4, <1>5, DisjointSizes
<1>7. f \in Injection(Busy, R) /\ f \in Surjection(Busy, R)
  <2>1. f \in [Busy -> R]
    OBVIOUS
  <2>2. \A a, b \in Busy : f[a] = f[b] => a = b
    BY <1>2 DEF AccountInv
  <2>3. \A r \in R : \E t \in Busy : f[t] = r
    OBVIOUS
  <2> QED
    BY <2>1, <2>2, <2>3 DEF Injection, IsInjective, Surjection
<1>8. IsFiniteSet(Busy) /\ Cardinality(Busy) = Cardinality(R)
  BY <1>5, <1>7, FS_Injection
<1> QED
  BY <1>6, <1>8, FS_CardinalityType

(* The sum of NothingIsLost. *)
LEMMA AccountAddsUp ==
  ASSUME TypeOK, AccountInv
  PROVE  logged = Cardinality(Written) + Cardinality(Waiting) + Cardinality(silenced)
                    + Cardinality(dropped) + Cardinality(Busy)
<1> DEFINE BQ == Numbers(batch) \cup Numbers(queue)
<1>1. /\ IsFiniteSet(Held) /\ IsFiniteSet(BQ)
      /\ logged = Cardinality(Written) + Cardinality(Held) + Cardinality(BQ)
                    + Cardinality(silenced) + Cardinality(dropped)
      /\ Cardinality(Written) \in Nat /\ Cardinality(Held) \in Nat
      /\ Cardinality(BQ) \in Nat
      /\ Cardinality(silenced) \in Nat /\ Cardinality(dropped) \in Nat
  BY SplitSizes
<1>2. WorkerHeld \subseteq Held
  BY DEF WorkerHeld, Held, Holders
<1>3. /\ Cardinality(Held) = Cardinality(Busy) + Cardinality(WorkerHeld)
      /\ Cardinality(Busy) \in Nat /\ Cardinality(WorkerHeld) \in Nat
  BY BusySize
<1>4. IsFiniteSet(WorkerHeld)
  BY <1>1, <1>2, FS_Subset
<1>5. Apart(BQ, WorkerHeld)
  BY <1>2 DEF AccountInv, Split, Apart
<1>6. Waiting = BQ \cup WorkerHeld
  BY DEF Waiting, WorkerHeld
<1>7. Cardinality(Waiting) = Cardinality(BQ) + Cardinality(WorkerHeld)
  BY <1>1, <1>4, <1>5, <1>6, DisjointSizes
<1> QED
  BY <1>1, <1>3, <1>7

-----------------------------------------------------------------------------
MessageInv == TypeOK /\ PlaceInv /\ PointerInv /\ AccountInv /\ OrderInv /\ EndInv

LEMMA InitMessages == Init => MessageInv
<1> SUFFICES ASSUME Init PROVE MessageInv
  OBVIOUS
<1> USE LoggingAssumption
<1>1. TypeOK /\ PlaceInv
  BY InitTyped
<1>2. PointerInv
  BY DEF Init, PointerInv, Pointed, Ending, Loggers
<1>3. Written = {} /\ Holders = {} /\ Held = {} /\ WorkerHeld = {}
      /\ Numbers(batch) = {} /\ Numbers(queue) = {} /\ Numbers(written[Async]) = {}
  <2>1. \A l \in Loggers : Numbers(written[l]) = {}
    BY NumbersEmpty DEF Init
  <2>2. Holders = {} /\ WorkerHeld = {}
    BY DEF Init, Holders, WorkerHeld
  <2> QED
    BY <2>1, <2>2, NumbersEmpty DEF Init, Written, Held, Loggers
<1>4. AccountInv
  <2>1. 1 .. 0 = {}
    OBVIOUS
  <2> QED
    BY <1>3, <2>1 DEF Init, AccountInv, Split, Apart
<1>5. OrderInv
  <2>1. \A t \in Threads : pc[t] # "write"
    BY DEF Init
  <2>2. Increasing(written[Async]) /\ Increasing(batch) /\ Increasing(queue)
    BY IncreasingEmpty DEF Init, Loggers
  <2> QED
    BY <1>3, <2>1, <2>2 DEF Init, OrderInv, Before
<1>6. EndInv
  BY DEF Init, EndInv, Loggers
<1> QED
  BY <1>1, <1>2, <1>4, <1>5, <1>6 DEF MessageInv

LEMMA MessageStep == MessageInv /\ [Next]_vars => MessageInv'
BY TypeStep, PointerStep, AccountStep, OrderStep, EndStep DEF MessageInv

(* Every message given to a logger is written, waits to be, was below the  *)
(* level or was dropped by a full queue, and is counted once; when the     *)
(* AsyncLogger is gone nothing waits in it.                                *)
THEOREM MessagesCorrect == Spec => []NothingIsLost
<1>1. ASSUME MessageInv PROVE NothingIsLost
  <2>1. logged = Cardinality(Written) + Cardinality(Waiting) + Cardinality(silenced)
                   + Cardinality(dropped) + Cardinality(Busy)
    BY <1>1, AccountAddsUp DEF MessageInv
  <2>2. ASSUME fate[Async] = "dead"
        PROVE  Waiting = {} /\ \A t \in Threads : ref[t] # Async
    <3>1. queue = <<>> /\ batch = <<>> /\ pc[Worker] = "done"
      BY <1>1, <2>2 DEF MessageInv, EndInv
    <3>2. writing[Worker] = None
      BY <1>1, <3>1 DEF MessageInv, PlaceInv
    <3>3. \A t \in Threads : ref[t] # Async
      BY <1>1, <2>2 DEF MessageInv, PointerInv, Pointed, Loggers
    <3> QED
      BY <3>1, <3>2, <3>3, NumbersEmpty DEF Waiting
  <2> QED
    BY <2>1, <2>2 DEF NothingIsLost, Written, Busy
<1> QED
  BY <1>1, InitMessages, MessageStep, PTL DEF Spec

(* The AsyncLogger writes in the order in which its queue took the         *)
(* messages, and a full queue drops its oldest.                            *)
THEOREM OrderCorrect == Spec => []AsyncKeepsOrder
<1>1. ASSUME MessageInv PROVE AsyncKeepsOrder
  <2> DEFINE W == written[Async]
  <2>1. W \in Seq(Messages) /\ batch \in Seq(Messages) /\ queue \in Seq(Messages)
    BY <1>1 DEF MessageInv, TypeOK, Loggers
  <2>2. /\ Increasing(W) /\ Increasing(batch) /\ Increasing(queue)
        /\ Before(Numbers(W), Numbers(batch)) /\ Before(Numbers(W), Numbers(queue))
        /\ Before(Numbers(batch), Numbers(queue)) /\ Before(dropped, Numbers(queue))
    BY <1>1 DEF MessageInv, OrderInv
  <2>3. Increasing(W \o batch) /\ Numbers(W \o batch) = Numbers(W) \cup Numbers(batch)
    BY <2>1, <2>2, IncreasingConcat
  <2>4. W \o batch \in Seq(Messages)
    BY <2>1
  <2>5. Before(Numbers(W \o batch), Numbers(queue))
    BY <2>2, <2>3 DEF Before
  <2>6. Increasing((W \o batch) \o queue)
    BY <2>1, <2>2, <2>3, <2>4, <2>5, IncreasingConcat
  <2> QED
    BY <2>2, <2>6 DEF AsyncKeepsOrder, Before
<1> QED
  BY <1>1, InitMessages, MessageStep, PTL DEF Spec

=============================================================================
