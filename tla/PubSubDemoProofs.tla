--------------------------- MODULE PubSubDemoProofs ---------------------------
(***************************************************************************)
(* Proofs about the demonstrations of publish and subscribe, for any       *)
(* channels and numbers of messages, subscribers and failures.  A          *)
(* demonstration is a sequence of statements of one shape: subscriptions,  *)
(* a wait, messages, a wait, and unsubscriptions.                          *)
(***************************************************************************)
EXTENDS PubSubDemoProperties, RedisChannelProofs, SequenceTheorems

Statements == [do : {"subscribe", "publish", "notify", "wait", "unsubscribe"},
               channel : Channels \cup {Every}]

(* n subscriptions, m statements of which the first is a wait and the rest *)
(* messages on channels subscribed to, a wait, and an unsubscription from  *)
(* each of the channels.                                                   *)
Shaped(s, n, m) ==
  /\ s \in Seq(Statements) /\ n \in Nat /\ m \in Nat \ {0} /\ n + m + 1 <= Len(s)
  /\ \A i \in 1 .. Len(s) :
       /\ s[i].do = "subscribe" <=> i <= n
       /\ s[i].do \in {"publish", "notify"} <=> n + 1 < i /\ i <= n + m
       /\ s[i].do = "wait" <=> i \in {n + 1, n + m + 1}
       /\ s[i].do # "wait" => s[i].channel \in Channels
       /\ i <= n => \E j \in 1 .. Len(s) : s[j] = Off(s[i].channel)
       /\ n + 1 < i /\ i <= n + m => \E j \in 1 .. n : s[j].channel = s[i].channel

Ons  == <<1, Len(Shop), Subscribers, 1>>
Msgs == <<Events + 1, Len(Workflow) + 1, Broadcasts + 1, Operations + 1>>

(* The demonstration main is in, how many of its statements main has begun, *)
(* the last of them, and the place of the second wait.                     *)
Plan   == Demonstrations[frame]
At     == Len(Plan) - Len(left)
Now    == Plan[At]
WaitAt == Ons[frame] + Msgs[frame] + 1

PlanInv ==
  /\ frame \in 1 .. 5 /\ left \in Seq(Statements)
  /\ Finished => left = <<>>
  /\ ~Finished => /\ Len(left) <= Len(Plan)
                  /\ \A i \in 1 .. Len(left) : left[i] = Plan[At + i]

Adding   == {"check", "recheck", "add", "create", "register", "resubscribing",
             "resubscribe", "join", "start", "reset"}
Removing == {"find", "remove", "erase", "empty", "halt"}
Leaving  == {"find", "empty", "halt", "stop", "removing", "removeAll", "clear",
             "lastJoin", "gone"}

MainInv ==
  /\ Broken <=> pc[Main] = "broken"
  /\ ~Finished =>
       /\ arg[Main] # AtExit
       /\ \/ pc[Main] \in {"idle", "broken"}
          \/ pc[Main] \in Adding \cup {"insert"} /\ At \in 1 .. Ons[frame] /\ Now = On(arg[Main])
          \/ /\ pc[Main] = "publish" /\ At > Ons[frame] + 1 /\ At < WaitAt
             /\ Now.channel = arg[Main]
          \/ pc[Main] \in Removing /\ At > WaitAt /\ Now = Off(arg[Main])
  /\ Finished =>
       pc[Main] \in {"idle", "broken"} \/ (pc[Main] \in Leaving /\ arg[Main] = AtExit)
  /\ subscriber = "bare" => pc[Main] \in {"register", "reset", "broken"}
  /\ cbMutex # NoThread => pc[Main] \in {"resubscribe", "removeAll", "broken"}

(* Where a callback of this demonstration is, and that it will be removed. *)
Tags == {<<>>} \cup ((1 .. 4) \X Nat)
EntryInv ==
  /\ owner \in [Channels -> Tags]
  /\ ~Finished => \A c \in callbacks : owner[c] # <<>> /\ owner[c][1] = frame
  /\ ~Finished /\ ~Broken =>
       /\ \A c \in callbacks :
            \/ \E j \in At + 1 .. Len(Plan) : Plan[j] = Off(c)
            \/ pc[Main] \in {"find", "remove", "erase"} /\ arg[Main] = c
       /\ At <= WaitAt =>
            \A j \in 1 .. Ons[frame] :
              j <= At => \/ Plan[j].channel \in callbacks
                         \/ pc[Main] = "insert" /\ arg[Main] = Plan[j].channel

(* The callbacks of the third demonstration. *)
Waiting == executing \cup {pending[i] : i \in DOMAIN pending}
Told == frame > 3 \/ (frame = 3 /\ At >= Subscribers /\ pc[Main] # "insert")
HearInv ==
  /\ \A c \in Channels : owner[c] # <<>> /\ owner[c][1] = 3 => c = Broadcast
  /\ frame < 3 => owner[Broadcast] = <<>>
  /\ ~Broken =>
       /\ Told => owner[Broadcast] \in {<<>>, <<3, Subscribers>>}
       /\ \/ \E i \in 1 .. Len(socket) : socket[i][1] = Broadcast
          \/ ~Finished /\ pc[Main] = "publish" /\ arg[Main] = Broadcast
          => Told
  /\ \A n \in Waiting \cup done :
       callee[n] # <<>> /\ callee[n][1] = 3 => callee[n][2] = Subscribers

PoolInv ==
  /\ pending \in Seq(1 .. MaxMessages)
  /\ executing \subseteq 1 .. MaxMessages /\ done \subseteq 1 .. MaxMessages
  /\ callee \in [1 .. MaxMessages -> Tags] /\ hurried \in BOOLEAN

(* Main waited long enough: a message is under way only from the first     *)
(* publish to the wait, and it and its task belong to this demonstration.  *)
Dry == socket = <<>> /\ pending = <<>> /\ executing = {}
DryInv ==
  Patient =>
    \/ Dry
    \/ ~Finished /\ pc[Main] \in {"idle", "publish"} /\ At >= Ons[frame] /\ At < WaitAt

(* And from the first wait to the second, the server knows what main has   *)
(* subscribed to.                                                          *)
KnownInv ==
  Patient /\ ~Finished /\ At > Ons[frame] /\ At <= WaitAt => Established

TaskInv ==
  Patient =>
    /\ first \in 0 .. published
    /\ \A i \in 1 .. Len(socket) : socket[i][2] > first /\ socket[i][1] \in callbacks
    /\ \A n \in Waiting \cup done :
         /\ n <= published /\ callee[n] # <<>> /\ callee[n][1] <= frame
         /\ callee[n][1] = frame => n > first
    /\ \A n \in Waiting : callee[n][1] = frame
    /\ ~Finished =>
         \A n \in first + 1 .. published :
           \/ \E i \in 1 .. Len(socket) : socket[i][2] = n
           \/ n \in Waiting \cup done /\ callee[n][1] = frame

-----------------------------------------------------------------------------
(* The statements of the demonstrations. *)

LEMMA ShapeOf ==
  ASSUME NEW a \in Seq(Statements), NEW b \in Seq(Statements), NEW e \in Seq(Statements),
         NEW s \in Seq(Statements), Len(s) = Len(a) + Len(b) + 1 + Len(e),
         \A i \in 1 .. Len(a) : s[i] = a[i],
         \A i \in 1 .. Len(b) : s[Len(a) + i] = b[i],
         s[Len(a) + Len(b) + 1] = Wait,
         \A i \in 1 .. Len(e) : s[Len(a) + Len(b) + 1 + i] = e[i],
         \A i \in 1 .. Len(a) : /\ a[i].do = "subscribe" /\ a[i].channel \in Channels
                                /\ \E j \in 1 .. Len(e) : e[j] = Off(a[i].channel),
         Len(b) > 0, b[1] = Wait,
         \A i \in 2 .. Len(b) : /\ b[i].do \in {"publish", "notify"}
                                /\ b[i].channel \in Channels
                                /\ \E j \in 1 .. Len(a) : a[j].channel = b[i].channel,
         \A i \in 1 .. Len(e) : e[i].do = "unsubscribe" /\ e[i].channel \in Channels
  PROVE  Shaped(s, Len(a), Len(b))
<1> DEFINE n == Len(a)
           m == Len(b)
           k == Len(e)
<1>1. n \in Nat /\ m \in Nat \ {0} /\ k \in Nat
  OBVIOUS
<1>2. ASSUME NEW i \in 1 .. Len(s)
      PROVE  /\ s[i].do = "subscribe" <=> i <= n
             /\ s[i].do \in {"publish", "notify"} <=> n + 1 < i /\ i <= n + m
             /\ s[i].do = "wait" <=> i \in {n + 1, n + m + 1}
             /\ s[i].do # "wait" => s[i].channel \in Channels
             /\ i <= n => \E j \in 1 .. Len(s) : s[j] = Off(s[i].channel)
             /\ n + 1 < i /\ i <= n + m => \E j \in 1 .. n : s[j].channel = s[i].channel
  <2>1. CASE i <= n
    <3>1. i \in 1 .. n /\ s[i] = a[i]
      BY <1>1, <1>2, <2>1
    <3>2. PICK j \in 1 .. k : e[j] = Off(a[i].channel)
      BY <3>1
    <3>3. n + m + 1 + j \in 1 .. Len(s) /\ s[n + m + 1 + j] = Off(s[i].channel)
      BY <1>1, <3>1, <3>2
    <3>4. \E h \in 1 .. Len(s) : s[h] = Off(s[i].channel)
      BY <3>3
    <3>5. ~(n + 1 < i) /\ i # n + m + 1 /\ i # n + 1
      BY <1>1, <2>1
    <3>6. s[i].do = "subscribe" /\ s[i].channel \in Channels
      BY <3>1
    <3> QED
      BY <2>1, <3>4, <3>5, <3>6
  <2>2. CASE n + 1 < i /\ i <= n + m
    <3>1. i - n \in 2 .. m /\ s[i] = b[i - n]
      <4>1. i - n \in 2 .. m /\ i - n \in 1 .. m /\ n + (i - n) = i
        BY <1>1, <1>2, <2>2
      <4> QED
        BY <4>1
    <3>2. PICK j \in 1 .. n : a[j].channel = b[i - n].channel
      BY <3>1
    <3>3. s[j].channel = s[i].channel
      BY <3>1, <3>2
    <3>4. \E h \in 1 .. n : s[h].channel = s[i].channel
      BY <3>3
    <3>5. ~(i <= n) /\ i # n + m + 1 /\ i # n + 1
      BY <1>1, <2>2
    <3>6. s[i].do \in {"publish", "notify"} /\ s[i].channel \in Channels
      BY <3>1
    <3> QED
      BY <2>2, <3>4, <3>5, <3>6
  <2>3. CASE i = n + m + 1
    BY <1>1, <2>3 DEF Wait
  <2>5. CASE i = n + 1
    <3>1. s[n + 1] = Wait
      BY <1>1
    <3> QED
      BY <1>1, <2>5, <3>1 DEF Wait
  <2>4. CASE i > n + m + 1
    <3>1. i - (n + m + 1) \in 1 .. k /\ s[i] = e[i - (n + m + 1)]
      <4>1. i - (n + m + 1) \in 1 .. k /\ n + m + 1 + (i - (n + m + 1)) = i
        BY <1>1, <1>2, <2>4
      <4> QED
        BY <4>1
    <3> QED
      BY <1>1, <2>4, <3>1
  <2>6. \/ i <= n \/ (n + 1 < i /\ i <= n + m) \/ i = n + m + 1 \/ i = n + 1
        \/ i > n + m + 1
    <3>1. i \in Nat
      BY <1>2
    <3> HIDE DEF n, m
    <3> QED
      BY <1>1, <3>1
  <2> QED
    BY <2>1, <2>2, <2>3, <2>4, <2>5, <2>6
<1> QED
  BY <1>1, <1>2 DEF Shaped

LEMMA Joined ==
  ASSUME NEW a \in Seq(Statements), NEW b \in Seq(Statements)
  PROVE  /\ a \o b \in Seq(Statements) /\ Len(a \o b) = Len(a) + Len(b)
         /\ \A i \in 1 .. Len(a) : (a \o b)[i] = a[i]
         /\ \A i \in 1 .. Len(b) : (a \o b)[Len(a) + i] = b[i]
<1>1. a \o b \in Seq(Statements)
  OBVIOUS
<1>2. Len(a \o b) = Len(a) + Len(b)
  OBVIOUS
<1>3. \A i \in 1 .. Len(a) : (a \o b)[i] = a[i]
  OBVIOUS
<1>4. \A i \in 1 .. Len(b) : (a \o b)[Len(a) + i] = b[i]
  OBVIOUS
<1> QED
  BY <1>1, <1>2, <1>3, <1>4

LEMMA ShapeJoined ==
  ASSUME NEW a \in Seq(Statements), NEW b \in Seq(Statements), NEW e \in Seq(Statements),
         \A i \in 1 .. Len(a) : /\ a[i].do = "subscribe" /\ a[i].channel \in Channels
                                /\ \E j \in 1 .. Len(e) : e[j] = Off(a[i].channel),
         Len(b) > 0, b[1] = Wait,
         \A i \in 2 .. Len(b) : /\ b[i].do \in {"publish", "notify"}
                                /\ b[i].channel \in Channels
                                /\ \E j \in 1 .. Len(a) : a[j].channel = b[i].channel,
         \A i \in 1 .. Len(e) : e[i].do = "unsubscribe" /\ e[i].channel \in Channels
  PROVE  Shaped(((a \o b) \o <<Wait>>) \o e, Len(a), Len(b))
<1> DEFINE ab == a \o b
           w == <<Wait>>
           abw == ab \o w
           s == abw \o e
<1>1. w \in Seq(Statements) /\ Len(w) = 1 /\ w[1] = Wait
  BY DEF Wait, Statements
<1>2. /\ ab \in Seq(Statements) /\ Len(ab) = Len(a) + Len(b)
      /\ \A i \in 1 .. Len(a) : ab[i] = a[i]
      /\ \A i \in 1 .. Len(b) : ab[Len(a) + i] = b[i]
  BY Joined
<1> HIDE DEF w, ab
<1>3. /\ abw \in Seq(Statements) /\ Len(abw) = Len(ab) + 1
      /\ \A i \in 1 .. Len(ab) : abw[i] = ab[i]
      /\ abw[Len(ab) + 1] = Wait
  <2>1. /\ abw \in Seq(Statements) /\ Len(abw) = Len(ab) + Len(w)
        /\ \A i \in 1 .. Len(ab) : abw[i] = ab[i]
        /\ \A i \in 1 .. Len(w) : abw[Len(ab) + i] = w[i]
    BY <1>1, <1>2, Joined
  <2> QED
    BY <1>1, <2>1
<1> HIDE DEF abw
<1>4. /\ s \in Seq(Statements) /\ Len(s) = Len(abw) + Len(e)
      /\ \A i \in 1 .. Len(abw) : s[i] = abw[i]
      /\ \A i \in 1 .. Len(e) : s[Len(abw) + i] = e[i]
  BY <1>3, Joined
<1> HIDE DEF s
<1>5. Len(a) \in Nat /\ Len(b) \in Nat /\ Len(e) \in Nat
  OBVIOUS
<1>6. Len(s) = Len(a) + Len(b) + 1 + Len(e)
  BY <1>2, <1>3, <1>4, <1>5
<1>7. ASSUME NEW i \in 1 .. Len(a) PROVE s[i] = a[i]
  <2>1. i \in 1 .. Len(ab) /\ i \in 1 .. Len(abw)
    BY <1>2, <1>3, <1>5
  <2> QED
    BY <1>2, <1>3, <1>4, <2>1
<1>8. ASSUME NEW i \in 1 .. Len(b) PROVE s[Len(a) + i] = b[i]
  <2>1. Len(a) + i \in 1 .. Len(ab) /\ Len(a) + i \in 1 .. Len(abw)
    BY <1>2, <1>3, <1>5
  <2> QED
    BY <1>2, <1>3, <1>4, <2>1
<1>9. s[Len(a) + Len(b) + 1] = Wait
  <2>1. Len(a) + Len(b) + 1 = Len(ab) + 1 /\ Len(ab) + 1 \in 1 .. Len(abw)
    BY <1>2, <1>3, <1>5
  <2> QED
    BY <1>3, <1>4, <2>1
<1>10. ASSUME NEW i \in 1 .. Len(e) PROVE s[Len(a) + Len(b) + 1 + i] = e[i]
  <2>1. Len(a) + Len(b) + 1 = Len(abw)
    BY <1>2, <1>3, <1>5
  <2> QED
    BY <1>4, <2>1
<1>11. Shaped(s, Len(a), Len(b))
  BY <1>4, <1>6, <1>7, <1>8, <1>9, <1>10, ShapeOf
<1> QED
  BY <1>11 DEF s, abw, ab, w

(* The way the demonstrations are put together: a of subscriptions, c of   *)
(* messages, e of unsubscriptions.                                         *)
LEMMA ShapeTogether ==
  ASSUME NEW a \in Seq(Statements), NEW c \in Seq(Statements), NEW e \in Seq(Statements),
         \A i \in 1 .. Len(a) : /\ a[i].do = "subscribe" /\ a[i].channel \in Channels
                                /\ \E j \in 1 .. Len(e) : e[j] = Off(a[i].channel),
         \A i \in 1 .. Len(c) : /\ c[i].do \in {"publish", "notify"}
                                /\ c[i].channel \in Channels
                                /\ \E j \in 1 .. Len(a) : a[j].channel = c[i].channel,
         \A i \in 1 .. Len(e) : e[i].do = "unsubscribe" /\ e[i].channel \in Channels
  PROVE  Shaped(((a \o (<<Wait>> \o c)) \o <<Wait>>) \o e, Len(a), Len(c) + 1)
<1> DEFINE w == <<Wait>>
           b == w \o c
<1>1. w \in Seq(Statements) /\ Len(w) = 1 /\ w[1] = Wait
  BY DEF Wait, Statements
<1> HIDE DEF w
<1>2. /\ b \in Seq(Statements) /\ Len(b) = Len(c) + 1 /\ b[1] = Wait
      /\ \A i \in 1 .. Len(c) : b[i + 1] = c[i]
  <2>1. /\ b \in Seq(Statements) /\ Len(b) = Len(w) + Len(c)
        /\ \A i \in 1 .. Len(w) : b[i] = w[i]
        /\ \A i \in 1 .. Len(c) : b[Len(w) + i] = c[i]
    BY <1>1, Joined
  <2> HIDE DEF b
  <2>2. \A i \in 1 .. Len(c) : Len(w) + i = i + 1
    BY <1>1
  <2>3. Len(c) \in Nat
    OBVIOUS
  <2> QED
    BY <1>1, <2>1, <2>2, <2>3
<1> HIDE DEF b
<1>3. Len(b) > 0
  BY <1>2
<1>4. ASSUME NEW i \in 2 .. Len(b)
      PROVE  /\ b[i].do \in {"publish", "notify"} /\ b[i].channel \in Channels
             /\ \E j \in 1 .. Len(a) : a[j].channel = b[i].channel
  <2>1. i - 1 \in 1 .. Len(c) /\ (i - 1) + 1 = i
    BY <1>2
  <2>2. b[i] = c[i - 1]
    BY <1>2, <2>1
  <2> QED
    BY <2>1, <2>2
<1>5. Shaped(((a \o b) \o w) \o e, Len(a), Len(b))
  BY <1>2, <1>3, <1>4, ShapeJoined DEF w
<1> QED
  BY <1>2, <1>5 DEF b, w

LEMMA ShapeOfOne ==
  ASSUME NEW c \in Channels, NEW b \in Seq(Statements),
         \A i \in 1 .. Len(b) : b[i].do \in {"publish", "notify"} /\ b[i].channel = c
  PROVE  Shaped(((<<On(c)>> \o (<<Wait>> \o b)) \o <<Wait>>) \o <<Off(c)>>, 1, Len(b) + 1)
<1> DEFINE a == <<On(c)>>
           e == <<Off(c)>>
<1>1. /\ On(c) \in Statements /\ Off(c) \in Statements
      /\ On(c).do = "subscribe" /\ On(c).channel = c /\ Off(c).do = "unsubscribe"
      /\ Off(c).channel = c
  BY DEF On, Off, Statements
<1>2. /\ a \in Seq(Statements) /\ Len(a) = 1 /\ a[1] = On(c)
      /\ e \in Seq(Statements) /\ Len(e) = 1 /\ e[1] = Off(c)
  BY <1>1
<1>3. /\ \A i \in 1 .. Len(a) : i = 1
      /\ \A i \in 1 .. Len(e) : i = 1
      /\ 1 \in 1 .. Len(a) /\ 1 \in 1 .. Len(e)
  BY <1>2
<1> HIDE DEF a, e
<1>4. \A i \in 1 .. Len(a) : /\ a[i].do = "subscribe" /\ a[i].channel \in Channels
                             /\ \E j \in 1 .. Len(e) : e[j] = Off(a[i].channel)
  BY <1>1, <1>2, <1>3
<1>5. \A i \in 1 .. Len(b) : /\ b[i].do \in {"publish", "notify"}
                             /\ b[i].channel \in Channels
                             /\ \E j \in 1 .. Len(a) : a[j].channel = b[i].channel
  BY <1>1, <1>2, <1>3
<1>6. \A i \in 1 .. Len(e) : e[i].do = "unsubscribe" /\ e[i].channel \in Channels
  BY <1>1, <1>2, <1>3
<1>7. Shaped(((a \o (<<Wait>> \o b)) \o <<Wait>>) \o e, Len(a), Len(b) + 1)
  BY <1>2, <1>4, <1>5, <1>6, ShapeTogether
<1> QED
  BY <1>2, <1>7 DEF a, e

LEMMA Listed ==
  ASSUME NEW S, NEW n \in Nat, NEW f \in [1 .. n -> S]
  PROVE  f \in Seq(S) /\ Len(f) = n
<1>1. f \in Seq(S)
  BY SeqDef
<1>2. Len(f) \in Nat /\ DOMAIN f = 1 .. Len(f) /\ DOMAIN f = 1 .. n
  BY <1>1, LenProperties
<1> QED
  BY <1>1, <1>2

LEMMA Repeated ==
  ASSUME NEW n \in Nat, NEW s \in Statements
  PROVE  /\ Repeat(n, s) \in Seq(Statements) /\ Len(Repeat(n, s)) = n
         /\ \A i \in 1 .. n : Repeat(n, s)[i] = s
<1>1. Repeat(n, s) \in [1 .. n -> Statements]
  BY DEF Repeat
<1> QED
  BY <1>1, Listed DEF Repeat

LEMMA StatementsOn ==
  ASSUME NEW c \in Channels
  PROVE  /\ {On(c), Off(c), Send(c), Notify(c), Wait} \subseteq Statements
         /\ On(c).do = "subscribe" /\ On(c).channel = c
         /\ Off(c).do = "unsubscribe" /\ Off(c).channel = c
         /\ Send(c).do = "publish" /\ Send(c).channel = c
         /\ Notify(c).do = "notify" /\ Notify(c).channel = c
BY DEF On, Off, Send, Notify, Wait, Statements

(* One call of s for each channel of a sequence. *)
LEMMA EachOn ==
  ASSUME NEW cs \in Seq(Channels)
  PROVE  /\ Each(cs, On) \in Seq(Statements) /\ Len(Each(cs, On)) = Len(cs)
         /\ \A i \in 1 .. Len(cs) : cs[i] \in Channels /\ Each(cs, On)[i] = On(cs[i])
<1>1. \A i \in 1 .. Len(cs) : cs[i] \in Channels /\ On(cs[i]) \in Statements
  BY StatementsOn
<1>2. Len(cs) \in Nat /\ DOMAIN cs = 1 .. Len(cs)
  OBVIOUS
<1>3. Each(cs, On) \in [1 .. Len(cs) -> Statements]
  BY <1>1, <1>2 DEF Each
<1> QED
  BY <1>1, <1>2, <1>3, Listed DEF Each

LEMMA EachOff ==
  ASSUME NEW cs \in Seq(Channels)
  PROVE  /\ Each(cs, Off) \in Seq(Statements) /\ Len(Each(cs, Off)) = Len(cs)
         /\ \A i \in 1 .. Len(cs) : Each(cs, Off)[i] = Off(cs[i])
<1>1. \A i \in 1 .. Len(cs) : cs[i] \in Channels /\ Off(cs[i]) \in Statements
  BY StatementsOn
<1>2. Len(cs) \in Nat /\ DOMAIN cs = 1 .. Len(cs)
  OBVIOUS
<1>3. Each(cs, Off) \in [1 .. Len(cs) -> Statements]
  BY <1>1, <1>2 DEF Each
<1> QED
  BY <1>1, <1>2, <1>3, Listed DEF Each

LEMMA EachSend ==
  ASSUME NEW cs \in Seq(Channels)
  PROVE  /\ Each(cs, Send) \in Seq(Statements) /\ Len(Each(cs, Send)) = Len(cs)
         /\ \A i \in 1 .. Len(cs) : Each(cs, Send)[i] = Send(cs[i])
<1>1. \A i \in 1 .. Len(cs) : cs[i] \in Channels /\ Send(cs[i]) \in Statements
  BY StatementsOn
<1>2. Len(cs) \in Nat /\ DOMAIN cs = 1 .. Len(cs)
  OBVIOUS
<1>3. Each(cs, Send) \in [1 .. Len(cs) -> Statements]
  BY <1>1, <1>2 DEF Each
<1> QED
  BY <1>1, <1>2, <1>3, Listed DEF Each

LEMMA Sizes ==
  /\ Events \in Nat /\ Subscribers \in Nat /\ Broadcasts \in Nat /\ Operations \in Nat
  /\ Len(Shop) \in Nat /\ Len(Workflow) \in Nat
  /\ UserEvents \in Channels /\ Broadcast \in Channels /\ StateChanges \in Channels
  /\ UserEvents # Broadcast /\ StateChanges # Broadcast /\ Every # Broadcast
  /\ Shop \in Seq(Channels) /\ Workflow \in Seq(Channels)
BY PubSubDemoAssumption, RedisChannelAssumption

LEMMA Shapes == \A d \in 1 .. 4 : Shaped(Demonstrations[d], Ons[d], Msgs[d])
<1> USE Sizes
<1>1. Shaped(BasicPubSub, 1, Events + 1)
  <2> DEFINE b == Repeat(Events, Send(UserEvents))
  <2>1. /\ b \in Seq(Statements) /\ Len(b) = Events
        /\ \A i \in 1 .. Len(b) : b[i].do \in {"publish", "notify"}
                                 /\ b[i].channel = UserEvents
    <3>1. /\ Send(UserEvents) \in Statements /\ Send(UserEvents).do \in {"publish", "notify"}
          /\ Send(UserEvents).channel = UserEvents
      BY StatementsOn
    <3>2. /\ b \in Seq(Statements) /\ Len(b) = Events
          /\ \A i \in 1 .. Events : b[i] = Send(UserEvents)
      BY <3>1, Repeated
    <3> HIDE DEF b
    <3> QED
      BY <3>1, <3>2
  <2> HIDE DEF b
  <2>2. Shaped(((<<On(UserEvents)>> \o (<<Wait>> \o b)) \o <<Wait>>) \o <<Off(UserEvents)>>,
               1, Len(b) + 1)
    BY <2>1, ShapeOfOne
  <2> QED
    BY <2>1, <2>2 DEF BasicPubSub, b
<1>2. Shaped(MultipleChannels, Len(Shop), Len(Workflow) + 1)
  <2> DEFINE a == Each(Shop, On)
             b == Each(Workflow, Send)
             e == Each(Shop, Off)
  <2>1. /\ a \in Seq(Statements) /\ Len(a) = Len(Shop)
        /\ \A i \in 1 .. Len(Shop) : Shop[i] \in Channels /\ a[i] = On(Shop[i])
    BY EachOn
  <2>2. /\ b \in Seq(Statements) /\ Len(b) = Len(Workflow)
        /\ \A i \in 1 .. Len(Workflow) : Workflow[i] \in Channels /\ b[i] = Send(Workflow[i])
    <3>1. \A i \in 1 .. Len(Workflow) : Workflow[i] \in Channels
      OBVIOUS
    <3> QED
      BY <3>1, EachSend
  <2>3. /\ e \in Seq(Statements) /\ Len(e) = Len(Shop)
        /\ \A i \in 1 .. Len(Shop) : e[i] = Off(Shop[i])
    BY EachOff
  <2>4. \A i \in 1 .. Len(Workflow) : \E j \in 1 .. Len(Shop) : Shop[j] = Workflow[i]
    <3>1. DOMAIN Workflow = 1 .. Len(Workflow) /\ DOMAIN Shop = 1 .. Len(Shop)
      OBVIOUS
    <3> QED
      BY <3>1, PubSubDemoAssumption
  <2> HIDE DEF a, b, e
  <2>5. \A i \in 1 .. Len(a) : /\ a[i].do = "subscribe" /\ a[i].channel \in Channels
                               /\ \E j \in 1 .. Len(e) : e[j] = Off(a[i].channel)
    BY <2>1, <2>3, StatementsOn
  <2>6. \A i \in 1 .. Len(b) : /\ b[i].do \in {"publish", "notify"}
                               /\ b[i].channel \in Channels
                               /\ \E j \in 1 .. Len(a) : a[j].channel = b[i].channel
    <3>1. ASSUME NEW i \in 1 .. Len(b)
          PROVE  /\ b[i].do \in {"publish", "notify"} /\ b[i].channel \in Channels
                 /\ \E j \in 1 .. Len(a) : a[j].channel = b[i].channel
      <4>1. PICK j \in 1 .. Len(Shop) : Shop[j] = Workflow[i]
        BY <2>2, <2>4
      <4>2. i \in 1 .. Len(Workflow) /\ j \in 1 .. Len(a)
        BY <2>1, <2>2
      <4>3. b[i].do = "publish" /\ b[i].channel = Workflow[i] /\ Workflow[i] \in Channels
        BY <2>2, <4>2, StatementsOn
      <4>4. a[j].channel = Workflow[i]
        BY <2>1, <4>1, StatementsOn
      <4> QED
        BY <4>2, <4>3, <4>4
    <3> QED
      BY <3>1
  <2>7. \A i \in 1 .. Len(e) : e[i].do = "unsubscribe" /\ e[i].channel \in Channels
    BY <2>1, <2>3, StatementsOn
  <2>8. Shaped(((a \o (<<Wait>> \o b)) \o <<Wait>>) \o e, Len(a), Len(b) + 1)
    BY <2>1, <2>2, <2>3, <2>5, <2>6, <2>7, ShapeTogether
  <2> QED
    BY <2>1, <2>2, <2>8 DEF MultipleChannels, a, b, e
<1>3. Shaped(MultipleSubscribers, Subscribers, Broadcasts + 1)
  <2> DEFINE a == Repeat(Subscribers, On(Broadcast))
             b == Repeat(Broadcasts, Send(Broadcast))
             e == Repeat(Subscribers, Off(Broadcast))
  <2>0. Subscribers > 0
    BY PubSubDemoAssumption
  <2>1. /\ a \in Seq(Statements) /\ Len(a) = Subscribers
        /\ \A i \in 1 .. Subscribers : a[i] = On(Broadcast)
    BY Repeated, StatementsOn
  <2>2. /\ b \in Seq(Statements) /\ Len(b) = Broadcasts
        /\ \A i \in 1 .. Broadcasts : b[i] = Send(Broadcast)
    BY Repeated, StatementsOn
  <2>3. /\ e \in Seq(Statements) /\ Len(e) = Subscribers
        /\ \A i \in 1 .. Subscribers : e[i] = Off(Broadcast)
    BY Repeated, StatementsOn
  <2> HIDE DEF a, b, e
  <2>4. 1 \in 1 .. Len(a) /\ 1 \in 1 .. Len(e)
    BY <2>0, <2>1, <2>3
  <2>5. \A i \in 1 .. Len(a) : /\ a[i].do = "subscribe" /\ a[i].channel \in Channels
                               /\ \E j \in 1 .. Len(e) : e[j] = Off(a[i].channel)
    BY <2>1, <2>3, <2>4, StatementsOn
  <2>6. \A i \in 1 .. Len(b) : /\ b[i].do \in {"publish", "notify"}
                               /\ b[i].channel \in Channels
                               /\ \E j \in 1 .. Len(a) : a[j].channel = b[i].channel
    BY <2>1, <2>2, <2>4, StatementsOn
  <2>7. \A i \in 1 .. Len(e) : e[i].do = "unsubscribe" /\ e[i].channel \in Channels
    BY <2>3, StatementsOn
  <2>8. Shaped(((a \o (<<Wait>> \o b)) \o <<Wait>>) \o e, Len(a), Len(b) + 1)
    BY <2>1, <2>2, <2>3, <2>5, <2>6, <2>7, ShapeTogether
  <2> QED
    BY <2>1, <2>2, <2>8 DEF MultipleSubscribers, a, b, e
<1>4. Shaped(StateChangeNotifications, 1, Operations + 1)
  <2> DEFINE b == Repeat(Operations, Notify(StateChanges))
  <2>1. /\ b \in Seq(Statements) /\ Len(b) = Operations
        /\ \A i \in 1 .. Len(b) : b[i].do \in {"publish", "notify"}
                                 /\ b[i].channel = StateChanges
    <3>1. /\ Notify(StateChanges) \in Statements /\ Notify(StateChanges).do \in {"publish", "notify"}
          /\ Notify(StateChanges).channel = StateChanges
      BY StatementsOn
    <3>2. /\ b \in Seq(Statements) /\ Len(b) = Operations
          /\ \A i \in 1 .. Operations : b[i] = Notify(StateChanges)
      BY <3>1, Repeated
    <3> HIDE DEF b
    <3> QED
      BY <3>1, <3>2
  <2> HIDE DEF b
  <2>2. Shaped(((<<On(StateChanges)>> \o (<<Wait>> \o b)) \o <<Wait>>)
                 \o <<Off(StateChanges)>>, 1, Len(b) + 1)
    BY <2>1, ShapeOfOne
  <2> QED
    BY <2>1, <2>2 DEF StateChangeNotifications, b
<1> QED
  BY <1>1, <1>2, <1>3, <1>4 DEF Demonstrations, Ons, Msgs

-----------------------------------------------------------------------------
(* The place of main in a demonstration. *)

LEMMA Frames == Len(Demonstrations) = 4
BY DEF Demonstrations

LEMMA MainOnly ==
  /\ Callers = {Main} /\ Main \in Callers /\ Main # Consumer /\ Main # NoThread
  /\ Main \in Threads /\ Consumer \in Threads
BY PubSubDemoAssumption, RedisChannelAssumption DEF Threads

LEMMA PlanFacts ==
  ASSUME PlanInv, ~Finished
  PROVE  /\ frame \in 1 .. 4 /\ Shaped(Plan, Ons[frame], Msgs[frame])
         /\ Len(left) \in Nat /\ Len(Plan) \in Nat /\ At \in 0 .. Len(Plan)
         /\ WaitAt \in Nat /\ WaitAt <= Len(Plan)
         /\ Ons[frame] \in Nat /\ Ons[frame] + 1 < WaitAt
<1>1. frame \in 1 .. 4
  BY Frames DEF PlanInv, Finished
<1>2. Shaped(Plan, Ons[frame], Msgs[frame])
  BY <1>1, Shapes DEF Plan
<1>3. left \in Seq(Statements) /\ Plan \in Seq(Statements) /\ Len(left) <= Len(Plan)
  BY <1>2 DEF PlanInv, Shaped
<1>4. Len(left) \in Nat /\ Len(Plan) \in Nat
  BY <1>3
<1>5. /\ Ons[frame] \in Nat /\ Msgs[frame] \in Nat \ {0}
      /\ Ons[frame] + Msgs[frame] + 1 <= Len(Plan)
  BY <1>2 DEF Shaped
<1> QED
  BY <1>1, <1>2, <1>3, <1>4, <1>5 DEF At, WaitAt

(* What the shape says of the statement at i. *)
LEMMA PlanStatement ==
  ASSUME PlanInv, ~Finished, NEW i \in 1 .. Len(Plan)
  PROVE  /\ Plan[i].do = "subscribe" <=> i <= Ons[frame]
         /\ Plan[i].do \in {"publish", "notify"} <=> Ons[frame] + 1 < i /\ i < WaitAt
         /\ Plan[i].do = "wait" <=> i \in {Ons[frame] + 1, WaitAt}
         /\ Plan[i].do # "wait" => Plan[i].channel \in Channels
         /\ i <= Ons[frame] =>
              \E j \in 1 .. Len(Plan) : Plan[j] = Off(Plan[i].channel)
         /\ Ons[frame] + 1 < i /\ i < WaitAt =>
              \E j \in 1 .. Ons[frame] : Plan[j].channel = Plan[i].channel
         /\ Plan[i] \in Statements
<1> DEFINE n == Ons[frame]
           m == Msgs[frame]
<1>1. Shaped(Plan, n, m) /\ WaitAt = n + m + 1
  BY PlanFacts DEF WaitAt
<1>2. n \in Nat /\ m \in Nat /\ i \in Nat /\ Plan \in Seq(Statements)
  BY <1>1 DEF Shaped
<1>3. i < WaitAt <=> i <= n + m
  BY <1>1, <1>2
<1>4. /\ Plan[i].do = "subscribe" <=> i <= n
      /\ Plan[i].do \in {"publish", "notify"} <=> n + 1 < i /\ i <= n + m
      /\ Plan[i].do = "wait" <=> i \in {n + 1, n + m + 1}
      /\ Plan[i].do # "wait" => Plan[i].channel \in Channels
      /\ i <= n => \E j \in 1 .. Len(Plan) : Plan[j] = Off(Plan[i].channel)
      /\ n + 1 < i /\ i <= n + m => \E j \in 1 .. n : Plan[j].channel = Plan[i].channel
  BY <1>1 DEF Shaped
<1>5. Plan[i] \in Statements
  BY <1>2
<1> HIDE DEF n, m
<1>6. /\ Plan[i].do \in {"publish", "notify"} <=> n + 1 < i /\ i < WaitAt
      /\ Plan[i].do = "wait" <=> i \in {n + 1, WaitAt}
      /\ n + 1 < i /\ i < WaitAt => \E j \in 1 .. n : Plan[j].channel = Plan[i].channel
  BY <1>1, <1>3, <1>4
<1> QED
  BY <1>4, <1>5, <1>6 DEF n

LEMMA StatementPlan ==
  ASSUME PlanInv, left # <<>>, left' = Tail(left), frame' = frame
  PROVE  /\ ~Finished /\ ~Finished' /\ PlanInv'
         /\ Plan' = Plan /\ WaitAt' = WaitAt /\ At' = At + 1
         /\ At + 1 \in 1 .. Len(Plan) /\ Head(left) = Plan[At + 1]
         /\ Now' = Plan[At + 1]
<1>1. ~Finished /\ ~Finished' /\ Plan' = Plan /\ WaitAt' = WaitAt
  BY DEF PlanInv, Finished, Plan, WaitAt
<1>2. left \in Seq(Statements) /\ \A i \in 1 .. Len(left) : left[i] = Plan[At + i]
  BY <1>1 DEF PlanInv
<1>3. /\ Len(left) \in Nat \ {0} /\ left' \in Seq(Statements)
      /\ Len(left') = Len(left) - 1 /\ Head(left) = left[1]
      /\ \A i \in 1 .. Len(left') : left'[i] = left[i + 1]
  BY <1>2
<1>4. Len(Plan) \in Nat /\ Len(left) <= Len(Plan)
  BY <1>1, PlanFacts DEF PlanInv
<1>5. At' = At + 1 /\ At + 1 \in 1 .. Len(Plan) /\ At \in Int
  BY <1>1, <1>3, <1>4 DEF At
<1>6. Head(left) = Plan[At + 1] /\ Now' = Plan[At + 1]
  BY <1>1, <1>2, <1>3, <1>5 DEF Now
<1>7. \A i \in 1 .. Len(left') : left'[i] = Plan'[At' + i]
  <2>1. ASSUME NEW i \in 1 .. Len(left') PROVE left'[i] = Plan'[At' + i]
    <3>1. i + 1 \in 1 .. Len(left) /\ At + (i + 1) = At' + i
      BY <1>3, <1>5
    <3> QED
      BY <1>1, <1>2, <1>3, <3>1
  <2> QED
    BY <2>1
<1>8. Len(left') <= Len(Plan')
  BY <1>1, <1>3, <1>4
<1>9. frame' \in 1 .. 5
  BY DEF PlanInv
<1> QED
  BY <1>1, <1>3, <1>5, <1>6, <1>7, <1>8, <1>9 DEF PlanInv

LEMMA StatementTaken ==
  ASSUME PlanInv, Statement
  PROVE  left # <<>> /\ left' = Tail(left) /\ frame' = frame
BY DEF Statement

LEMMA ReturnPlan ==
  ASSUME PlanInv, Return
  PROVE  /\ PlanInv' /\ At = Len(Plan) /\ frame \in 1 .. 4 /\ frame' = frame + 1
         /\ Finished' <=> frame = 4
         /\ ~Finished' => At' = 0
<1>1. ~Finished /\ left = <<>> /\ frame' = frame + 1
  BY DEF Return
<1>2. frame \in 1 .. 4 /\ Len(Plan) \in Nat /\ At = Len(Plan)
  <2>1. frame \in 1 .. 4 /\ Len(Plan) \in Nat
    BY <1>1, PlanFacts
  <2>2. Len(left) = 0
    BY <1>1
  <2> QED
    BY <2>1, <2>2 DEF At
<1>3. Finished' <=> frame = 4
  BY <1>1, <1>2, Frames DEF Finished
<1>4. CASE frame = 4
  <2>1. left' = <<>> /\ frame' = 5
    BY <1>1, <1>4, Frames DEF Return
  <2> QED
    BY <1>1, <1>2, <1>3, <1>4, <2>1 DEF PlanInv
<1>5. CASE frame # 4
  <2>1. left' = Plan' /\ frame' \in 1 .. 4
    BY <1>1, <1>2, <1>5, Frames DEF Return, Plan
  <2>2. Plan' \in Seq(Statements)
    BY <2>1, Shapes DEF Plan, Shaped
  <2>3. Len(left') \in Nat
    BY <2>1, <2>2
  <2>4. At' = 0
    BY <2>1, <2>3 DEF At
  <2>5. \A i \in 1 .. Len(left') : left'[i] = Plan'[At' + i]
    BY <2>1, <2>4
  <2> QED
    BY <1>1, <1>2, <1>3, <1>5, <2>1, <2>2, <2>3, <2>4, <2>5 DEF PlanInv
<1> QED
  BY <1>2, <1>1, <1>3, <1>4, <1>5

LEMMA PlanKept ==
  ASSUME UNCHANGED <<frame, left>>
  PROVE  /\ PlanInv => PlanInv'
         /\ Plan' = Plan /\ At' = At /\ Now' = Now /\ WaitAt' = WaitAt
         /\ Finished' <=> Finished
<1>1. /\ Plan' = Plan /\ At' = At /\ WaitAt' = WaitAt /\ (Finished' <=> Finished)
  BY DEF Plan, At, WaitAt, Finished
<1> QED
  BY <1>1 DEF PlanInv, Now

(* A demonstration an exception leaves is the last. *)
LEMMA PlanLeft ==
  ASSUME PlanInv, frame' = Len(Demonstrations) + 1, left' = <<>>
  PROVE  PlanInv' /\ Finished' /\ frame' = 5
BY Frames DEF PlanInv, Finished

LEMMA PlanStep ==
  ASSUME PlanInv, [DemoNext]_demoVars
  PROVE  PlanInv'
<1>1. CASE Statement
  BY <1>1, StatementTaken, StatementPlan
<1>2. CASE Return
  BY <1>2, ReturnPlan
<1>3. CASE Inner
  BY <1>3, PlanKept, PlanLeft DEF Inner, Unwinds
<1>4. CASE UNCHANGED <<frame, left>>
  BY <1>4, PlanKept
<1> QED
  BY <1>1, <1>2, <1>3, <1>4
  DEF DemoNext, MainStep, Exit, Consumes, Works, Closes, Serves, Crashes, program, demoVars

-----------------------------------------------------------------------------
(* The program uses the channel as any one caller may. *)

LEMMA RecordOf ==
  ASSUME NEW s \in Statements
  PROVE  /\ s.do = "subscribe" => s = On(s.channel)
         /\ s.do = "unsubscribe" => s = Off(s.channel)
         /\ s.do \in {"subscribe", "publish", "notify", "wait", "unsubscribe"}
BY DEF Statements, On, Off

(* The statement main begins, by its place in the demonstration. *)
LEMMA StatementCases ==
  ASSUME PlanInv, Statement
  PROVE  \E i \in 1 .. Len(Plan) :
           /\ i = At + 1 /\ pc[Main] = "idle"
           /\ UNCHANGED <<frame, first, owner, callee, pool>>
           /\ \/ /\ i <= Ons[frame] /\ Plan[i] = On(Plan[i].channel)
                 /\ Plan[i].channel \in Channels /\ UNCHANGED hurried
                 /\ Begin(Main, "insert", Plan[i].channel)
              \/ /\ Ons[frame] + 1 < i /\ i < WaitAt
                 /\ Plan[i].channel \in Channels /\ UNCHANGED hurried
                 /\ Begin(Main, "publish", Plan[i].channel) \/ UNCHANGED vars
              \/ /\ i \in {Ons[frame] + 1, WaitAt}
                 /\ hurried' = (hurried \/ ~(Established /\ Drained))
                 /\ UNCHANGED vars
              \/ /\ i > WaitAt /\ Plan[i] = Off(Plan[i].channel)
                 /\ Plan[i].channel \in Channels /\ UNCHANGED hurried
                 /\ Begin(Main, "find", Plan[i].channel)
<1> DEFINE i == At + 1
           s == Plan[i]
<1>1. i \in 1 .. Len(Plan) /\ Head(left) = s /\ ~Finished
  BY StatementTaken, StatementPlan
<1>2. /\ s.do = "subscribe" <=> i <= Ons[frame]
      /\ s.do \in {"publish", "notify"} <=> Ons[frame] + 1 < i /\ i < WaitAt
      /\ s.do = "wait" <=> i \in {Ons[frame] + 1, WaitAt}
      /\ s.do # "wait" => s.channel \in Channels
      /\ s \in Statements
  BY <1>1, PlanStatement
<1>3. UNCHANGED <<frame, first, owner, callee, pool>>
  BY DEF Statement
<1>4. Ons[frame] \in Nat /\ WaitAt \in Nat /\ Ons[frame] + 1 < WaitAt /\ i \in Nat
  BY <1>1, PlanFacts
<1> HIDE DEF i, s
<1>5. CASE s.do = "subscribe" /\ Subscribe(Main, s.channel) /\ UNCHANGED hurried
  <2>1. s = On(s.channel) /\ s.channel \in Channels /\ i <= Ons[frame]
    BY <1>2, <1>5, RecordOf
  <2>2. Begin(Main, "insert", s.channel) /\ pc[Main] = "idle"
    BY <1>5 DEF Subscribe, Begin, Moves
  <2> QED
    BY <1>1, <1>3, <1>5, <2>1, <2>2 DEF i, s
<1>6. CASE s.do \in {"publish", "notify"} /\ Publish(Main, s.channel) /\ UNCHANGED hurried
  <2>1. s.channel \in Channels /\ Ons[frame] + 1 < i /\ i < WaitAt
    BY <1>2, <1>6
  <2>2. Begin(Main, "publish", s.channel) /\ pc[Main] = "idle"
    BY <1>6 DEF Publish, Begin, Moves
  <2> QED
    BY <1>1, <1>3, <1>6, <2>1, <2>2 DEF i, s
<1>7. CASE s.do = "unsubscribe" /\ Unsubscribe(Main, s.channel) /\ UNCHANGED hurried
  <2>1. s = Off(s.channel) /\ s.channel \in Channels
    BY <1>2, <1>7, RecordOf
  <2>2. i > WaitAt
    BY <1>2, <1>4, <1>7
  <2>3. Begin(Main, "find", s.channel) /\ pc[Main] = "idle"
    BY <1>7 DEF Unsubscribe, Begin, Moves
  <2> QED
    BY <1>1, <1>3, <1>7, <2>1, <2>2, <2>3 DEF i, s
<1>8. CASE s.do = "notify" /\ pc[Main] = "idle" /\ UNCHANGED <<vars, hurried>>
  <2>1. s.channel \in Channels /\ Ons[frame] + 1 < i /\ i < WaitAt
    BY <1>2, <1>8
  <2> QED
    BY <1>1, <1>3, <1>8, <2>1 DEF i, s
<1>9. CASE /\ s.do = "wait" /\ pc[Main] = "idle"
           /\ hurried' = (hurried \/ ~(Established /\ Drained)) /\ UNCHANGED vars
  <2>1. i \in {Ons[frame] + 1, WaitAt}
    BY <1>2, <1>9
  <2> QED
    BY <1>1, <1>3, <1>9, <2>1 DEF i, s
<1> QED
  BY <1>1, <1>5, <1>6, <1>7, <1>8, <1>9 DEF Statement, Calls

LEMMA StatementLegal ==
  ASSUME PlanInv, Statement
  PROVE  UNCHANGED vars \/ Call(Main)
<1>1. PICK s : s = Head(left)
  OBVIOUS
<1>2. CASE Calls(s)
  <2>1. ~Finished /\ At + 1 \in 1 .. Len(Plan) /\ s = Plan[At + 1]
    BY <1>1, StatementTaken, StatementPlan
  <2>2. s.do # "wait" => s.channel \in Channels
    BY <2>1, PlanStatement
  <2>3. s.channel \in Channels
    BY <1>2, <2>2 DEF Calls
  <2> QED
    BY <1>2, <2>3 DEF Calls, Call
<1> QED
  BY <1>1, <1>2 DEF Statement

LEMMA LegalStep ==
  ASSUME PlanInv, [DemoNext]_demoVars
  PROVE  [Next]_vars
<1> USE MainOnly
<1>1. CASE Statement
  BY <1>1, StatementLegal DEF Next
<1>2. CASE Return
  BY <1>2 DEF Return
<1>3. CASE Exit
  BY <1>3 DEF Exit, Next, Call
<1>4. CASE Inner
  BY <1>4 DEF Inner, Next
<1>5. CASE Consumes
  BY <1>5 DEF Consumes, Next
<1>6. CASE Works \/ Closes
  BY <1>6 DEF Works, Closes
<1>7. CASE Serves \/ Crashes
  BY <1>7 DEF Serves, Crashes, Next
<1>8. CASE UNCHANGED demoVars
  BY <1>8 DEF demoVars
<1> QED
  BY <1>1, <1>2, <1>3, <1>4, <1>5, <1>6, <1>7, <1>8 DEF DemoNext, MainStep

LEMMA PlanInit == DemoInit => PlanInv
<1>1. 1 \in 1 .. 4
  OBVIOUS
<1> SUFFICES ASSUME DemoInit PROVE PlanInv
  OBVIOUS
<1>2. frame = 1 /\ left = Plan
  BY DEF DemoInit, Plan
<1>3. Plan \in Seq(Statements) /\ ~Finished
  BY <1>1, <1>2, Shapes, Frames DEF Plan, Shaped, Finished
<1>4. At = 0 /\ Len(Plan) \in Nat
  BY <1>2, <1>3 DEF At
<1> QED
  BY <1>2, <1>3, <1>4 DEF PlanInv

(* All that is proved of RedisChannel holds of the program: it implements  *)
(* the channel's specification, its one thread making the calls.           *)
THEOREM UsesChannel == DemoSpec => Spec
<1>1. DemoInit => Init /\ PlanInv
  BY PlanInit DEF DemoInit
<1>2. PlanInv /\ [DemoNext]_demoVars => PlanInv' /\ [Next]_vars
  BY PlanStep, LegalStep
<1> QED
  BY <1>1, <1>2, PTL DEF DemoSpec, Spec

(* What RedisChannelProofs shows of the channel. *)
ChannelInv ==
  TypeOK /\ PlaceInv /\ OrderInv /\ SoleInv(Main) /\ SettleInv(Main)

LEMMA ChannelHolds == DemoSpec => [](ChannelInv /\ PlanInv)
<1>1. DemoInit => PlanInv
  BY PlanInit
<1>2. PlanInv /\ [DemoNext]_demoVars => PlanInv'
  BY PlanStep
<1>3. DemoSpec => []PlanInv
  BY <1>1, <1>2, PTL DEF DemoSpec
<1>4. Init => OrderInv /\ SoleInv(Main) /\ SettleInv(Main)
  BY MainOnly, RedisChannelAssumption
  DEF Init, OrderInv, HandedInOrder, SoleInv, SettleInv, Settled, Threads
<1>5. TypeOK /\ PlaceInv /\ OrderInv /\ SoleInv(Main) /\ SettleInv(Main) /\ [Next]_vars
        => OrderInv' /\ SoleInv(Main)' /\ SettleInv(Main)'
  BY MainOnly, OrderStep, SoleStep, SettleStep
<1>6. Spec => []ChannelInv
  BY <1>4, <1>5, Typed, PTL DEF Spec, ChannelInv
<1> QED
  BY <1>3, <1>6, UsesChannel, PTL

-----------------------------------------------------------------------------
(* What a step of main inside the channel changes, by the place it is at.  *)

Goto(p, qs) == pc[Main] = p /\ pc'[Main] \in qs

LEMMA MainPlaces ==
  ASSUME TypeOK, CallerStep(Main)
  PROVE  \/ pc'[Main] = pc[Main] /\ pc[Main] \in Uses
         \/ Goto("insert", {"check"}) \/ Goto("check", {"recheck", "create"})
         \/ Goto("recheck", {"add", "idle"}) \/ Goto("add", {"idle"})
         \/ Goto("create", {"register", "idle"}) \/ Goto("register", {"resubscribing", "reset"})
         \/ Goto("resubscribing", {"resubscribe"}) \/ Goto("resubscribe", {"idle", "join"})
         \/ Goto("join", {"start"}) \/ Goto("start", {"idle"}) \/ Goto("reset", {"idle"})
         \/ Goto("publish", {"idle"})
         \/ Goto("find", {"empty"}) /\ arg[Main] \notin callbacks
         \/ Goto("find", {"remove", "erase"}) /\ arg[Main] \in callbacks
         \/ Goto("remove", {"erase"})
         \/ Goto("remove", {"idle"}) /\ failures' = failures + 1
         \/ Goto("erase", {"empty"})
         \/ Goto("empty", {"halt", Back(Main)}) \/ Goto("halt", {Back(Main)})
         \/ Goto("stop", {"removing"}) \/ Goto("removing", {"removeAll"})
         \/ Goto("removeAll", {"clear"}) \/ Goto("clear", {Back(Main)})
         \/ Goto("lastJoin", {"gone"})
<1> USE MainOnly DEF Goto, Moves, Goes, Only, Client, ClientCalls, Uses
<1>0. pc \in [Threads -> Places \cup ConsumerPlaces]
  BY DEF TypeOK
<1>1. CASE LockClient(Main)
  BY <1>0, <1>1 DEF LockClient, WantsClient
<1>2. CASE Insert(Main) \/ Check(Main) \/ Recheck(Main) \/ Add(Main)
  BY <1>0, <1>2 DEF Insert, Check, Recheck, Add
<1>3. CASE Create(Main) \/ Register(Main) \/ Reset(Main)
  BY <1>0, <1>3 DEF Create, Register, Reset
<1>4. CASE \/ LoopBegins(Main, "resubscribing", "resubscribe")
           \/ LoopEnds(Main, "resubscribe", "join")
           \/ LoopBegins(Main, "removing", "removeAll")
           \/ LoopEnds(Main, "removeAll", "clear")
  BY <1>0, <1>4 DEF LoopBegins, LoopEnds
<1>5. CASE Resubscribe(Main) \/ RemoveAll(Main)
  BY <1>0, <1>5 DEF Resubscribe, RemoveAll, LoopThrows
<1>6. CASE Join(Main) \/ Start(Main)
  BY <1>0, <1>6 DEF Join, Start
<1>7. CASE Find(Main) \/ Erase(Main)
  BY <1>0, <1>7 DEF Find, Erase
<1>8. CASE Remove(Main)
  BY <1>0, <1>8 DEF Remove, Fails
<1>9. CASE Empty(Main) \/ Halt(Main) \/ Stop(Main) \/ Clear(Main)
  BY <1>0, <1>9 DEF Empty, Halt, Stop, Clear
<1>10. CASE Publishes(Main) \/ LastJoin(Main)
  BY <1>0, <1>10 DEF Publishes, LastJoin
<1> QED
  BY <1>1, <1>2, <1>3, <1>4, <1>5, <1>6, <1>7, <1>8, <1>9, <1>10
  DEF CallerStep, SubscribeStep, UnsubscribeStep

LEMMA MainCallbacks ==
  ASSUME TypeOK, CallerStep(Main)
  PROVE  \/ pc[Main] = "insert" /\ pc'[Main] = "check"
              /\ callbacks' = callbacks \cup {arg[Main]}
         \/ pc[Main] = "erase" /\ pc'[Main] = "empty"
              /\ callbacks' = callbacks \ {arg[Main]}
         \/ pc[Main] = "clear" /\ callbacks' = {}
         \/ pc[Main] \notin {"insert", "erase", "clear"} /\ callbacks' = callbacks
<1> USE MainOnly DEF Moves, Goes, Only, Client, ClientCalls, data, map
<1>0. pc \in [Threads -> Places \cup ConsumerPlaces]
  BY DEF TypeOK
<1>1. CASE LockClient(Main)
  BY <1>0, <1>1 DEF LockClient, WantsClient, Uses
<1>2. CASE Insert(Main) \/ Check(Main) \/ Recheck(Main) \/ Add(Main)
  BY <1>0, <1>2 DEF Insert, Check, Recheck, Add
<1>3. CASE Create(Main) \/ Register(Main) \/ Reset(Main)
  BY <1>0, <1>3 DEF Create, Register, Reset
<1>4. CASE \/ LoopBegins(Main, "resubscribing", "resubscribe")
           \/ LoopEnds(Main, "resubscribe", "join")
           \/ LoopBegins(Main, "removing", "removeAll")
           \/ LoopEnds(Main, "removeAll", "clear")
  BY <1>0, <1>4 DEF LoopBegins, LoopEnds
<1>5. CASE Resubscribe(Main) \/ RemoveAll(Main)
  BY <1>0, <1>5 DEF Resubscribe, RemoveAll
<1>6. CASE Join(Main) \/ Start(Main)
  BY <1>0, <1>6 DEF Join, Start
<1>7. CASE Find(Main) \/ Erase(Main)
  BY <1>0, <1>7 DEF Find, Erase, Erases
<1>8. CASE Remove(Main)
  BY <1>0, <1>8 DEF Remove
<1>9. CASE Empty(Main) \/ Halt(Main) \/ Stop(Main) \/ Clear(Main)
  BY <1>0, <1>9 DEF Empty, Halt, Stop, Clear, Erases
<1>10. CASE Publishes(Main) \/ LastJoin(Main)
  BY <1>0, <1>10 DEF Publishes, LastJoin
<1> QED
  BY <1>1, <1>2, <1>3, <1>4, <1>5, <1>6, <1>7, <1>8, <1>9, <1>10
  DEF CallerStep, SubscribeStep, UnsubscribeStep

LEMMA MainMessages ==
  ASSUME TypeOK, CallerStep(Main)
  PROVE  /\ UNCHANGED <<arg, handed>>
         /\ \/ UNCHANGED <<socket, published>>
            \/ pc[Main] \in {"create", "reset"} /\ socket' = <<>> /\ UNCHANGED published
            \/ pc[Main] = "publish" /\ pc'[Main] = "idle" /\ Published(arg[Main])
<1> USE MainOnly DEF Moves, Goes, Only, Client, ClientCalls, NewLink, data, wire, link, messages, calls
<1>0. pc \in [Threads -> Places \cup ConsumerPlaces]
  BY DEF TypeOK
<1>1. CASE LockClient(Main)
  BY <1>0, <1>1 DEF LockClient
<1>2. CASE Insert(Main) \/ Check(Main) \/ Recheck(Main) \/ Add(Main)
  BY <1>0, <1>2 DEF Insert, Check, Recheck, Add
<1>3. CASE Create(Main) \/ Register(Main) \/ Reset(Main)
  BY <1>0, <1>3 DEF Create, Register, Reset
<1>4. CASE \/ LoopBegins(Main, "resubscribing", "resubscribe")
           \/ LoopEnds(Main, "resubscribe", "join")
           \/ LoopBegins(Main, "removing", "removeAll")
           \/ LoopEnds(Main, "removeAll", "clear")
  BY <1>0, <1>4 DEF LoopBegins, LoopEnds
<1>5. CASE Resubscribe(Main) \/ RemoveAll(Main)
  BY <1>0, <1>5 DEF Resubscribe, RemoveAll
<1>6. CASE Join(Main) \/ Start(Main)
  BY <1>0, <1>6 DEF Join, Start
<1>7. CASE Find(Main) \/ Erase(Main)
  BY <1>0, <1>7 DEF Find, Erase
<1>8. CASE Remove(Main)
  BY <1>0, <1>8 DEF Remove
<1>9. CASE Empty(Main) \/ Halt(Main) \/ Stop(Main) \/ Clear(Main)
  BY <1>0, <1>9 DEF Empty, Halt, Stop, Clear
<1>10. CASE Publishes(Main)
  BY <1>0, <1>10 DEF Publishes, Published
<1>11. CASE LastJoin(Main)
  BY <1>0, <1>11 DEF LastJoin
<1> QED
  BY <1>1, <1>2, <1>3, <1>4, <1>5, <1>6, <1>7, <1>8, <1>9, <1>10, <1>11
  DEF CallerStep, SubscribeStep, UnsubscribeStep

(* Failures are counted, a subscriber_ without on_message is main's, and    *)
(* main holds callbacks_mutex_ in its loops only.                          *)
LEMMA MainRest ==
  ASSUME TypeOK, CallerStep(Main)
  PROVE  /\ failures' \in {failures, failures + 1}
         /\ \/ subscriber' = subscriber
            \/ Goto("create", {"register"})
            \/ subscriber' = "ready"
            \/ Goto("reset", {"idle"}) /\ subscriber' = "none"
         /\ \/ cbMutex' = NoThread
            \/ UNCHANGED cbMutex /\ pc'[Main] = pc[Main]
            \/ UNCHANGED cbMutex /\ pc[Main] \notin {"resubscribe", "removeAll"}
            \/ pc'[Main] \in {"resubscribe", "removeAll"}
         /\ \/ pc'[Consumer] = pc[Consumer]
            \/ pc[Main] \in {"join", "start"} /\ pc'[Consumer] \in {"none", "test"}
         /\ pc[Main] = "register" =>
              subscriber' = "ready" \/ pc'[Main] \in {"register", "reset"}
         /\ pc[Main] = "reset" => subscriber' = "none"
         /\ pc[Main] = "publish" => UNCHANGED <<requested, sent, subscribed>>
<1> USE MainOnly DEF Moves, Goes, Goto, Only, Client, ClientCalls, NewLink, data, wire, link, flags, Fails
<1>0. pc \in [Threads -> Places \cup ConsumerPlaces]
  BY DEF TypeOK
<1>1. CASE LockClient(Main)
  BY <1>0, <1>1 DEF LockClient, WantsClient, Uses
<1>2. CASE Insert(Main) \/ Check(Main) \/ Recheck(Main) \/ Add(Main)
  BY <1>0, <1>2 DEF Insert, Check, Recheck, Add
<1>3. CASE Create(Main) \/ Register(Main) \/ Reset(Main)
  BY <1>0, <1>3 DEF Create, Register, Reset
<1>4. CASE \/ LoopBegins(Main, "resubscribing", "resubscribe")
           \/ LoopEnds(Main, "resubscribe", "join")
           \/ LoopBegins(Main, "removing", "removeAll")
           \/ LoopEnds(Main, "removeAll", "clear")
  BY <1>0, <1>4 DEF LoopBegins, LoopEnds
<1>5. CASE Resubscribe(Main) \/ RemoveAll(Main)
  BY <1>0, <1>5 DEF Resubscribe, RemoveAll, LoopThrows
<1>6. CASE Join(Main) \/ Start(Main)
  BY <1>0, <1>6 DEF Join, Start
<1>7. CASE Find(Main) \/ Erase(Main)
  BY <1>0, <1>7 DEF Find, Erase
<1>8. CASE Remove(Main)
  BY <1>0, <1>8 DEF Remove
<1>9. CASE Empty(Main) \/ Halt(Main) \/ Stop(Main) \/ Clear(Main)
  BY <1>0, <1>9 DEF Empty, Halt, Stop, Clear
<1>10. CASE Publishes(Main) \/ LastJoin(Main)
  BY <1>0, <1>10 DEF Publishes, Published, LastJoin
<1> QED
  BY <1>1, <1>2, <1>3, <1>4, <1>5, <1>6, <1>7, <1>8, <1>9, <1>10
  DEF CallerStep, SubscribeStep, UnsubscribeStep

(* And what a step of the consumer leaves alone.                           *)
LEMMA ConsumerRest ==
  ASSUME TypeOK, Consumes
  PROVE  /\ UNCHANGED <<program, owner, callbacks, arg, published, subscriber, cbMutex,
                        requested, subscribed>>
         /\ sent' \in {sent, requested}
         /\ pc'[Main] = pc[Main] /\ pc[Consumer] # "broken" /\ pc'[Consumer] # "broken"
         /\ failures' \in {failures, failures + 1}
         /\ \/ UNCHANGED socket
            \/ Delivers \/ (subscriber = "bare" /\ socket # <<>> /\ socket' = Tail(socket))
<1> USE MainOnly DEF Moves, Goes, Only, Client, ClientCalls, data, wire, link, flags, map,
        messages, calls, Consuming
<1>0. pc \in [Threads -> Places \cup ConsumerPlaces]
  BY DEF TypeOK
<1>1. UNCHANGED <<program, owner>>
  BY DEF Consumes
<1>2. CASE LockClient(Consumer)
  BY <1>0, <1>1, <1>2 DEF LockClient, WantsClient, Uses
<1>3. CASE Tests \/ Sends \/ Receives \/ ReceivesNothing
  BY <1>0, <1>1, <1>3 DEF Tests, Sends, Receives, ReceivesNothing
<1>4. CASE Delivers
  BY <1>0, <1>1, <1>4 DEF Delivers
<1>5. CASE Drops
  BY <1>0, <1>1, <1>5 DEF Drops
<1>6. CASE LosesConnection
  BY <1>0, <1>1, <1>6 DEF LosesConnection, Fails
<1> QED
  BY <1>2, <1>3, <1>4, <1>5, <1>6 DEF Consumes, ConsumerStep

(* The server changes what it knows, and nothing else.                     *)
LEMMA ServesRest ==
  ASSUME Serves
  PROVE  /\ UNCHANGED <<program, owner, callee, pool, callbacks, arg, published, handed,
                        subscriber, cbMutex, requested, sent, socket, pc, failures>>
         /\ sent # subscribed
BY DEF Serves, ServerStep, Obeys, flags, map, messages, calls

-----------------------------------------------------------------------------
(* Where main is. *)

LEMMA BeginEffect ==
  ASSUME TypeOK, NEW place, NEW c, Begin(Main, place, c)
  PROVE  /\ pc[Main] = "idle" /\ pc'[Main] = place /\ pc'[Consumer] = pc[Consumer]
         /\ arg'[Main] = c
         /\ UNCHANGED <<callbacks, cbMutex, subscriber, requested, sent, subscribed,
                        socket, published, handed, failures>>
BY MainOnly DEF Begin, Moves, Goes, TypeOK, flags, map, wire, link, messages

LEMMA SkipEffect ==
  ASSUME UNCHANGED vars
  PROVE  UNCHANGED <<pc, arg, callbacks, cbMutex, subscriber, requested, sent, subscribed,
                     socket, published, handed, failures>>
BY DEF vars, data, map, wire, link, messages, calls, flags

LEMMA ExitEffect ==
  ASSUME TypeOK, Exit
  PROVE  \E place \in {"stop", "find"} : Finished /\ Begin(Main, place, AtExit)
BY DEF Exit, Destroy

(* A step of main inside the channel keeps main's place in the             *)
(* demonstration, unless an unsubscribe throws.                            *)
LEMMA InnerPlan ==
  ASSUME PlanInv, Inner
  PROVE  \/ Goto("remove", {"idle"}) /\ PlanInv' /\ Finished' /\ frame' = 5
         \/ ~Goto("remove", {"idle"}) /\ UNCHANGED <<frame, left, first>>
BY PlanLeft DEF Inner, Unwinds, Goto

LEMMA MainInit == DemoInit => MainInv
<1> SUFFICES ASSUME DemoInit PROVE MainInv
  OBVIOUS
<1>1. /\ pc[Main] = "idle" /\ pc[Consumer] = "none" /\ subscriber = "none"
      /\ arg[Main] = Every /\ cbMutex = NoThread /\ Every # AtExit
  BY MainOnly, RedisChannelAssumption DEF DemoInit, Init
<1> QED
  BY <1>1 DEF MainInv, Broken

LEMMA MainKept ==
  ASSUME MainInv, UNCHANGED <<arg, subscriber, cbMutex, frame, left>>,
         pc'[Main] = pc[Main], Broken' <=> Broken
  PROVE  MainInv'
BY PlanKept DEF MainInv

LEMMA MainStatement ==
  ASSUME TypeOK, PlanInv, MainInv, Statement
  PROVE  MainInv'
<1>1. PICK i \in 1 .. Len(Plan) :
         /\ i = At + 1 /\ pc[Main] = "idle"
         /\ \/ /\ i <= Ons[frame] /\ Plan[i] = On(Plan[i].channel)
               /\ Plan[i].channel \in Channels
               /\ Begin(Main, "insert", Plan[i].channel)
            \/ /\ Ons[frame] + 1 < i /\ i < WaitAt
               /\ Plan[i].channel \in Channels
               /\ Begin(Main, "publish", Plan[i].channel) \/ UNCHANGED vars
            \/ UNCHANGED vars
            \/ /\ i > WaitAt /\ Plan[i] = Off(Plan[i].channel)
               /\ Plan[i].channel \in Channels
               /\ Begin(Main, "find", Plan[i].channel)
  BY StatementCases
<1>2. /\ ~Finished /\ ~Finished' /\ Plan' = Plan /\ WaitAt' = WaitAt /\ At' = i
      /\ Now' = Plan[i] /\ Ons[frame]' = Ons[frame] /\ Ons[frame] \in Nat /\ i \in Nat
  BY <1>1, StatementTaken, StatementPlan, PlanFacts DEF Ons
<1>3. Plan[i].channel \in Channels => Plan[i].channel # AtExit
  BY RedisChannelAssumption
<1>4. CASE UNCHANGED vars
  <2>1. UNCHANGED <<pc, arg, subscriber, cbMutex>>
    BY <1>4, SkipEffect
  <2> QED
    BY <1>1, <1>2, <2>1 DEF MainInv, Broken
<1>5. ASSUME NEW place \in {"insert", "publish", "find"},
             Begin(Main, place, Plan[i].channel), Plan[i].channel \in Channels
      PROVE  /\ pc'[Main] = place /\ arg'[Main] = Plan[i].channel /\ arg'[Main] # AtExit
             /\ Broken' <=> pc'[Main] = "broken"
             /\ subscriber' = "bare" => pc'[Main] \in {"register", "reset", "broken"}
             /\ cbMutex' # NoThread => pc'[Main] \in {"resubscribe", "removeAll", "broken"}
  BY <1>1, <1>3, <1>5, BeginEffect DEF MainInv, Broken
<1>6. CASE /\ i <= Ons[frame] /\ Plan[i] = On(Plan[i].channel)
           /\ Plan[i].channel \in Channels /\ Begin(Main, "insert", Plan[i].channel)
  <2>1. i \in 1 .. Ons[frame]
    BY <1>2, <1>6, PlanFacts
  <2> QED
    BY <1>2, <1>5, <1>6, <2>1 DEF MainInv
<1>7. CASE /\ Ons[frame] + 1 < i /\ i < WaitAt /\ Plan[i].channel \in Channels
           /\ Begin(Main, "publish", Plan[i].channel)
  <2>1. i > Ons[frame] + 1
    BY <1>2, <1>7
  <2> QED
    BY <1>2, <1>5, <1>7, <2>1 DEF MainInv
<1>8. CASE /\ i > WaitAt /\ Plan[i] = Off(Plan[i].channel)
           /\ Plan[i].channel \in Channels /\ Begin(Main, "find", Plan[i].channel)
  BY <1>2, <1>5, <1>8 DEF MainInv, Removing
<1> QED
  BY <1>1, <1>4, <1>6, <1>7, <1>8

LEMMA MainInner ==
  ASSUME TypeOK, PlanInv, MainInv, Inner
  PROVE  MainInv'
<1>0. CallerStep(Main)
  BY DEF Inner
<1>1. UNCHANGED arg /\ ~Broken /\ pc[Main] # "broken"
  BY <1>0, MainMessages, MainPlaces DEF MainInv, Goto, Uses
<1>2. ~Broken' /\ pc'[Main] # "broken"
  <2>1. pc'[Consumer] # "broken"
    BY <1>0, <1>1, MainRest DEF Broken
  <2> QED
    BY <1>0, <1>1, <2>1, MainPlaces DEF Goto, Broken, Back
<1>3. subscriber' = "bare" => pc'[Main] \in {"register", "reset", "broken"}
  BY <1>0, <1>1, MainRest, MainPlaces DEF MainInv, Goto, Uses
<1>4. cbMutex' # NoThread => pc'[Main] \in {"resubscribe", "removeAll", "broken"}
  BY <1>0, <1>1, MainRest DEF MainInv
<1>5. CASE Goto("remove", {"idle"})
  <2>1. Finished' /\ pc'[Main] = "idle"
    BY <1>5, InnerPlan DEF Goto
  <2> QED
    BY <1>2, <1>3, <1>4, <2>1 DEF MainInv
<1>6. CASE ~Goto("remove", {"idle"})
  <2>1. UNCHANGED <<frame, left>>
    BY <1>6, InnerPlan
  <2>2. /\ Plan' = Plan /\ At' = At /\ Now' = Now /\ WaitAt' = WaitAt
        /\ Finished' <=> Finished
        /\ Ons[frame]' = Ons[frame]
    BY <2>1, PlanKept DEF Ons
  <2>3. CASE Finished
    <3>1. pc[Main] \in Leaving /\ arg[Main] = AtExit
      BY <1>0, <1>1, <2>3, MainPlaces DEF MainInv, Goto, Uses
    <3>2. arg[Main] \notin callbacks
      BY <3>1, RedisChannelAssumption DEF TypeOK
    <3>3. Back(Main) = "lastJoin"
      BY <3>1 DEF Back, Dying
    <3>4. pc'[Main] \in Leaving
      BY <1>0, <3>1, <3>2, <3>3, MainPlaces DEF Goto, Leaving, Uses
    <3> QED
      BY <1>1, <1>2, <1>3, <1>4, <2>2, <2>3, <3>1, <3>4 DEF MainInv
  <2>4. CASE ~Finished
    <3>1. arg[Main] # AtExit /\ Back(Main) = "idle"
      BY <2>4 DEF MainInv, Back, Dying
    <3>2. CASE pc[Main] \in Adding \cup {"insert"}
      <4>1. pc'[Main] \in Adding \cup {"idle"} \/ pc'[Main] = pc[Main]
        BY <1>0, <3>2, MainPlaces DEF Goto, Adding
      <4>2. At \in 1 .. Ons[frame] /\ Now = On(arg[Main])
        BY <2>4, <3>2 DEF MainInv, Adding, Removing
      <4> QED
        BY <1>1, <1>2, <1>3, <1>4, <2>2, <2>4, <3>1, <3>2, <4>1, <4>2 DEF MainInv
    <3>3. CASE pc[Main] = "publish"
      <4>1. pc'[Main] \in {"idle", "publish"}
        BY <1>0, <3>3, MainPlaces DEF Goto
      <4>2. At > Ons[frame] + 1 /\ At < WaitAt /\ Now.channel = arg[Main]
        BY <2>4, <3>3 DEF MainInv, Adding, Removing
      <4> QED
        BY <1>1, <1>2, <1>3, <1>4, <2>2, <2>4, <3>1, <4>1, <4>2 DEF MainInv
    <3>4. CASE pc[Main] \in Removing
      <4>1. pc'[Main] \in Removing \cup {"idle"} \/ pc'[Main] = pc[Main]
        BY <1>0, <3>1, <3>4, MainPlaces DEF Goto, Removing
      <4>2. At > WaitAt /\ Now = Off(arg[Main])
        BY <2>4, <3>4 DEF MainInv, Adding, Removing
      <4> QED
        BY <1>1, <1>2, <1>3, <1>4, <2>2, <2>4, <3>1, <3>4, <4>1, <4>2 DEF MainInv
    <3>5. pc[Main] # "idle"
      BY <1>0, MainPlaces DEF Goto, Uses
    <3> QED
      BY <1>1, <2>4, <3>2, <3>3, <3>4, <3>5 DEF MainInv
  <2> QED
    BY <2>3, <2>4
<1> QED
  BY <1>5, <1>6

LEMMA MainStepKeeps ==
  ASSUME TypeOK, PlanInv, MainInv, [DemoNext]_demoVars
  PROVE  MainInv'
<1>1. CASE Statement
  BY <1>1, MainStatement
<1>2. CASE Return
  <2>1. UNCHANGED <<pc, arg, subscriber, cbMutex>> /\ pc[Main] = "idle" /\ ~Finished
    BY <1>2, SkipEffect DEF Return
  <2> QED
    BY <2>1 DEF MainInv, Broken
<1>3. CASE Exit
  <2>1. PICK place \in {"stop", "find"} : Finished /\ Begin(Main, place, AtExit)
    BY <1>3, ExitEffect
  <2>2. UNCHANGED <<frame, left>>
    BY <1>3 DEF Exit, program
  <2>3. Finished'
    BY <2>1, <2>2, PlanKept
  <2> QED
    BY <2>1, <2>3, BeginEffect DEF MainInv, Broken, Leaving
<1>4. CASE Inner
  BY <1>4, MainInner
<1>5. CASE Consumes
  <2>1. /\ UNCHANGED <<arg, subscriber, cbMutex, frame, left>> /\ pc'[Main] = pc[Main]
        /\ ~Broken /\ ~Broken'
    BY <1>5, ConsumerRest DEF program, Broken
  <2> QED
    BY <2>1, MainKept
<1>6. CASE UNCHANGED vars /\ UNCHANGED <<frame, left>>
  BY <1>6, SkipEffect, MainKept DEF Broken
<1>8. CASE Serves
  BY <1>8, ServesRest, MainKept DEF Broken, program
<1>7. CASE Breaks /\ UNCHANGED <<frame, left>>
  <2>1. pc'[Main] = "broken" /\ Broken' /\ UNCHANGED arg
    BY <1>7, MainOnly DEF Breaks, Broken, data, calls
  <2>2. Finished' <=> Finished
    BY <1>7, PlanKept
  <2> QED
    BY <2>1, <2>2 DEF MainInv
<1> QED
  BY <1>1, <1>2, <1>3, <1>4, <1>5, <1>6, <1>7, <1>8
  DEF DemoNext, MainStep, Works, Closes, Crashes, program, demoVars

-----------------------------------------------------------------------------
(* The entries of callbacks_. *)

Owned == ~Finished => \A c \in callbacks : owner[c] # <<>> /\ owner[c][1] = frame
Released(c) ==
  \/ \E j \in At + 1 .. Len(Plan) : Plan[j] = Off(c)
  \/ pc[Main] \in {"find", "remove", "erase"} /\ arg[Main] = c
Registered(j) ==
  \/ Plan[j].channel \in callbacks
  \/ pc[Main] = "insert" /\ arg[Main] = Plan[j].channel

LEMMA EntryParts ==
  EntryInv <=>
    /\ owner \in [Channels -> Tags]
    /\ Owned
    /\ ~Finished /\ ~Broken =>
         /\ \A c \in callbacks : Released(c)
         /\ At <= WaitAt => \A j \in 1 .. Ons[frame] : j <= At => Registered(j)
BY DEF EntryInv, Owned, Released, Registered

LEMMA EntryPartsNext ==
  ASSUME owner' \in [Channels -> Tags], Owned',
         ~Finished' /\ ~Broken' =>
           /\ \A c \in callbacks' : Released(c)'
           /\ At' <= WaitAt' => \A j \in 1 .. Ons[frame'] : j <= At' => Registered(j)'
  PROVE  EntryInv'
BY DEF EntryInv, Owned, Released, Registered, Ons

LEMMA EntryInit == DemoInit => EntryInv
<1> SUFFICES ASSUME DemoInit PROVE EntryInv
  OBVIOUS
<1>1. callbacks = {} /\ owner = [c \in Channels |-> <<>>] /\ frame = 1
  BY DEF DemoInit, Init
<1>2. owner \in [Channels -> Tags]
  BY <1>1 DEF Tags
<1>3. PlanInv /\ ~Finished /\ Len(left) = Len(Plan)
  BY <1>1, PlanInit, Frames DEF Finished, DemoInit, Plan
<1>4. At = 0
  BY <1>3, PlanFacts DEF At
<1>5. \A j \in 1 .. Ons[frame] : ~(j <= At)
  BY <1>4, <1>3, PlanFacts
<1> QED
  BY <1>1, <1>2, <1>5 DEF EntryInv

(* The statement that unsubscribes from a channel starts to remove it. *)
LEMMA EntryStatement ==
  ASSUME TypeOK, PlanInv, MainInv, EntryInv, Statement
  PROVE  EntryInv'
<1>1. PICK i \in 1 .. Len(Plan) :
         /\ i = At + 1 /\ pc[Main] = "idle" /\ UNCHANGED <<frame, owner>>
         /\ \/ /\ i <= Ons[frame] /\ Plan[i] = On(Plan[i].channel)
               /\ Begin(Main, "insert", Plan[i].channel)
            \/ /\ Ons[frame] + 1 < i /\ i < WaitAt
               /\ Begin(Main, "publish", Plan[i].channel) \/ UNCHANGED vars
            \/ i \in {Ons[frame] + 1, WaitAt} /\ UNCHANGED vars
            \/ /\ i > WaitAt /\ Plan[i] = Off(Plan[i].channel)
               /\ Begin(Main, "find", Plan[i].channel)
  BY StatementCases
<1>2. /\ ~Finished /\ ~Finished' /\ Plan' = Plan /\ WaitAt' = WaitAt /\ At' = i
      /\ ~Broken
  BY <1>1, StatementTaken, StatementPlan DEF MainInv
<1>3. UNCHANGED callbacks
  BY <1>1, BeginEffect, SkipEffect
<1>4. /\ owner \in [Channels -> Tags] /\ Owned
      /\ \A c \in callbacks : \E j \in At + 1 .. Len(Plan) : Plan[j] = Off(c)
      /\ At <= WaitAt =>
           \A j \in 1 .. Ons[frame] : j <= At => Plan[j].channel \in callbacks
  BY <1>1, <1>2, EntryParts DEF Released, Registered
<1>5. Owned'
  BY <1>1, <1>2, <1>3, <1>4 DEF Owned
<1>6. /\ At \in 0 .. Len(Plan) /\ Len(Plan) \in Nat /\ WaitAt \in Nat
      /\ Ons[frame] \in Nat /\ Ons[frame] + 1 < WaitAt
  BY <1>2, PlanFacts
<1>7. ASSUME NEW c \in callbacks' PROVE Released(c)'
  <2>1. PICK j \in At + 1 .. Len(Plan) : Plan[j] = Off(c)
    BY <1>3, <1>4, <1>7
  <2>2. CASE j > i
    <3>1. j \in At' + 1 .. Len(Plan')
      BY <1>2, <1>6, <2>2
    <3> QED
      BY <1>2, <2>1, <3>1 DEF Released
  <2>3. CASE j = i
    <3>1. Plan[i].do = "unsubscribe" /\ Plan[i].channel = c
      BY <2>1, <2>3 DEF Off
    <3>2. i > WaitAt
      BY <1>1, <1>2, <1>6, <3>1, PlanStatement
    <3>3. Begin(Main, "find", c)
      BY <1>1, <1>6, <3>1, <3>2
    <3> QED
      BY <3>3, BeginEffect DEF Released
  <2> QED
    BY <1>1, <1>6, <2>1, <2>2, <2>3
<1>8. ASSUME At' <= WaitAt', NEW j \in 1 .. Ons[frame'], j <= At' PROVE Registered(j)'
  <2>1. j \in 1 .. Ons[frame] /\ At <= WaitAt /\ (j <= At \/ j = i)
    BY <1>1, <1>2, <1>6, <1>8
  <2>2. CASE j <= At
    BY <1>2, <1>3, <1>4, <2>1, <2>2 DEF Registered
  <2>3. CASE j = i
    <3>1. Begin(Main, "insert", Plan[i].channel)
      BY <1>1, <1>6, <2>1, <2>3
    <3> QED
      BY <1>2, <2>3, <3>1, BeginEffect DEF Registered
  <2> QED
    BY <2>1, <2>2, <2>3
<1> QED
  BY <1>1, <1>4, <1>5, <1>7, <1>8, EntryPartsNext

(* A frame is left with no entry. *)
LEMMA EntryReturn ==
  ASSUME PlanInv, MainInv, EntryInv, Return
  PROVE  EntryInv' /\ callbacks = {}
<1>1. /\ pc[Main] = "idle" /\ ~Finished /\ UNCHANGED <<callbacks, owner>> /\ ~Broken
  BY SkipEffect DEF Return, MainInv
<1>2. At = Len(Plan) /\ Len(Plan) \in Nat
  BY <1>1, ReturnPlan, PlanFacts
<1>3. \A c \in callbacks : Released(c)
  BY <1>1, EntryParts
<1>4. callbacks = {}
  BY <1>1, <1>2, <1>3 DEF Released
<1>5. ASSUME ~Finished', NEW j \in 1 .. Ons[frame'], j <= At' PROVE FALSE
  <2>1. At' = 0 /\ PlanInv'
    BY <1>5, ReturnPlan
  <2>2. Ons[frame'] \in Nat
    BY <1>5, <2>1, Sizes, ReturnPlan DEF Ons
  <2> QED
    BY <1>5, <2>1, <2>2
<1>6. owner' \in [Channels -> Tags]
  BY <1>1 DEF EntryInv
<1>7. Owned'
  BY <1>1, <1>4 DEF Owned
<1> QED
  BY <1>1, <1>4, <1>5, <1>6, <1>7, EntryPartsNext

LEMMA EntryInsert ==
  ASSUME TypeOK, PlanInv, MainInv, EntryInv, Inner, pc[Main] = "insert"
  PROVE  /\ EntryInv' /\ ~Finished /\ Now = On(arg[Main]) /\ At \in 1 .. Ons[frame]
         /\ arg[Main] \in Channels /\ pc'[Main] = "check"
         /\ owner' = [owner EXCEPT ![arg[Main]] = <<frame, At>>]
<1>0. CallerStep(Main) /\ UNCHANGED <<frame, left>> /\ pc'[Main] = "check"
  BY MainPlaces DEF Inner, Unwinds, Goto, Uses
<1>1. /\ ~Finished /\ Now = On(arg[Main]) /\ At \in 1 .. Ons[frame]
      /\ ~Broken
  BY DEF MainInv, Adding, Removing, Leaving
<1>2. callbacks' = callbacks \cup {arg[Main]} /\ UNCHANGED arg
  BY <1>0, MainCallbacks, MainMessages
<1>3. owner' = [owner EXCEPT ![arg[Main]] = <<frame, At>>]
  BY DEF Inner, Registers, At, Plan
<1>4. /\ At \in 0 .. Len(Plan) /\ Len(Plan) \in Nat /\ WaitAt \in Nat /\ At \in Nat
      /\ Ons[frame] \in Nat /\ Ons[frame] < WaitAt /\ frame \in 1 .. 4
      /\ WaitAt <= Len(Plan)
  BY <1>1, PlanFacts
<1>5. /\ Plan' = Plan /\ At' = At /\ WaitAt' = WaitAt /\ (Finished' <=> Finished)
  BY <1>0, PlanKept
<1>6. Plan[At] = On(arg[Main]) /\ At \in 1 .. Len(Plan)
  BY <1>1, <1>4 DEF Now
<1>7. Plan[At].channel = arg[Main] /\ arg[Main] \in Channels
  <2>1. Plan[At].do = "subscribe" /\ Plan[At].channel = arg[Main]
    BY <1>6 DEF On
  <2> QED
    BY <1>1, <1>6, <2>1, PlanStatement
<1>8. owner \in [Channels -> Tags] /\ <<frame, At>> \in Tags
  BY <1>4 DEF EntryInv, Tags
<1>9. owner' \in [Channels -> Tags]
  BY <1>3, <1>7, <1>8
<1>10. owner'[arg[Main]] = <<frame, At>>
       /\ \A c \in Channels : c # arg[Main] => owner'[c] = owner[c]
  BY <1>3, <1>7, <1>8
<1>11. Owned'
  <2>1. \A c \in callbacks : owner[c] # <<>> /\ owner[c][1] = frame
    BY <1>1 DEF EntryInv
  <2>2. frame' = frame /\ callbacks \subseteq Channels
    BY <1>0 DEF TypeOK
  <2> QED
    BY <1>2, <1>10, <2>1, <2>2 DEF Owned
<1>12. ASSUME NEW c \in callbacks' PROVE Released(c)'
  <2>1. CASE c = arg[Main]
    <3>1. PICK j \in 1 .. Len(Plan) : Plan[j] = Off(c)
      BY <1>1, <1>4, <1>6, <1>7, <2>1, PlanStatement
    <3>2. Plan[j].do = "unsubscribe"
      BY <3>1 DEF Off
    <3>3. ~(j <= Ons[frame])
      BY <1>1, <3>2, PlanStatement
    <3>4. j \in At' + 1 .. Len(Plan')
      BY <1>1, <1>4, <1>5, <3>3
    <3> QED
      BY <1>5, <3>1, <3>4 DEF Released
  <2>2. CASE c \in callbacks
    <3>1. \E j \in At + 1 .. Len(Plan) : Plan[j] = Off(c)
      BY <1>1, <2>2, EntryParts DEF Released
    <3> QED
      BY <1>5, <3>1 DEF Released
  <2> QED
    BY <1>2, <1>12, <2>1, <2>2
<1>13. ASSUME NEW j \in 1 .. Ons[frame'], j <= At' PROVE Registered(j)'
  <2>1. j \in 1 .. Ons[frame] /\ j <= At /\ At <= WaitAt
    BY <1>0, <1>1, <1>4, <1>5, <1>13
  <2>2. Plan[j].channel \in callbacks \/ Plan[j].channel = arg[Main]
    BY <1>1, <2>1, EntryParts DEF Registered
  <2> QED
    BY <1>2, <1>5, <2>2 DEF Registered
<1>14. EntryInv'
  BY <1>9, <1>11, <1>12, <1>13, EntryPartsNext
<1> QED
  BY <1>0, <1>1, <1>3, <1>7, <1>14

LEMMA EntryInner ==
  ASSUME TypeOK, PlanInv, MainInv, EntryInv, Inner, pc[Main] # "insert"
  PROVE  EntryInv'
<1>0. CallerStep(Main) /\ owner' = owner
  BY DEF Inner, Registers
<1>1. owner' \in [Channels -> Tags]
  BY <1>0 DEF EntryInv
<1>2. CASE Finished'
  BY <1>1, <1>2 DEF EntryInv
<1>3. CASE ~Finished'
  <2>1. UNCHANGED <<frame, left>> /\ ~Goto("remove", {"idle"})
    BY <1>3, InnerPlan
  <2>2. /\ Plan' = Plan /\ At' = At /\ WaitAt' = WaitAt /\ ~Finished
    BY <1>3, <2>1, PlanKept
  <2>3. ~Broken /\ UNCHANGED arg /\ callbacks' \subseteq callbacks
    BY <1>0, MainPlaces, MainCallbacks, MainMessages DEF MainInv, Goto, Uses
  <2>4. Owned'
    BY <1>0, <2>1, <2>2, <2>3 DEF EntryInv, Owned
  <2>5. ASSUME NEW c \in callbacks' PROVE Released(c)'
    <3>1. Released(c)
      BY <2>2, <2>3, <2>5, EntryParts
    <3>2. CASE \E j \in At + 1 .. Len(Plan) : Plan[j] = Off(c)
      BY <2>2, <3>2 DEF Released
    <3>3. CASE pc[Main] \in {"find", "remove", "erase"} /\ arg[Main] = c
      <4>1. pc'[Main] \in {"find", "remove", "erase"}
        BY <1>0, <2>1, <2>3, <2>5, <3>3, MainPlaces, MainCallbacks DEF Goto
      <4> QED
        BY <2>3, <3>3, <4>1 DEF Released
    <3> QED
      BY <3>1, <3>2, <3>3 DEF Released
  <2>6. ASSUME At' <= WaitAt', NEW j \in 1 .. Ons[frame'], j <= At' PROVE Registered(j)'
    <3>1. j \in 1 .. Ons[frame] /\ j <= At /\ At <= WaitAt
      BY <2>1, <2>2, <2>6
    <3>2. Plan[j].channel \in callbacks
      BY <2>2, <2>3, <3>1, EntryParts DEF Registered
    <3>3. WaitAt \in Nat /\ At \in Nat
      BY <2>2, PlanFacts
    <3>4. pc[Main] \notin {"erase", "clear"}
      BY <2>2, <3>1, <3>3 DEF MainInv, Adding, Removing
    <3>5. callbacks' = callbacks
      BY <1>0, <3>4, MainCallbacks
    <3> QED
      BY <2>2, <3>2, <3>5 DEF Registered
  <2> QED
    BY <1>1, <2>4, <2>5, <2>6, EntryPartsNext
<1> QED
  BY <1>2, <1>3

LEMMA EntryKept ==
  ASSUME EntryInv, UNCHANGED <<owner, callbacks, frame, left, arg>>,
         Broken' \/ (pc'[Main] = pc[Main] /\ ~Broken)
  PROVE  EntryInv'
<1>1. /\ Plan' = Plan /\ At' = At /\ WaitAt' = WaitAt /\ (Finished' <=> Finished)
  BY PlanKept
<1> QED
  BY <1>1 DEF EntryInv

LEMMA EntryStep ==
  ASSUME TypeOK, PlanInv, MainInv, EntryInv, [DemoNext]_demoVars
  PROVE  EntryInv'
<1>1. CASE Statement
  BY <1>1, EntryStatement
<1>2. CASE Return
  BY <1>2, EntryReturn
<1>3. CASE Exit
  <2>1. PICK place \in {"stop", "find"} : Finished /\ Begin(Main, place, AtExit)
    BY <1>3, ExitEffect
  <2>2. UNCHANGED <<frame, left, owner>>
    BY <1>3 DEF Exit, program
  <2>3. Finished'
    BY <2>1, <2>2, PlanKept
  <2> QED
    BY <2>2, <2>3 DEF EntryInv
<1>4. CASE Inner
  BY <1>4, EntryInner, EntryInsert
<1>5. CASE Consumes
  BY <1>5, ConsumerRest, EntryKept DEF program, Broken
<1>6. CASE UNCHANGED vars /\ UNCHANGED <<frame, left, owner>>
  <2>1. UNCHANGED <<pc, arg, callbacks>>
    BY <1>6, SkipEffect
  <2> QED
    BY <1>6, <2>1, EntryKept DEF Broken
<1>8. CASE Serves
  BY <1>8, ServesRest, EntryKept DEF Broken, program
<1>7. CASE Breaks /\ UNCHANGED <<frame, left, owner>>
  <2>1. Broken' /\ UNCHANGED <<arg, callbacks>>
    BY <1>7, MainOnly DEF Breaks, Broken, data, calls, map
  <2> QED
    BY <1>7, <2>1, EntryKept
<1> QED
  BY <1>1, <1>2, <1>3, <1>4, <1>5, <1>6, <1>7, <1>8
  DEF DemoNext, MainStep, Works, Closes, Crashes, program, demoVars

-----------------------------------------------------------------------------
(* The pool. *)

InQueue == {pending[i] : i \in DOMAIN pending}

LEMMA RangeTail ==
  ASSUME NEW S, NEW s \in Seq(S), s # <<>>
  PROVE  {s[i] : i \in DOMAIN s} = {Head(s)} \cup {Tail(s)[i] : i \in DOMAIN Tail(s)}
<1>1. /\ Len(s) \in Nat \ {0} /\ DOMAIN s = 1 .. Len(s) /\ Head(s) = s[1]
      /\ DOMAIN Tail(s) = 1 .. Len(s) - 1
      /\ \A i \in 1 .. Len(s) - 1 : Tail(s)[i] = s[i + 1]
  OBVIOUS
<1>2. ASSUME NEW i \in 1 .. Len(s)
      PROVE  s[i] \in {Head(s)} \cup {Tail(s)[j] : j \in DOMAIN Tail(s)}
  <2>1. CASE i = 1
    BY <1>1, <2>1
  <2>2. CASE i # 1
    <3>1. i - 1 \in 1 .. Len(s) - 1 /\ (i - 1) + 1 = i
      BY <1>1, <2>2
    <3>2. Tail(s)[i - 1] = s[i]
      BY <1>1, <3>1
    <3> QED
      BY <1>1, <3>1, <3>2
  <2> QED
    BY <2>1, <2>2
<1>3. \A j \in 1 .. Len(s) - 1 : j + 1 \in 1 .. Len(s) /\ Tail(s)[j] = s[j + 1]
  BY <1>1
<1>4. 1 \in 1 .. Len(s)
  BY <1>1
<1>5. ASSUME NEW x \in {Head(s)} \cup {Tail(s)[j] : j \in DOMAIN Tail(s)}
      PROVE  x \in {s[i] : i \in DOMAIN s}
  BY <1>1, <1>3, <1>4, <1>5
<1> QED
  BY <1>1, <1>2, <1>5

LEMMA RangeAppend ==
  ASSUME NEW S, NEW s \in Seq(S), NEW x \in S
  PROVE  /\ Append(s, x) \in Seq(S)
         /\ {Append(s, x)[i] : i \in DOMAIN Append(s, x)} = {s[i] : i \in DOMAIN s} \cup {x}
<1>1. /\ Len(s) \in Nat /\ DOMAIN s = 1 .. Len(s) /\ Append(s, x) \in Seq(S)
      /\ DOMAIN Append(s, x) = 1 .. Len(s) + 1
      /\ \A i \in 1 .. Len(s) : Append(s, x)[i] = s[i]
      /\ Append(s, x)[Len(s) + 1] = x
  OBVIOUS
<1>2. \A i \in 1 .. Len(s) + 1 : i \in 1 .. Len(s) \/ i = Len(s) + 1
  BY <1>1
<1>3. Len(s) + 1 \in 1 .. Len(s) + 1 /\ \A i \in 1 .. Len(s) : i \in 1 .. Len(s) + 1
  BY <1>1
<1>4. ASSUME NEW y \in {Append(s, x)[i] : i \in DOMAIN Append(s, x)}
      PROVE  y \in {s[i] : i \in DOMAIN s} \cup {x}
  BY <1>1, <1>2, <1>4
<1>5. ASSUME NEW y \in {s[i] : i \in DOMAIN s} \cup {x}
      PROVE  y \in {Append(s, x)[i] : i \in DOMAIN Append(s, x)}
  BY <1>1, <1>3, <1>5
<1> QED
  BY <1>1, <1>4, <1>5

(* Workers take tasks along. *)
LEMMA WorksEffect ==
  ASSUME PoolInv, Works
  PROVE  /\ PoolInv' /\ UNCHANGED <<vars, program, owner, callee>>
         /\ Waiting' \cup done' = Waiting \cup done /\ Waiting' \subseteq Waiting
         /\ ~(pending = <<>> /\ executing = {})
<1>1. UNCHANGED <<vars, program, owner, callee>>
  BY DEF Works
<1>2. UNCHANGED hurried
  BY <1>1 DEF program
<1>3. CASE Pool!Begin
  <2>1. /\ pending # <<>> /\ executing' = executing \cup {Head(pending)}
        /\ pending' = Tail(pending) /\ UNCHANGED done
    BY <1>3 DEF Pool!Begin
  <2>2. /\ pending \in Seq(1 .. MaxMessages) /\ executing \subseteq 1 .. MaxMessages
        /\ done \subseteq 1 .. MaxMessages /\ callee \in [1 .. MaxMessages -> Tags]
        /\ hurried \in BOOLEAN
    BY DEF PoolInv
  <2>3. Head(pending) \in 1 .. MaxMessages /\ Tail(pending) \in Seq(1 .. MaxMessages)
    BY <2>1, <2>2, HeadTailProperties
  <2>4. InQueue = {Head(pending)} \cup InQueue'
    <3>1. {pending[i] : i \in DOMAIN pending} =
            {Head(pending)} \cup {Tail(pending)[i] : i \in DOMAIN Tail(pending)}
      BY <2>1, <2>2, RangeTail
    <3> QED
      BY <2>1, <3>1 DEF InQueue
  <2>5. Waiting = executing \cup InQueue /\ Waiting' = executing' \cup InQueue'
    BY DEF Waiting, InQueue
  <2>6. PoolInv'
    BY <1>1, <1>2, <2>1, <2>2, <2>3 DEF PoolInv
  <2> QED
    BY <1>1, <2>1, <2>4, <2>5, <2>6
<1>4. ASSUME NEW n \in executing, Pool!End(n)
      PROVE  /\ PoolInv' /\ executing # {}
             /\ Waiting' \cup done' = Waiting \cup done /\ Waiting' \subseteq Waiting
  <2>1. /\ executing' = executing \ {n} /\ done' = done \cup {n} /\ UNCHANGED pending
    BY <1>4 DEF Pool!End
  <2>2. PoolInv'
    BY <1>1, <1>2, <2>1 DEF PoolInv
  <2>3. Waiting = executing \cup InQueue /\ Waiting' = executing' \cup InQueue
    BY <2>1 DEF Waiting, InQueue
  <2> QED
    BY <2>1, <2>2, <2>3
<1> QED
  BY <1>1, <1>3, <1>4 DEF Works

LEMMA ClosesEffect ==
  ASSUME PoolInv, Closes
  PROVE  /\ PoolInv' /\ UNCHANGED <<vars, program, owner, callee, done, pending, executing>>
         /\ Waiting' = Waiting
<1>1. UNCHANGED <<vars, program, owner, callee, done, pending, executing>>
  BY DEF Closes, Pool!Close
<1> QED
  BY <1>1 DEF PoolInv, Waiting, program

(* A step of the consumer: it leaves the messages, drops the first, or     *)
(* makes a task of it, for the callback of the channel's entry.            *)
LEMMA ConsumerPool ==
  ASSUME TypeOK, PlaceInv, PoolInv, EntryInv, Consumes
  PROVE  \/ UNCHANGED <<socket, callee, pool>>
         \/ /\ socket # <<>> /\ socket' = Tail(socket) /\ UNCHANGED <<callee, pool>>
            /\ subscriber = "bare" \/ Head(socket)[1] \notin callbacks
         \/ \E n \in 1 .. MaxMessages, c \in callbacks :
              /\ socket # <<>> /\ socket' = Tail(socket) /\ Head(socket) = <<c, n>>
              /\ callee' = [callee EXCEPT ![n] = owner[c]] /\ owner[c] \in Tags
              /\ pending' = Append(pending, n) /\ UNCHANGED <<executing, done>>
              /\ n \notin Waiting \cup done
              /\ Waiting' = Waiting \cup {n}
<1>1. CASE ~Delivers
  <2>1. UNCHANGED handed
    BY <1>1 DEF Consumes, LockClient, ConsumerStep, Tests, Sends, Receives, Drops,
       ReceivesNothing, LosesConnection, Only, data, messages
  <2>2. UNCHANGED <<callee, pool>>
    BY <2>1 DEF Consumes
  <2> QED
    BY <1>1, <2>2, ConsumerRest
<1>2. CASE Delivers
  <2>1. /\ socket # <<>> /\ socket' = Tail(socket)
        /\ handed' = IF Head(socket)[1] \in callbacks
                     THEN Append(handed, Head(socket)[2]) ELSE handed
    BY <1>2 DEF Delivers, PlaceInv
  <2>2. CASE Head(socket)[1] \notin callbacks
    <3>1. UNCHANGED <<callee, pool>>
      BY <2>1, <2>2 DEF Consumes
    <3> QED
      BY <2>1, <2>2, <3>1
  <2>3. CASE Head(socket)[1] \in callbacks
    <3> DEFINE c == Head(socket)[1]
               n == Head(socket)[2]
    <3>1. c \in callbacks /\ n \in 1 .. MaxMessages /\ Head(socket) = <<c, n>>
      <4>1. socket \in Seq(Message)
        BY DEF TypeOK, Message
      <4>2. Head(socket) \in Message
        BY <2>1, <4>1
      <4> QED
        BY <2>3, <4>2 DEF Message
    <3> HIDE DEF c, n
    <3>2. handed' # handed
      <4>1. handed' = Append(handed, n) /\ handed \in Seq(1 .. MaxMessages)
        BY <2>1, <2>3 DEF n, TypeOK
      <4>2. Len(handed') = Len(handed) + 1 /\ Len(handed) \in Nat
        BY <3>1, <4>1
      <4> QED
        BY <4>2
    <3>3. Pool!Submit(n) /\ callee' = [callee EXCEPT ![n] = owner[c]]
      BY <3>2 DEF Consumes, c, n
    <3>4. /\ n \notin Pool!Known /\ pending' = Append(pending, n)
          /\ UNCHANGED <<executing, done>>
      BY <3>3 DEF Pool!Submit
    <3>5. Waiting' = Waiting \cup {n}
      <4>1. InQueue' = InQueue \cup {n}
        BY <3>1, <3>4, RangeAppend DEF InQueue, PoolInv
      <4>2. Waiting = executing \cup InQueue /\ Waiting' = executing' \cup InQueue'
        BY DEF Waiting, InQueue
      <4> QED
        BY <3>4, <4>1, <4>2
    <3>6. n \notin Waiting \cup done
      <4>1. DOMAIN pending = 1 .. Len(pending)
        BY DEF PoolInv
      <4> QED
        BY <3>4, <4>1 DEF Pool!Known, Waiting
    <3>7. owner[c] \in Tags
      BY <3>1 DEF EntryInv, TypeOK
    <3> QED
      BY <2>1, <3>1, <3>3, <3>4, <3>5, <3>6, <3>7
  <2> QED
    BY <2>2, <2>3
<1> QED
  BY <1>1, <1>2

LEMMA PoolInit == DemoInit => PoolInv /\ Waiting = {} /\ done = {}
<1> SUFFICES ASSUME DemoInit PROVE PoolInv /\ Waiting = {} /\ done = {}
  OBVIOUS
<1>1. /\ pending = <<>> /\ executing = {} /\ done = {} /\ hurried = FALSE
      /\ callee = [n \in 1 .. MaxMessages |-> <<>>]
  BY DEF DemoInit, Pool!Init
<1>2. callee \in [1 .. MaxMessages -> Tags]
  BY <1>1 DEF Tags
<1>3. Waiting = {}
  BY <1>1 DEF Waiting
<1>4. pending \in Seq(1 .. MaxMessages)
  BY <1>1
<1>5. hurried \in BOOLEAN /\ executing \subseteq 1 .. MaxMessages /\ done \subseteq 1 .. MaxMessages
  BY <1>1
<1> QED
  BY <1>1, <1>2, <1>3, <1>4, <1>5 DEF PoolInv

(* The actions that leave the pool alone. *)
LEMMA PoolAlone ==
  ASSUME PoolInv, UNCHANGED <<pool, callee>>, hurried' \in BOOLEAN
  PROVE  /\ PoolInv' /\ Waiting' = Waiting
         /\ UNCHANGED <<pending, executing, done, callee>>
BY DEF PoolInv, Waiting, pool

LEMMA PoolStep ==
  ASSUME TypeOK, PlaceInv, PlanInv, EntryInv, PoolInv, [DemoNext]_demoVars
  PROVE  PoolInv'
<1>0. hurried \in BOOLEAN
  BY DEF PoolInv
<1>1. CASE Statement
  <2>1. UNCHANGED <<pool, callee>> /\ hurried' \in BOOLEAN
    BY <1>0, <1>1, StatementCases
  <2> QED
    BY <2>1, PoolAlone
<1>2. CASE Return \/ Inner \/ Exit \/ Serves \/ Crashes \/ UNCHANGED demoVars
  <2>1. UNCHANGED <<pool, callee>> /\ hurried' = hurried
    BY <1>2 DEF Return, Inner, Exit, Serves, Crashes, program, demoVars
  <2> QED
    BY <1>0, <2>1, PoolAlone
<1>3. CASE Consumes
  <2>1. hurried' = hurried
    BY <1>3 DEF Consumes, program
  <2>2. CASE UNCHANGED <<pool, callee>>
    BY <1>0, <2>1, <2>2, PoolAlone
  <2>3. ASSUME NEW n \in 1 .. MaxMessages, NEW c \in callbacks,
               callee' = [callee EXCEPT ![n] = owner[c]], owner[c] \in Tags,
               pending' = Append(pending, n), UNCHANGED <<executing, done>>
        PROVE  PoolInv'
    <3>1. pending' \in Seq(1 .. MaxMessages)
      BY <2>3, RangeAppend DEF PoolInv
    <3>2. callee' \in [1 .. MaxMessages -> Tags]
      BY <2>3 DEF PoolInv
    <3> QED
      BY <1>0, <2>1, <2>3, <3>1, <3>2 DEF PoolInv
  <2> QED
    BY <1>3, <2>2, <2>3, ConsumerPool
<1>4. CASE Works \/ Closes
  BY <1>4, WorksEffect, ClosesEffect
<1> QED
  BY <1>1, <1>2, <1>3, <1>4 DEF DemoNext, MainStep

-----------------------------------------------------------------------------
(* Which statements concern the channel of the third demonstration: all of *)
(* its own, and none of the others'.                                       *)

Own   == {s \in Statements : s.do # "wait" => s.channel = Broadcast}
Other == {s \in Statements : s.channel # Broadcast}

LEMMA RepeatedIn ==
  ASSUME NEW T, NEW n \in Nat, NEW s \in T
  PROVE  Repeat(n, s) \in Seq(T)
<1>1. Repeat(n, s) \in [1 .. n -> T]
  BY DEF Repeat
<1> QED
  BY <1>1, Listed

LEMMA JoinedIn ==
  ASSUME NEW T, NEW a \in Seq(T), NEW b \in Seq(T)
  PROVE  a \o b \in Seq(T)
OBVIOUS

LEMMA OneOf ==
  ASSUME NEW T, NEW s \in T
  PROVE  <<s>> \in Seq(T)
OBVIOUS

LEMMA OtherStatements ==
  ASSUME NEW c \in Channels, c # Broadcast
  PROVE  On(c) \in Other /\ Off(c) \in Other /\ Send(c) \in Other /\ Notify(c) \in Other
BY StatementsOn DEF Other

LEMMA WaitOther == Wait \in Other /\ Wait \in Own
BY Sizes DEF Wait, Other, Own, Statements

LEMMA ManyOf ==
  ASSUME NEW T, NEW a \in Seq(T), NEW b \in Seq(T), NEW e \in Seq(T), Wait \in T
  PROVE  ((a \o (<<Wait>> \o b)) \o <<Wait>>) \o e \in Seq(T)
<1>1. <<Wait>> \in Seq(T)
  BY OneOf
<1>2. <<Wait>> \o b \in Seq(T)
  BY <1>1, JoinedIn
<1>3. a \o (<<Wait>> \o b) \in Seq(T)
  BY <1>2, JoinedIn
<1>4. (a \o (<<Wait>> \o b)) \o <<Wait>> \in Seq(T)
  BY <1>1, <1>3, JoinedIn
<1> QED
  BY <1>4, JoinedIn

LEMMA OneOther ==
  ASSUME NEW c \in Channels, c # Broadcast, NEW b \in Seq(Other)
  PROVE  ((<<On(c)>> \o (<<Wait>> \o b)) \o <<Wait>>) \o <<Off(c)>> \in Seq(Other)
<1>1. <<On(c)>> \in Seq(Other) /\ <<Off(c)>> \in Seq(Other)
  BY OtherStatements, OneOf
<1> QED
  BY <1>1, WaitOther, ManyOf

LEMMA PlanChannels ==
  /\ Demonstrations[3] \in Seq(Own)
  /\ \A d \in {1, 2, 4} : Demonstrations[d] \in Seq(Other)
<1> USE Sizes
<1>1. BasicPubSub \in Seq(Other)
  <2>1. Send(UserEvents) \in Other
    BY OtherStatements
  <2>2. Repeat(Events, Send(UserEvents)) \in Seq(Other)
    BY <2>1, RepeatedIn
  <2> QED
    BY <2>2, OneOther DEF BasicPubSub
<1>2. MultipleChannels \in Seq(Other)
  <2>1. \A i \in 1 .. Len(Shop) : Shop[i] \in Channels /\ Shop[i] # Broadcast
    BY PubSubDemoAssumption
  <2>2. \A i \in 1 .. Len(Workflow) : Workflow[i] \in Channels /\ Workflow[i] # Broadcast
    <3>1. ASSUME NEW i \in 1 .. Len(Workflow)
          PROVE  Workflow[i] \in Channels /\ Workflow[i] # Broadcast
      <4>1. \E j \in DOMAIN Shop : Shop[j] = Workflow[i]
        <5>1. i \in DOMAIN Workflow
          OBVIOUS
        <5> QED
          BY <5>1, PubSubDemoAssumption
      <4>2. DOMAIN Shop = 1 .. Len(Shop)
        OBVIOUS
      <4> QED
        BY <2>1, <4>1, <4>2
    <3> QED
      BY <3>1
  <2>3. /\ DOMAIN Shop = 1 .. Len(Shop) /\ DOMAIN Workflow = 1 .. Len(Workflow)
        /\ Len(Shop) \in Nat /\ Len(Workflow) \in Nat
    OBVIOUS
  <2>4. \A i \in 1 .. Len(Shop) : On(Shop[i]) \in Other /\ Off(Shop[i]) \in Other
    BY <2>1, OtherStatements
  <2>5. \A i \in 1 .. Len(Workflow) : Send(Workflow[i]) \in Other
    BY <2>2, OtherStatements
  <2>6. Each(Shop, On) \in [1 .. Len(Shop) -> Other]
    BY <2>3, <2>4 DEF Each
  <2>7. Each(Shop, Off) \in [1 .. Len(Shop) -> Other]
    BY <2>3, <2>4 DEF Each
  <2>8. Each(Workflow, Send) \in [1 .. Len(Workflow) -> Other]
    BY <2>3, <2>5 DEF Each
  <2>9. /\ Each(Shop, On) \in Seq(Other) /\ Each(Shop, Off) \in Seq(Other)
        /\ Each(Workflow, Send) \in Seq(Other)
    BY <2>3, <2>6, <2>7, <2>8, Listed
  <2> QED
    BY <2>9, WaitOther, ManyOf DEF MultipleChannels
<1>3. MultipleSubscribers \in Seq(Own)
  <2>1. On(Broadcast) \in Own /\ Off(Broadcast) \in Own /\ Send(Broadcast) \in Own
    BY StatementsOn DEF Own
  <2>2. /\ Repeat(Subscribers, On(Broadcast)) \in Seq(Own)
        /\ Repeat(Subscribers, Off(Broadcast)) \in Seq(Own)
        /\ Repeat(Broadcasts, Send(Broadcast)) \in Seq(Own)
    BY <2>1, RepeatedIn
  <2> QED
    BY <2>2, WaitOther, ManyOf DEF MultipleSubscribers
<1>4. StateChangeNotifications \in Seq(Other)
  <2>1. Notify(StateChanges) \in Other
    BY OtherStatements
  <2>2. Repeat(Operations, Notify(StateChanges)) \in Seq(Other)
    BY <2>1, RepeatedIn
  <2> QED
    BY <2>2, OneOther DEF StateChangeNotifications
<1> QED
  BY <1>1, <1>2, <1>3, <1>4 DEF Demonstrations

(* Statements on the channel of the third demonstration are in it.         *)
LEMMA PlanBroadcast ==
  ASSUME PlanInv, ~Finished, NEW i \in 1 .. Len(Plan), Plan[i].do # "wait"
  PROVE  Plan[i].channel = Broadcast <=> frame = 3
<1>1. frame \in 1 .. 4
  BY PlanFacts
<1>2. CASE frame = 3
  <2>1. Plan \in Seq(Own)
    BY <1>2, PlanChannels DEF Plan
  <2>2. Plan[i] \in Own
    BY <2>1, ElementTyped
  <2> QED
    BY <1>2, <2>2 DEF Own
<1>3. CASE frame # 3
  <2>1. frame \in {1, 2, 4}
    BY <1>1, <1>3
  <2>2. Plan \in Seq(Other)
    BY <2>1, PlanChannels DEF Plan
  <2>3. Plan[i] \in Other
    BY <2>2, ElementTyped
  <2> QED
    BY <1>3, <2>3 DEF Other
<1> QED
  BY <1>2, <1>3

-----------------------------------------------------------------------------
(* Who hears the messages of the third demonstration. *)

Carried  == \E i \in 1 .. Len(socket) : socket[i][1] = Broadcast
Speaking == ~Finished /\ pc[Main] = "publish" /\ arg[Main] = Broadcast
Third    == \A c \in Channels : owner[c] # <<>> /\ owner[c][1] = 3 => c = Broadcast
LastTold ==
  \A n \in Waiting \cup done :
    callee[n] # <<>> /\ callee[n][1] = 3 => callee[n][2] = Subscribers

LEMMA HearParts ==
  HearInv <=>
    /\ Third
    /\ frame < 3 => owner[Broadcast] = <<>>
    /\ ~Broken => /\ Told => owner[Broadcast] \in {<<>>, <<3, Subscribers>>}
                  /\ Carried \/ Speaking => Told
    /\ LastTold
BY DEF HearInv, Carried, Speaking, Third, LastTold

LEMMA HearPartsNext ==
  ASSUME Third', frame' < 3 => owner'[Broadcast] = <<>>,
         ~Broken' => /\ Told' => owner'[Broadcast] \in {<<>>, <<3, Subscribers>>}
                     /\ Carried' \/ Speaking' => Told',
         LastTold'
  PROVE  HearInv'
BY DEF HearInv, Carried, Speaking, Third, LastTold

LEMMA HearInit == DemoInit => HearInv
<1> SUFFICES ASSUME DemoInit PROVE HearInv
  OBVIOUS
<1>1. /\ owner = [c \in Channels |-> <<>>] /\ frame = 1 /\ socket = <<>>
      /\ pc[Main] = "idle"
  BY MainOnly DEF DemoInit, Init
<1>2. owner[Broadcast] = <<>> /\ Third
  BY <1>1, Sizes DEF Third
<1>3. ~Carried /\ ~Speaking
  BY <1>1 DEF Carried, Speaking
<1>4. LastTold
  BY PoolInit DEF LastTold
<1> QED
  BY <1>2, <1>3, <1>4, HearParts

(* Whatever leaves owner, the messages and the pool alone.                 *)
LEMMA HearKept ==
  ASSUME HearInv, UNCHANGED <<owner, callee>>,
         Waiting' \cup done' \subseteq Waiting \cup done, frame' >= frame, frame \in Nat,
         frame' \in Nat, Broken => Broken',
         ~Broken' => /\ Told' => Told \/ owner[Broadcast] = <<>>
                     /\ Carried' => Carried \/ Speaking
                     /\ Carried \/ Speaking => Told'
                     /\ Speaking' => Speaking \/ Told'
  PROVE  HearInv'
<1>1. Third' /\ LastTold'
  BY HearParts DEF Third, LastTold
<1>2. frame' < 3 => owner'[Broadcast] = <<>>
  BY HearParts
<1>3. ~Broken' => /\ Told' => owner'[Broadcast] \in {<<>>, <<3, Subscribers>>}
                  /\ Carried' \/ Speaking' => Told'
  BY HearParts
<1> QED
  BY <1>1, <1>2, <1>3, HearPartsNext

LEMMA ThirdOns ==
  ASSUME PlanInv, frame = 3
  PROVE  /\ ~Finished /\ Ons[frame] = Subscribers /\ Subscribers < WaitAt
         /\ Subscribers \in Nat /\ Subscribers > 0 /\ At \in 0 .. Len(Plan)
         /\ Len(Plan) \in Nat /\ WaitAt \in Nat /\ WaitAt <= Len(Plan)
<1>1. ~Finished
  BY Frames DEF Finished
<1> QED
  BY <1>1, PlanFacts, PubSubDemoAssumption DEF Ons

LEMMA HearStatement ==
  ASSUME TypeOK, PlanInv, MainInv, HearInv, PoolInv, Statement
  PROVE  HearInv'
<1>1. PICK i \in 1 .. Len(Plan) :
         /\ i = At + 1 /\ pc[Main] = "idle" /\ UNCHANGED <<frame, owner, callee, pool>>
         /\ \/ /\ i <= Ons[frame]
               /\ Begin(Main, "insert", Plan[i].channel)
            \/ /\ Ons[frame] + 1 < i /\ i < WaitAt
               /\ Begin(Main, "publish", Plan[i].channel) \/ UNCHANGED vars
            \/ i \in {Ons[frame] + 1, WaitAt} /\ UNCHANGED vars
            \/ /\ i > WaitAt
               /\ Begin(Main, "find", Plan[i].channel)
  BY StatementCases
<1>2. /\ ~Finished /\ ~Finished' /\ At' = i /\ ~Broken /\ frame \in 1 .. 4
      /\ Ons[frame] \in Nat /\ WaitAt \in Nat /\ Ons[frame] + 1 < WaitAt
      /\ At \in 0 .. Len(Plan) /\ Len(Plan) \in Nat
  BY <1>1, StatementTaken, StatementPlan, PlanFacts DEF MainInv
<1>3. UNCHANGED socket /\ Waiting' \cup done' = Waiting \cup done
  <2>1. UNCHANGED socket
    BY <1>1, BeginEffect, SkipEffect
  <2> QED
    BY <1>1, <2>1 DEF Waiting, pool
<1>4. ASSUME Told' PROVE Told
  <2>1. CASE frame = 3
    <3>1. Ons[frame] = Subscribers /\ Subscribers \in Nat
      BY <2>1, ThirdOns
    <3>2. i >= Subscribers /\ pc'[Main] # "insert"
      BY <1>1, <1>2, <1>4, <2>1 DEF Told
    <3>3. i # Subscribers
      <4>1. ASSUME i = Subscribers PROVE FALSE
        <5>1. Begin(Main, "insert", Plan[i].channel)
          BY <1>1, <1>2, <3>1, <4>1
        <5> QED
          BY <3>2, <5>1, BeginEffect
      <4> QED
        BY <4>1
    <3>4. At >= Subscribers
      BY <1>1, <1>2, <3>1, <3>2, <3>3
    <3> QED
      BY <1>1, <2>1, <3>4 DEF Told
  <2>2. CASE frame # 3
    BY <1>1, <1>4, <2>2 DEF Told
  <2> QED
    BY <2>1, <2>2
<1>5. ASSUME Told PROVE Told'
  <2>1. CASE frame = 3
    <3>1. Ons[frame] = Subscribers /\ Subscribers \in Nat /\ At >= Subscribers
      BY <1>2, <1>5, <2>1, ThirdOns DEF Told
    <3>2. i > Subscribers
      BY <1>1, <1>2, <3>1
    <3>3. pc'[Main] # "insert"
      BY <1>1, <1>2, <3>1, <3>2, BeginEffect, SkipEffect
    <3> QED
      BY <1>1, <1>2, <2>1, <3>1, <3>2, <3>3 DEF Told
  <2>2. CASE frame # 3
    BY <1>1, <1>5, <2>2 DEF Told
  <2> QED
    BY <2>1, <2>2
<1>6. ASSUME Speaking' PROVE Told'
  <2>1. pc'[Main] = "publish" /\ arg'[Main] = Broadcast
    BY <1>6 DEF Speaking
  <2>2. /\ Begin(Main, "publish", Plan[i].channel) /\ Ons[frame] + 1 < i /\ i < WaitAt
        /\ Plan[i].channel = Broadcast
    BY <1>1, <2>1, BeginEffect, SkipEffect
  <2>3. Plan[i].do # "wait"
    BY <1>2, <2>2, PlanStatement
  <2>4. frame = 3
    BY <1>2, <2>2, <2>3, PlanBroadcast
  <2>5. i >= Subscribers
    BY <1>2, <2>2, <2>4, ThirdOns
  <2> QED
    BY <1>1, <1>2, <2>1, <2>4, <2>5 DEF Told
<1>7. Carried' <=> Carried
  BY <1>3 DEF Carried
<1>8. Carried \/ Speaking => Told
  BY <1>2, HearParts
<1>9. UNCHANGED <<owner, callee>> /\ frame' = frame
  BY <1>1
<1> QED
  BY <1>2, <1>3, <1>4, <1>5, <1>6, <1>7, <1>8, <1>9, HearKept

LEMMA HearReturn ==
  ASSUME PlanInv, MainInv, HearInv, Return
  PROVE  HearInv'
<1>1. /\ pc[Main] = "idle" /\ ~Finished /\ UNCHANGED <<socket, pc, owner, callee, pool>>
      /\ ~Broken
  BY SkipEffect DEF Return, MainInv
<1>2. /\ frame \in 1 .. 4 /\ frame' = frame + 1 /\ At = Len(Plan)
      /\ ~Finished' => At' = 0
      /\ Finished' <=> frame = 4
  BY ReturnPlan
<1>3. Waiting' \cup done' = Waiting \cup done /\ (Carried' <=> Carried)
  BY <1>1 DEF Waiting, Carried, pool
<1>4. Told' <=> Told
  <2>1. CASE frame = 2
    <3>1. ~Finished' /\ frame' = 3
      BY <1>2, <2>1
    <3>2. At' = 0 /\ Subscribers \in Nat /\ Subscribers > 0
      BY <1>2, <3>1, PubSubDemoAssumption
    <3> QED
      BY <2>1, <3>1, <3>2 DEF Told
  <2>2. CASE frame = 3
    BY <1>1, <1>2, <2>2, ThirdOns DEF Told
  <2>3. CASE frame \in {1, 4}
    BY <1>2, <2>3 DEF Told
  <2> QED
    BY <1>2, <2>1, <2>2, <2>3
<1>5. ~Speaking'
  BY <1>1 DEF Speaking
<1>6. Carried \/ Speaking => Told
  BY <1>1, HearParts
<1>7. UNCHANGED <<owner, callee>> /\ frame \in Nat /\ frame' \in Nat /\ frame' >= frame
  BY <1>1, <1>2
<1> QED
  BY <1>1, <1>3, <1>4, <1>5, <1>6, <1>7, HearKept

LEMMA CarriedTail ==
  ASSUME TypeOK, socket # <<>>, socket' = Tail(socket)
  PROVE  /\ Carried' => Carried
         /\ Head(socket)[1] = Broadcast => Carried
<1>1. /\ Len(socket) \in Nat \ {0} /\ Len(socket') = Len(socket) - 1
      /\ \A i \in 1 .. Len(socket') : socket'[i] = socket[i + 1]
      /\ Head(socket) = socket[1]
  BY DEF TypeOK
<1>2. \A i \in 1 .. Len(socket') : i + 1 \in 1 .. Len(socket)
  BY <1>1
<1> QED
  BY <1>1, <1>2 DEF Carried

LEMMA CarriedPublished ==
  ASSUME TypeOK, Published(arg[Main])
  PROVE  Carried' => Carried \/ arg[Main] = Broadcast
<1>1. CASE socket' = socket
  BY <1>1 DEF Carried
<1>2. CASE socket' = Append(socket, <<arg[Main], published'>>)
  <2>1. /\ Len(socket') = Len(socket) + 1 /\ Len(socket) \in Nat
        /\ \A i \in 1 .. Len(socket) : socket'[i] = socket[i]
        /\ socket'[Len(socket) + 1] = <<arg[Main], published'>>
    BY <1>2 DEF TypeOK
  <2>2. \A i \in 1 .. Len(socket') : i \in 1 .. Len(socket) \/ i = Len(socket) + 1
    BY <2>1
  <2> QED
    BY <2>1, <2>2 DEF Carried
<1> QED
  BY <1>1, <1>2 DEF Published

LEMMA HearInsert ==
  ASSUME TypeOK, PlanInv, MainInv, EntryInv, HearInv, Inner, pc[Main] = "insert"
  PROVE  HearInv'
<1>1. /\ ~Finished /\ Now = On(arg[Main]) /\ At \in 1 .. Ons[frame]
      /\ arg[Main] \in Channels /\ pc'[Main] = "check"
      /\ owner' = [owner EXCEPT ![arg[Main]] = <<frame, At>>]
  BY EntryInsert
<1>2. UNCHANGED <<frame, left, callee, pool>> /\ CallerStep(Main)
  BY DEF Inner, Unwinds
<1>3. At' = At /\ (Finished' <=> Finished) /\ ~Broken
  BY <1>2, PlanKept DEF MainInv
<1>4. UNCHANGED socket
  BY <1>2, MainMessages
<1>5. /\ frame \in 1 .. 4 /\ At \in 1 .. Len(Plan)
      /\ Ons[frame] \in Nat
  <2>1. frame \in 1 .. 4 /\ Ons[frame] \in Nat /\ Ons[frame] < WaitAt /\ WaitAt \in Nat
        /\ WaitAt <= Len(Plan) /\ Len(Plan) \in Nat
    BY <1>1, PlanFacts
  <2> QED
    BY <1>1, <2>1
<1>6. arg[Main] = Broadcast <=> frame = 3
  <2>1. Plan[At].do = "subscribe" /\ Plan[At].channel = arg[Main]
    BY <1>1 DEF Now, On
  <2> QED
    BY <1>1, <1>5, <2>1, PlanBroadcast
<1>7. /\ owner'[arg[Main]] = <<frame, At>>
      /\ \A c \in Channels : c # arg[Main] => owner'[c] = owner[c]
  BY <1>1 DEF EntryInv
<1>8. Third'
  BY <1>6, <1>7, HearParts DEF Third
<1>9. frame' < 3 => owner'[Broadcast] = <<>>
  BY <1>2, <1>5, <1>6, <1>7, Sizes, HearParts
<1>10. ASSUME Told' PROVE owner'[Broadcast] \in {<<>>, <<3, Subscribers>>}
  <2>1. CASE frame = 3
    <3>1. Ons[frame] = Subscribers /\ Subscribers \in Nat /\ At >= Subscribers
      BY <1>2, <1>3, <1>10, <2>1, ThirdOns DEF Told
    <3>2. At = Subscribers
      BY <1>1, <3>1
    <3> QED
      BY <1>6, <1>7, <2>1, <3>2
  <2>2. CASE frame # 3
    <3>1. owner'[Broadcast] = owner[Broadcast]
      BY <1>6, <1>7, <2>2, Sizes
    <3>2. Told
      BY <1>2, <1>10, <2>2 DEF Told
    <3> QED
      BY <1>3, <3>1, <3>2, HearParts
  <2> QED
    BY <2>1, <2>2
<1>11. Carried' => Told'
  <2>1. Carried' => Told
    BY <1>3, <1>4, HearParts DEF Carried
  <2>2. Told => Told'
    BY <1>2 DEF Told
  <2> QED
    BY <2>1, <2>2
<1>12. ~Speaking'
  BY <1>1 DEF Speaking
<1>13. LastTold'
  <2>1. UNCHANGED <<pending, executing, done>>
    BY <1>2 DEF pool
  <2> QED
    BY <1>2, <2>1, HearParts DEF LastTold, Waiting
<1> QED
  BY <1>8, <1>9, <1>10, <1>11, <1>12, <1>13, HearPartsNext

LEMMA HearInner ==
  ASSUME TypeOK, PlanInv, MainInv, EntryInv, HearInv, Inner, pc[Main] # "insert"
  PROVE  HearInv'
<1>1. CallerStep(Main) /\ UNCHANGED <<owner, callee, pool, arg>>
  BY MainMessages DEF Inner, Registers
<1>2. ~Broken /\ ~Broken' /\ pc'[Main] # "insert"
  <2>1. ~Broken /\ pc'[Main] # "insert"
    BY <1>1, MainPlaces DEF MainInv, Goto, Uses, Back
  <2> QED
    BY <1>1, <2>1, MainRest DEF Broken
<1>3. Waiting' \cup done' = Waiting \cup done
  BY <1>1 DEF Waiting, pool
<1>4. Carried \/ Speaking => Told
  BY <1>2, HearParts
<1>5. Carried' => Carried \/ Speaking
  <2>1. CASE UNCHANGED socket
    BY <2>1 DEF Carried
  <2>2. CASE socket' = <<>>
    BY <2>2 DEF Carried
  <2>3. CASE pc[Main] = "publish" /\ Published(arg[Main])
    <3>1. ~Finished
      BY <2>3 DEF MainInv, Leaving
    <3> QED
      BY <2>3, <3>1, CarriedPublished DEF Speaking
  <2> QED
    BY <1>1, <2>1, <2>2, <2>3, MainMessages
<1>6. CASE Goto("remove", {"idle"})
  <2>1. frame' = 5 /\ pc[Main] = "remove" /\ pc'[Main] = "idle"
    BY <1>6, InnerPlan DEF Goto
  <2>2. ~Finished /\ At > WaitAt
    BY <2>1 DEF MainInv, Leaving, Adding
  <2>3. frame \in 1 .. 4
    BY <2>2, PlanFacts
  <2>4. Told'
    BY <2>1 DEF Told
  <2>5. Told \/ owner[Broadcast] = <<>>
    <3>1. CASE frame = 3
      BY <2>1, <2>2, <3>1, ThirdOns DEF Told
    <3>2. CASE frame = 4
      BY <3>2 DEF Told
    <3>3. CASE frame \in {1, 2}
      BY <3>3, HearParts
    <3> QED
      BY <2>3, <3>1, <3>2, <3>3
  <2>6. frame \in Nat /\ frame' \in Nat /\ frame' >= frame
    BY <2>1, <2>3
  <2> QED
    BY <1>1, <1>2, <1>3, <1>5, <2>4, <2>5, <2>6, HearKept
<1>7. CASE ~Goto("remove", {"idle"})
  <2>1. UNCHANGED <<frame, left>>
    BY <1>7, InnerPlan
  <2>2. At' = At /\ (Finished' <=> Finished)
    BY <2>1, PlanKept
  <2>3. Told' <=> Told
    BY <1>2, <2>1, <2>2 DEF Told
  <2>4. Speaking' => Speaking
    <3>1. pc'[Main] = "publish" => pc[Main] = "publish"
      BY <1>1, MainPlaces DEF Goto, Back
    <3> QED
      BY <1>1, <2>2, <3>1 DEF Speaking
  <2>5. frame \in Nat /\ frame' = frame /\ frame' >= frame
    BY <2>1 DEF PlanInv
  <2> QED
    BY <1>1, <1>2, <1>3, <1>4, <1>5, <2>3, <2>4, <2>5, HearKept
<1> QED
  BY <1>6, <1>7

LEMMA HearConsumes ==
  ASSUME TypeOK, PlaceInv, PlanInv, MainInv, EntryInv, HearInv, PoolInv, Consumes
  PROVE  HearInv'
<1>1. /\ UNCHANGED <<frame, left, owner, arg>> /\ pc'[Main] = pc[Main]
      /\ ~Broken /\ ~Broken'
  BY ConsumerRest DEF program, Broken
<1>2. At' = At /\ (Finished' <=> Finished)
  BY <1>1, PlanKept
<1>3. (Told' <=> Told) /\ (Speaking' <=> Speaking)
  BY <1>1, <1>2 DEF Told, Speaking
<1>4. Carried \/ Speaking => Told
  BY <1>1, HearParts
<1>5. frame \in Nat /\ frame' = frame /\ frame' >= frame
  BY <1>1 DEF PlanInv
<1>6. ASSUME UNCHANGED <<callee, pool>>, Carried' => Carried PROVE HearInv'
  <2>1. Waiting' \cup done' = Waiting \cup done
    BY <1>6 DEF Waiting, pool
  <2> QED
    BY <1>1, <1>3, <1>4, <1>5, <1>6, <2>1, HearKept
<1>7. CASE UNCHANGED <<socket, callee, pool>>
  BY <1>6, <1>7 DEF Carried
<1>8. CASE socket # <<>> /\ socket' = Tail(socket) /\ UNCHANGED <<callee, pool>>
  BY <1>6, <1>8, CarriedTail
<1>9. ASSUME NEW n \in 1 .. MaxMessages, NEW c \in callbacks,
             socket # <<>>, socket' = Tail(socket), Head(socket) = <<c, n>>,
             callee' = [callee EXCEPT ![n] = owner[c]], UNCHANGED done,
             Waiting' = Waiting \cup {n}
      PROVE  HearInv'
  <2>1. Carried' => Carried
    BY <1>9, CarriedTail
  <2>2. c = Broadcast => Carried
    BY <1>9, CarriedTail
  <2>3. c \in Channels
    BY DEF TypeOK
  <2>4. ASSUME owner[c] # <<>>, owner[c][1] = 3 PROVE owner[c][2] = Subscribers
    <3>1. c = Broadcast
      BY <2>3, <2>4, HearParts DEF Third
    <3>2. owner[Broadcast] \in {<<>>, <<3, Subscribers>>}
      BY <1>1, <1>4, <2>2, <3>1, HearParts
    <3> QED
      BY <2>4, <3>1, <3>2
  <2>5. /\ callee'[n] = owner[c]
        /\ \A m \in Waiting \cup done : m # n => callee'[m] = callee[m]
    <3>1. callee \in [1 .. MaxMessages -> Tags]
      BY DEF PoolInv
    <3> QED
      BY <1>9, <3>1
  <2>6. LastTold'
    <3>1. LastTold
      BY HearParts
    <3> QED
      BY <1>9, <2>4, <2>5, <3>1 DEF LastTold
  <2>7. Third' /\ (frame' < 3 => owner'[Broadcast] = <<>>)
    BY <1>1, HearParts DEF Third
  <2>8. /\ Told' => owner'[Broadcast] \in {<<>>, <<3, Subscribers>>}
        /\ Carried' \/ Speaking' => Told'
    BY <1>1, <1>3, <1>4, <2>1, HearParts
  <2> QED
    BY <2>6, <2>7, <2>8, HearPartsNext
<1> QED
  BY <1>7, <1>8, <1>9, ConsumerPool

LEMMA HearStep ==
  ASSUME TypeOK, PlaceInv, PlanInv, MainInv, EntryInv, PoolInv, HearInv,
         [DemoNext]_demoVars
  PROVE  HearInv'
<1>0. frame \in Nat
  BY DEF PlanInv
<1>1. CASE Statement
  BY <1>1, HearStatement
<1>2. CASE Return
  BY <1>2, HearReturn
<1>3. CASE Exit
  <2>1. PICK place \in {"stop", "find"} : Finished /\ Begin(Main, place, AtExit)
    BY <1>3, ExitEffect
  <2>2. UNCHANGED <<frame, left, owner, callee, pool>>
    BY <1>3 DEF Exit, program
  <2>3. Finished' /\ pc'[Main] # "publish" /\ UNCHANGED socket /\ (Broken' <=> Broken)
    BY <2>1, <2>2, PlanKept, BeginEffect DEF Broken
  <2>4. Told /\ Told'
    BY <2>1, <2>2, Frames, <1>0 DEF Finished, Told
  <2>5. ~Speaking' /\ (Carried' <=> Carried)
    BY <2>3 DEF Speaking, Carried
  <2>6. Waiting' \cup done' = Waiting \cup done /\ frame' >= frame /\ frame' \in Nat
    BY <1>0, <2>2 DEF Waiting, pool
  <2> QED
    BY <1>0, <2>2, <2>3, <2>4, <2>5, <2>6, HearKept
<1>4. CASE Inner
  BY <1>4, HearInner, HearInsert
<1>5. CASE Consumes
  BY <1>5, HearConsumes
<1>6. ASSUME UNCHANGED <<pc, arg, socket, frame, left, owner, callee>>,
             Waiting' \cup done' = Waiting \cup done
      PROVE  HearInv'
  <2>2. At' = At /\ (Finished' <=> Finished)
    BY <1>6, PlanKept
  <2>3. /\ Told' <=> Told
        /\ Speaking' <=> Speaking
        /\ Carried' <=> Carried
        /\ Broken' <=> Broken
    BY <1>6, <2>2 DEF Told, Speaking, Carried, Broken
  <2>4. ~Broken => (Carried \/ Speaking => Told)
    BY HearParts
  <2>5. frame' = frame /\ frame' >= frame
    BY <1>0, <1>6
  <2> QED
    BY <1>0, <1>6, <2>3, <2>4, <2>5, HearKept
<1>7. CASE Works
  BY <1>6, <1>7, WorksEffect, SkipEffect DEF program
<1>8. CASE Closes
  BY <1>6, <1>8, ClosesEffect, SkipEffect DEF program
<1>9. CASE UNCHANGED demoVars
  BY <1>6, <1>9, SkipEffect DEF demoVars, program, pool, Waiting
<1>11. CASE Serves
  BY <1>6, <1>11, ServesRest DEF program, pool, Waiting
<1>10. CASE Crashes
  <2>1. Broken'
    BY <1>10, MainOnly DEF Crashes, Breaks, Broken
  <2>2. UNCHANGED <<frame, owner, callee, pending, executing, done>>
    BY <1>10 DEF Crashes, program, pool
  <2>3. Waiting' \cup done' = Waiting \cup done /\ frame' >= frame
    BY <1>0, <2>2 DEF Waiting
  <2> QED
    BY <1>0, <2>1, <2>2, <2>3, HearKept
<1> QED
  BY <1>1, <1>2, <1>3, <1>4, <1>5, <1>7, <1>8, <1>9, <1>10, <1>11 DEF DemoNext, MainStep

(* What of the demonstrations' state needs the channel's invariant only.   *)
DemoInv == MainInv /\ EntryInv /\ PoolInv /\ HearInv

LEMMA DemoHolds == DemoSpec => [](ChannelInv /\ PlanInv /\ DemoInv)
<1>1. DemoInit => DemoInv
  BY MainInit, EntryInit, PoolInit, HearInit DEF DemoInv
<1>2. ChannelInv /\ PlanInv /\ DemoInv /\ [DemoNext]_demoVars => DemoInv'
  BY MainStepKeeps, EntryStep, PoolStep, HearStep DEF DemoInv, ChannelInv
<1> QED
  BY <1>1, <1>2, ChannelHolds, PTL DEF DemoSpec

(* All subscribers of the third demonstration share one entry: only the    *)
(* last of them hears anything.                                            *)
OnlyLastHears == \A n \in Received(3) : callee[n][2] = Subscribers
THEOREM LastCorrect == DemoSpec => []OnlyLastHears
<1>1. DemoInv => OnlyLastHears
  <2> SUFFICES ASSUME DemoInv, NEW n \in Received(3) PROVE callee[n][2] = Subscribers
    BY DEF OnlyLastHears
  <2>1. n \in Waiting \cup done /\ callee[n] # <<>> /\ callee[n][1] = 3
    BY DEF Received, Waiting
  <2> QED
    BY <2>1 DEF DemoInv, HearInv
<1> QED
  BY <1>1, DemoHolds, PTL

-----------------------------------------------------------------------------
(* Patience. *)

Going == /\ ~Finished /\ pc[Main] \in {"idle", "publish"}
         /\ At >= Ons[frame] /\ At < WaitAt

LEMMA DryParts == DryInv <=> (Patient => Dry \/ Going)
BY DEF DryInv, Going

LEMMA DryPartsNext ==
  ASSUME Patient' => Dry' \/ Going'
  PROVE  DryInv'
BY DEF DryInv, Going, Ons

LEMMA ExitKeeps ==
  ASSUME TypeOK, Exit
  PROVE  /\ Finished /\ Finished' /\ pc[Main] = "idle"
         /\ UNCHANGED <<frame, left, first, hurried, owner, callee, pool, callbacks,
                        socket, published, failures>>
         /\ pc'[Consumer] = pc[Consumer]
<1>1. PICK place \in {"stop", "find"} : Finished /\ Begin(Main, place, AtExit)
  BY ExitEffect
<1>2. UNCHANGED <<frame, left, first, hurried, owner, callee, pool>>
  BY DEF Exit, program
<1> QED
  BY <1>1, <1>2, BeginEffect, PlanKept

(* Impatience stays. *)
LEMMA PatientStep ==
  ASSUME TypeOK, PlanInv, MainInv, PoolInv, [DemoNext]_demoVars, Patient'
  PROVE  Patient
<1>0. hurried \in BOOLEAN /\ failures \in Nat
  BY RedisChannelAssumption DEF PoolInv, TypeOK
<1>1. ASSUME (~hurried') => ~hurried, failures' \in {failures, failures + 1},
             Broken => Broken'
      PROVE  Patient
  BY <1>0, <1>1 DEF Patient
<1>2. CASE Statement
  <2>1. (~hurried') => ~hurried
    BY <1>2, StatementCases
  <2>2. failures' = failures /\ (Broken' <=> Broken)
    BY <1>2, StatementCases, BeginEffect, SkipEffect DEF Broken
  <2> QED
    BY <1>1, <2>1, <2>2
<1>3. CASE Return
  <2>1. UNCHANGED <<hurried, failures, pc>>
    BY <1>3, SkipEffect DEF Return
  <2> QED
    BY <1>1, <2>1 DEF Broken
<1>4. CASE Exit
  BY <1>1, <1>4, ExitKeeps DEF Broken
<1>5. CASE Inner
  <2>1. CallerStep(Main) /\ UNCHANGED hurried
    BY <1>5 DEF Inner
  <2>2. ~Broken
    BY <2>1, MainPlaces DEF MainInv, Goto, Uses
  <2> QED
    BY <1>1, <2>1, <2>2, MainRest
<1>6. CASE Consumes
  <2>1. /\ UNCHANGED hurried /\ failures' \in {failures, failures + 1}
        /\ pc[Consumer] # "broken"
    BY <1>6, ConsumerRest DEF program
  <2> QED
    BY <1>1, <2>1 DEF Broken
<1>7. CASE UNCHANGED <<vars, hurried>> \/ Serves
  <2>1. UNCHANGED <<hurried, failures, pc>>
    BY <1>7, SkipEffect, ServesRest DEF program
  <2> QED
    BY <1>1, <2>1 DEF Broken
<1>8. CASE Crashes
  BY <1>8, MainOnly DEF Crashes, Breaks, Patient, Broken
<1> QED
  BY <1>2, <1>3, <1>4, <1>5, <1>6, <1>7, <1>8
  DEF DemoNext, MainStep, Works, Closes, program, demoVars

LEMMA DryInit == DemoInit => DryInv
<1> SUFFICES ASSUME DemoInit PROVE Dry
  BY DEF DryInv
<1> QED
  BY DEF DemoInit, Init, Pool!Init, Dry

LEMMA DryKept ==
  ASSUME Dry, UNCHANGED pool, socket' = socket \/ socket' = <<>>
  PROVE  Dry'
BY DEF Dry, pool

LEMMA GoingKept ==
  ASSUME Going, UNCHANGED <<frame, left>>, pc'[Main] \in {"idle", "publish"}
  PROVE  Going'
<1>1. At' = At /\ WaitAt' = WaitAt /\ (Finished' <=> Finished) /\ Ons[frame]' = Ons[frame]
  BY PlanKept DEF Ons
<1> QED
  BY <1>1 DEF Going, Ons

LEMMA DryStatement ==
  ASSUME TypeOK, PlanInv, PoolInv, Patient, Patient', Dry \/ Going, Statement
  PROVE  Dry' \/ Going'
<1>1. PICK i \in 1 .. Len(Plan) :
         /\ i = At + 1 /\ pc[Main] = "idle" /\ UNCHANGED <<frame, pool>>
         /\ \/ /\ i <= Ons[frame] /\ Begin(Main, "insert", Plan[i].channel)
            \/ /\ Ons[frame] + 1 < i /\ i < WaitAt
               /\ Begin(Main, "publish", Plan[i].channel) \/ UNCHANGED vars
            \/ /\ i \in {Ons[frame] + 1, WaitAt} /\ UNCHANGED vars
               /\ hurried' = (hurried \/ ~(Established /\ Drained))
            \/ i > WaitAt /\ Begin(Main, "find", Plan[i].channel)
  BY StatementCases
<1>2. /\ ~Finished /\ ~Finished' /\ At' = i /\ WaitAt' = WaitAt
      /\ Ons[frame] \in Nat /\ WaitAt \in Nat /\ Ons[frame] + 1 < WaitAt
      /\ At \in 0 .. Len(Plan) /\ Len(Plan) \in Nat
  BY <1>1, StatementTaken, StatementPlan, PlanFacts
<1>3. UNCHANGED socket
  BY <1>1, BeginEffect, SkipEffect
<1>4. CASE i <= Ons[frame]
  <2>1. ~Going
    BY <1>1, <1>2, <1>4 DEF Going
  <2> QED
    BY <1>1, <1>3, <2>1, DryKept
<1>5. CASE Ons[frame] < i /\ i < WaitAt
  <2>1. pc'[Main] \in {"idle", "publish"}
    BY <1>1, <1>2, <1>5, BeginEffect, SkipEffect
  <2>2. Ons'[frame'] = Ons[frame]
    BY <1>1 DEF Ons
  <2>3. At' >= Ons[frame] /\ At' < WaitAt'
    BY <1>2, <1>5
  <2> QED
    BY <1>2, <2>1, <2>2, <2>3 DEF Going
<1>6. CASE i = WaitAt
  <2>1. hurried' = (hurried \/ ~(Established /\ Drained))
    BY <1>1, <1>2, <1>6
  <2>2. Drained
    BY <2>1 DEF Patient
  <2>3. Dry
    BY <2>2 DEF Drained, Dry
  <2> QED
    BY <1>1, <1>3, <2>3, DryKept
<1>7. CASE i > WaitAt
  <2>1. ~Going
    BY <1>1, <1>2, <1>7 DEF Going
  <2> QED
    BY <1>1, <1>3, <2>1, DryKept
<1> QED
  BY <1>1, <1>2, <1>4, <1>5, <1>6, <1>7

LEMMA DryInner ==
  ASSUME TypeOK, PlanInv, MainInv, Patient, Patient', Dry \/ Going, Inner
  PROVE  Dry' \/ Going'
<1>1. CallerStep(Main) /\ UNCHANGED pool
  BY DEF Inner
<1>2. ~Goto("remove", {"idle"})
  <2>1. failures = 0 /\ failures' = 0 /\ 0 + 1 # 0
    BY DEF Patient
  <2> QED
    BY <1>1, <2>1, MainPlaces DEF Goto
<1>3. UNCHANGED <<frame, left>>
  BY <1>2, InnerPlan
<1>4. CASE Going
  <2>1. pc'[Main] \in {"idle", "publish"}
    BY <1>1, <1>4, MainPlaces DEF Going, Goto, Uses
  <2> QED
    BY <1>3, <1>4, <2>1, GoingKept
<1>5. CASE Dry /\ ~Going
  <2>1. pc[Main] # "publish"
    <3>1. ASSUME pc[Main] = "publish" PROVE FALSE
      <4>1. ~Finished /\ At > Ons[frame] + 1 /\ At < WaitAt
        BY <3>1 DEF MainInv, Leaving, Adding, Removing
      <4>2. At \in Int /\ Ons[frame] \in Nat
        BY <4>1, PlanFacts
      <4> QED
        BY <1>5, <3>1, <4>1, <4>2 DEF Going
    <3> QED
      BY <3>1
  <2>2. socket' = socket \/ socket' = <<>>
    BY <1>1, <2>1, MainMessages
  <2> QED
    BY <1>1, <1>5, <2>2, DryKept
<1> QED
  BY <1>4, <1>5

LEMMA DryStep ==
  ASSUME TypeOK, PlaceInv, PlanInv, MainInv, EntryInv, PoolInv, DryInv,
         [DemoNext]_demoVars
  PROVE  DryInv'
<1> SUFFICES ASSUME Patient' PROVE Dry' \/ Going'
  BY DryPartsNext
<1>0. Patient /\ (Dry \/ Going)
  BY PatientStep, DryParts
<1>1. CASE Statement
  BY <1>0, <1>1, DryStatement
<1>2. CASE Return
  <2>1. At = Len(Plan) /\ ~Finished
    BY <1>2, ReturnPlan DEF Return
  <2>2. ~Going
    BY <2>1, PlanFacts DEF Going
  <2>3. UNCHANGED <<pool, socket>>
    BY <1>2, SkipEffect DEF Return
  <2> QED
    BY <1>0, <2>2, <2>3, DryKept
<1>3. CASE Exit
  <2>1. Finished /\ UNCHANGED <<pool, socket>>
    BY <1>3, ExitKeeps
  <2> QED
    BY <1>0, <2>1, DryKept DEF Going
<1>4. CASE Inner
  BY <1>0, <1>4, DryInner
<1>5. CASE Consumes
  <2>1. UNCHANGED <<frame, left>> /\ pc'[Main] = pc[Main]
    BY <1>5, ConsumerRest DEF program
  <2>2. CASE Going
    BY <2>1, <2>2, GoingKept DEF Going
  <2>3. CASE Dry
    <3>1. UNCHANGED <<socket, pool>>
      BY <1>5, <2>3, ConsumerPool DEF Dry
    <3> QED
      BY <2>3, <3>1, DryKept
  <2> QED
    BY <1>0, <2>2, <2>3
<1>6. CASE Works
  <2>1. UNCHANGED <<pc, frame, left>> /\ ~Dry
    BY <1>6, WorksEffect, SkipEffect DEF program, Dry
  <2> QED
    BY <1>0, <2>1, GoingKept DEF Going
<1>7. CASE Closes \/ UNCHANGED demoVars
  <2>1. UNCHANGED <<vars, frame, left, pending, executing>>
    BY <1>7, ClosesEffect DEF program, demoVars, pool
  <2>2. UNCHANGED <<pc, socket>>
    BY <2>1, SkipEffect
  <2>3. Going => Going'
    BY <2>1, <2>2, GoingKept DEF Going
  <2>4. Dry => Dry'
    BY <2>1, <2>2 DEF Dry
  <2> QED
    BY <1>0, <2>3, <2>4
<1>9. CASE Serves
  <2>1. UNCHANGED <<pc, socket, frame, left, pool>>
    BY <1>9, ServesRest DEF program
  <2> QED
    BY <1>0, <2>1, GoingKept, DryKept DEF Going
<1>8. CASE Crashes
  BY <1>8, MainOnly DEF Crashes, Breaks, Patient, Broken
<1> QED
  BY <1>1, <1>2, <1>3, <1>4, <1>5, <1>6, <1>7, <1>8, <1>9 DEF DemoNext, MainStep

-----------------------------------------------------------------------------
(* What the server knows when main has waited for it.                      *)

Between == ~Finished /\ At > Ons[frame] /\ At <= WaitAt

LEMMA KnownNext ==
  ASSUME Patient' /\ Between' => Established'
  PROVE  KnownInv'
BY DEF KnownInv, Between, Ons

LEMMA BetweenKept ==
  ASSUME UNCHANGED <<frame, left>>
  PROVE  Between' <=> Between
BY PlanKept DEF Between, Ons

LEMMA EstablishedKept ==
  ASSUME Established, UNCHANGED <<requested, subscribed>>, sent' \in {sent, requested}
  PROVE  Established'
BY DEF Established

LEMMA KnownStatement ==
  ASSUME TypeOK, PlanInv, KnownInv, Patient, Patient', Between', Statement
  PROVE  Established'
<1>1. PICK i \in 1 .. Len(Plan) :
         /\ i = At + 1 /\ pc[Main] = "idle" /\ UNCHANGED frame
         /\ \/ i <= Ons[frame]
            \/ /\ Ons[frame] + 1 < i /\ i < WaitAt
               /\ Begin(Main, "publish", Plan[i].channel) \/ UNCHANGED vars
            \/ UNCHANGED vars /\ hurried' = (hurried \/ ~(Established /\ Drained))
            \/ i > WaitAt
  BY StatementCases
<1>2. /\ ~Finished /\ At' = i /\ WaitAt' = WaitAt /\ Ons[frame]' = Ons[frame]
      /\ Ons[frame] \in Nat /\ WaitAt \in Nat /\ At \in Int
  BY <1>1, StatementTaken, StatementPlan, PlanFacts DEF Ons
<1>3. i > Ons[frame] /\ i <= WaitAt
  BY <1>2 DEF Between
<1>4. CASE /\ Ons[frame] + 1 < i /\ i < WaitAt
           /\ Begin(Main, "publish", Plan[i].channel) \/ UNCHANGED vars
  <2>1. At > Ons[frame] /\ At <= WaitAt
    BY <1>1, <1>2, <1>4
  <2>2. Established
    BY <1>2, <2>1 DEF KnownInv
  <2>3. UNCHANGED <<requested, sent, subscribed>>
    BY <1>4, BeginEffect, SkipEffect
  <2> QED
    BY <2>2, <2>3, EstablishedKept
<1>5. CASE UNCHANGED vars /\ hurried' = (hurried \/ ~(Established /\ Drained))
  <2>1. Established
    BY <1>5 DEF Patient
  <2> QED
    BY <1>5, <2>1, SkipEffect, EstablishedKept
<1> QED
  BY <1>1, <1>2, <1>3, <1>4, <1>5

LEMMA KnownStep ==
  ASSUME TypeOK, PlanInv, MainInv, PoolInv, KnownInv, [DemoNext]_demoVars
  PROVE  KnownInv'
<1> SUFFICES ASSUME Patient', Between' PROVE Established'
  BY KnownNext
<1>0. Patient /\ (Between => Established)
  BY PatientStep DEF KnownInv, Between
<1>1. CASE Statement
  BY <1>0, <1>1, KnownStatement
<1>2. CASE Return
  <2>1. PlanInv' /\ ~Finished' /\ At' = 0
    BY <1>2, ReturnPlan DEF Between
  <2>2. Ons[frame]' \in Nat
    BY <2>1, Sizes, ReturnPlan, <1>2 DEF Ons
  <2> QED
    BY <2>1, <2>2 DEF Between
<1>3. CASE Exit
  BY <1>3, ExitKeeps DEF Between
<1>4. CASE Inner
  <2>1. CallerStep(Main)
    BY <1>4 DEF Inner
  <2>2. ~Goto("remove", {"idle"})
    BY <1>4, InnerPlan DEF Between
  <2>3. UNCHANGED <<frame, left>>
    BY <1>4, <2>2, InnerPlan
  <2>4. Between /\ pc[Main] = "publish"
    <3>1. Between
      BY <2>3, BetweenKept
    <3>2. pc[Main] \notin {"idle", "broken"}
      BY <2>1, MainPlaces DEF Goto, Uses
    <3>3. /\ At \in 0 .. Len(Plan) /\ Len(Plan) \in Nat /\ Ons[frame] \in Nat
          /\ WaitAt \in Nat
      BY <3>1, PlanFacts DEF Between
    <3> QED
      BY <3>1, <3>2, <3>3 DEF Between, MainInv
  <2> QED
    BY <1>0, <2>1, <2>4, MainRest, EstablishedKept
<1>5. CASE Consumes
  <2>1. UNCHANGED <<frame, left, requested, subscribed>> /\ sent' \in {sent, requested}
    BY <1>5, ConsumerRest DEF program
  <2> QED
    BY <1>0, <2>1, BetweenKept, EstablishedKept
<1>6. CASE UNCHANGED <<vars, frame, left>>
  <2>1. UNCHANGED <<requested, sent, subscribed>>
    BY <1>6, SkipEffect
  <2> QED
    BY <1>0, <1>6, <2>1, BetweenKept, EstablishedKept
<1>7. CASE Serves
  <2>1. UNCHANGED <<frame, left>> /\ sent # subscribed
    BY <1>7, ServesRest DEF program
  <2> QED
    BY <1>0, <2>1, BetweenKept DEF Established
<1>8. CASE Crashes
  BY <1>8, MainOnly DEF Crashes, Breaks, Patient, Broken
<1> QED
  BY <1>1, <1>2, <1>3, <1>4, <1>5, <1>6, <1>7, <1>8
  DEF DemoNext, MainStep, Works, Closes, program, demoVars

LEMMA KnownInit == DemoInit => KnownInv
<1> SUFFICES ASSUME DemoInit PROVE Established
  BY DEF KnownInv
<1> QED
  BY DEF DemoInit, Init, Established

-----------------------------------------------------------------------------
(* The messages of a patient demonstration. *)

InSocket(n) == \E i \in 1 .. Len(socket) : socket[i][2] = n
Known(n) ==
  /\ n <= published /\ callee[n] # <<>> /\ callee[n][1] <= frame
  /\ callee[n][1] = frame => n > first
Found(n) == InSocket(n) \/ (n \in Waiting \cup done /\ callee[n][1] = frame)
Current ==
  /\ first \in 0 .. published
  /\ \A i \in 1 .. Len(socket) : socket[i][2] > first /\ socket[i][1] \in callbacks
  /\ \A n \in Waiting \cup done : Known(n)
  /\ \A n \in Waiting : callee[n][1] = frame
  /\ ~Finished => \A n \in first + 1 .. published : Found(n)

LEMMA TaskParts == TaskInv <=> (Patient => Current)
BY DEF TaskInv, Current, Known, Found, InSocket

LEMMA TaskPartsNext ==
  ASSUME Patient' => Current'
  PROVE  TaskInv'
BY DEF TaskInv, Current, Known, Found, InSocket

LEMMA TaskInit == DemoInit => TaskInv
<1> SUFFICES ASSUME DemoInit PROVE Current
  BY TaskParts
<1>1. first = 0 /\ published = 0 /\ socket = <<>>
  BY DEF DemoInit, Init
<1>2. Waiting = {} /\ done = {}
  BY PoolInit
<1> QED
  BY <1>1, <1>2 DEF Current

LEMMA CurrentKept ==
  ASSUME Current, UNCHANGED <<socket, published, first, frame, callee>>,
         Waiting' \subseteq Waiting, Waiting' \cup done' = Waiting \cup done,
         callbacks \subseteq callbacks' \/ socket = <<>>
  PROVE  Current'
<1>1. first' \in 0 .. published' /\ (Finished' <=> Finished)
  BY DEF Current, Finished
<1>2. \A i \in 1 .. Len(socket') : socket'[i][2] > first' /\ socket'[i][1] \in callbacks'
  BY DEF Current
<1>3. \A n \in Waiting' \cup done' : Known(n)'
  BY DEF Current, Known
<1>4. \A n \in Waiting' : callee'[n][1] = frame'
  BY DEF Current
<1>5. ~Finished' => \A n \in first' + 1 .. published' : Found(n)'
  BY <1>1 DEF Current, Found, InSocket
<1> QED
  BY <1>1, <1>2, <1>3, <1>4, <1>5 DEF Current

LEMMA TaskTyped ==
  ASSUME PoolInv, NEW n \in Waiting \cup done
  PROVE  n \in 1 .. MaxMessages
<1>1. /\ pending \in Seq(1 .. MaxMessages) /\ executing \subseteq 1 .. MaxMessages
      /\ done \subseteq 1 .. MaxMessages
  BY DEF PoolInv
<1>2. DOMAIN pending = 1 .. Len(pending)
  BY <1>1
<1>3. ASSUME NEW i \in DOMAIN pending PROVE pending[i] \in 1 .. MaxMessages
  BY <1>1, <1>2, <1>3, ElementTyped
<1> QED
  BY <1>1, <1>3 DEF Waiting

LEMMA CalleeTyped ==
  ASSUME PoolInv, NEW n \in Waiting \cup done, callee[n] # <<>>
  PROVE  callee[n][1] \in 1 .. 4
<1>1. n \in 1 .. MaxMessages
  BY TaskTyped
<1>2. callee[n] \in (1 .. 4) \X Nat
  BY <1>1 DEF PoolInv, Tags
<1> QED
  BY <1>2

(* At the end of a demonstration nothing is under way. *)
LEMMA TaskReturn ==
  ASSUME TypeOK, PlanInv, PoolInv, Dry, Current, Return
  PROVE  Current'
<1>1. /\ UNCHANGED <<socket, published, callee, pending, executing, done>>
      /\ first' = published
  BY SkipEffect DEF Return, pool
<1>2. frame \in 1 .. 4 /\ frame' = frame + 1
  BY ReturnPlan
<1>3. socket = <<>> /\ Waiting = {} /\ Waiting' = {}
  BY <1>1 DEF Dry, Waiting
<1>4. published \in Nat
  BY RedisChannelAssumption DEF TypeOK
<1>5. first' \in 0 .. published'
  BY <1>1, <1>4
<1>6. ASSUME NEW n \in Waiting' \cup done' PROVE Known(n)'
  <2>1. Known(n)
    BY <1>1, <1>3, <1>6 DEF Current
  <2>2. callee[n][1] \in 1 .. 4
    BY <1>1, <1>3, <1>6, <2>1, CalleeTyped DEF Known
  <2> QED
    BY <1>1, <1>2, <2>1, <2>2 DEF Known
<1>7. \A n \in first' + 1 .. published' : Found(n)'
  BY <1>1, <1>4
<1> QED
  BY <1>1, <1>3, <1>5, <1>6, <1>7 DEF Current

(* A message is published on a channel subscribed to before, which the     *)
(* server sends.                                                           *)
LEMMA PublishedIsSent ==
  ASSUME TypeOK, SettleInv(Main), PlanInv, MainInv, EntryInv, KnownInv, Patient,
         pc[Main] = "publish", failures = 0
  PROVE  arg[Main] \in callbacks /\ arg[Main] \in subscribed /\ ~Finished
<1>1. ~Finished /\ At > Ons[frame] + 1 /\ At < WaitAt /\ Now.channel = arg[Main] /\ ~Broken
  BY DEF MainInv, Leaving, Adding, Removing
<1>2. /\ Ons[frame] \in Nat /\ WaitAt \in Nat /\ WaitAt <= Len(Plan)
      /\ Len(Plan) \in Nat /\ At \in 0 .. Len(Plan)
  BY <1>1, PlanFacts
<1>3. At \in 1 .. Len(Plan)
  BY <1>1, <1>2
<1>4. PICK j \in 1 .. Ons[frame] : Plan[j].channel = Plan[At].channel
  BY <1>1, <1>3, PlanStatement
<1>5. j <= At /\ At <= WaitAt
  BY <1>1, <1>2
<1>6. Registered(j)
  BY <1>1, <1>5, EntryParts
<1>7. arg[Main] \in callbacks
  BY <1>1, <1>4, <1>6 DEF Registered, Now
<1>8. subscribed = callbacks
  <2>1. requested = callbacks
    BY DEF SettleInv, Settled
  <2>2. subscribed = requested
    BY <1>1, <1>2, <1>5 DEF KnownInv, Established
  <2> QED
    BY <2>1, <2>2
<1> QED
  BY <1>1, <1>7, <1>8

LEMMA TaskPublish ==
  ASSUME TypeOK, PoolInv, Current, NEW c \in callbacks, Published(c), c \in subscribed,
         UNCHANGED <<first, frame, callee, callbacks, pending, executing, done>>
  PROVE  Current'
<1>1. published \in Nat /\ published' = published + 1 /\ first \in 0 .. published
  BY RedisChannelAssumption DEF TypeOK, Published, Current
<1>2. /\ Len(socket') = Len(socket) + 1 /\ Len(socket) \in Nat
      /\ \A i \in 1 .. Len(socket) : socket'[i] = socket[i]
      /\ socket'[Len(socket) + 1] = <<c, published'>>
  BY DEF Published, TypeOK
<1>3. \A i \in 1 .. Len(socket') : i \in 1 .. Len(socket) \/ i = Len(socket) + 1
  BY <1>2
<1>4. Waiting' = Waiting /\ (Finished' <=> Finished)
  BY DEF Waiting, Finished
<1>5. first' \in 0 .. published'
  BY <1>1
<1>6. \A i \in 1 .. Len(socket') : socket'[i][2] > first' /\ socket'[i][1] \in callbacks'
  <2>1. published' > first
    BY <1>1
  <2> QED
    BY <1>2, <1>3, <2>1 DEF Current
<1>7. ASSUME NEW n \in Waiting' \cup done' PROVE Known(n)'
  <2>1. Known(n)
    BY <1>4, <1>7 DEF Current
  <2>2. n \in Nat
    BY <1>4, <1>7, TaskTyped, RedisChannelAssumption
  <2> QED
    BY <1>1, <2>1, <2>2 DEF Known
<1>8. \A n \in Waiting' : callee'[n][1] = frame'
  BY <1>4 DEF Current
<1>9. ASSUME ~Finished', NEW n \in first' + 1 .. published' PROVE Found(n)'
  <2>1. CASE n = published'
    <3>1. Len(socket) + 1 \in 1 .. Len(socket')
      BY <1>2
    <3> QED
      BY <1>2, <2>1, <3>1 DEF Found, InSocket
  <2>2. CASE n # published'
    <3>1. Found(n)
      BY <1>1, <1>4, <1>9, <2>2 DEF Current
    <3>2. InSocket(n) => InSocket(n)'
      <4>1. \A i \in 1 .. Len(socket) : i \in 1 .. Len(socket')
        BY <1>2
      <4> QED
        BY <1>2, <4>1 DEF InSocket
    <3> QED
      BY <1>4, <3>1, <3>2 DEF Found
  <2> QED
    BY <2>1, <2>2
<1> QED
  BY <1>5, <1>6, <1>7, <1>8, <1>9 DEF Current

LEMMA TaskDelivers ==
  ASSUME TypeOK, OrderInv, PlanInv, EntryInv, PoolInv, Current, ~Finished,
         NEW n \in 1 .. MaxMessages, NEW c \in callbacks,
         socket # <<>>, socket' = Tail(socket), Head(socket) = <<c, n>>,
         callee' = [callee EXCEPT ![n] = owner[c]], UNCHANGED done,
         n \notin Waiting \cup done, Waiting' = Waiting \cup {n},
         UNCHANGED <<first, frame, published, callbacks>>
  PROVE  Current'
<1>1. /\ Len(socket) \in Nat \ {0} /\ Len(socket') = Len(socket) - 1
      /\ \A i \in 1 .. Len(socket') : socket'[i] = socket[i + 1]
      /\ socket[1] = <<c, n>>
  BY DEF TypeOK
<1>2. \A i \in 1 .. Len(socket') : i + 1 \in 1 .. Len(socket)
  BY <1>1
<1>3. 1 \in 1 .. Len(socket)
  BY <1>1
<1>4. n > first /\ n <= published
  BY <1>1, <1>3 DEF Current, OrderInv
<1>5. owner[c] # <<>> /\ owner[c][1] = frame /\ frame \in 1 .. 4
  BY PlanFacts DEF EntryInv
<1>6. /\ callee'[n] = owner[c]
      /\ \A m \in Waiting \cup done : callee'[m] = callee[m]
  BY DEF PoolInv
<1>7. (Finished' <=> Finished) /\ first' \in 0 .. published'
  BY DEF Finished, Current
<1>8. \A i \in 1 .. Len(socket') : socket'[i][2] > first' /\ socket'[i][1] \in callbacks'
  BY <1>1, <1>2 DEF Current
<1>9. \A m \in Waiting' \cup done' : Known(m)'
  <2>1. Known(n)'
    BY <1>4, <1>5, <1>6 DEF Known
  <2>2. ASSUME NEW m \in Waiting \cup done PROVE Known(m)'
    BY <1>6, <2>2 DEF Known, Current
  <2> QED
    BY <2>1, <2>2
<1>10. \A m \in Waiting' : callee'[m][1] = frame'
  BY <1>5, <1>6 DEF Current
<1>11. ASSUME NEW m \in first' + 1 .. published' PROVE Found(m)'
  <2>1. Found(m)
    BY <1>11 DEF Current
  <2>2. CASE m \in Waiting \cup done /\ callee[m][1] = frame
    BY <1>6, <2>2 DEF Found
  <2>3. CASE InSocket(m)
    <3>1. PICK i \in 1 .. Len(socket) : socket[i][2] = m
      BY <2>3 DEF InSocket
    <3>2. CASE i = 1
      <4>1. m = n
        BY <1>1, <3>1, <3>2
      <4> QED
        BY <1>5, <1>6, <4>1 DEF Found
    <3>3. CASE i # 1
      <4>1. i - 1 \in 1 .. Len(socket') /\ (i - 1) + 1 = i
        BY <1>1, <3>3
      <4>2. socket'[i - 1][2] = m
        BY <1>1, <3>1, <4>1
      <4> QED
        BY <4>1, <4>2 DEF Found, InSocket
    <3> QED
      BY <3>2, <3>3
  <2> QED
    BY <2>1, <2>2, <2>3 DEF Found
<1> QED
  BY <1>7, <1>8, <1>9, <1>10, <1>11 DEF Current

LEMMA TaskInner ==
  ASSUME TypeOK, SettleInv(Main), PlanInv, MainInv, EntryInv, PoolInv, KnownInv,
         Patient, Patient', Dry \/ Going, Current, Inner
  PROVE  Current'
<1>1. CallerStep(Main) /\ UNCHANGED <<callee, pool>>
  BY DEF Inner
<1>2. ~Goto("remove", {"idle"}) /\ failures = 0
  <2>1. failures = 0 /\ failures' = 0 /\ 0 + 1 # 0
    BY DEF Patient
  <2> QED
    BY <1>1, <2>1, MainPlaces DEF Goto
<1>3. UNCHANGED <<frame, left, first>>
  BY <1>2, InnerPlan
<1>4. UNCHANGED <<pending, executing, done>> /\ Waiting' = Waiting
  BY <1>1 DEF pool, Waiting
<1>5. callbacks \subseteq callbacks' \/ socket = <<>>
  <2>1. CASE pc[Main] \in {"erase", "clear"}
    BY <2>1 DEF Going, Dry
  <2>2. CASE pc[Main] \notin {"erase", "clear"}
    BY <1>1, <2>2, MainCallbacks
  <2> QED
    BY <2>1, <2>2
<1>6. CASE UNCHANGED <<socket, published>>
  BY <1>1, <1>3, <1>4, <1>5, <1>6, CurrentKept
<1>7. CASE pc[Main] \in {"create", "reset"} /\ socket' = <<>> /\ UNCHANGED published
  <2>1. UNCHANGED socket
    BY <1>7 DEF Going, Dry
  <2> QED
    BY <1>1, <1>3, <1>4, <1>5, <1>7, <2>1, CurrentKept
<1>8. CASE pc[Main] = "publish" /\ pc'[Main] = "idle" /\ Published(arg[Main])
  <2>1. arg[Main] \in callbacks /\ arg[Main] \in subscribed
    BY <1>2, <1>8, PublishedIsSent
  <2>2. UNCHANGED callbacks
    BY <1>1, <1>8, MainCallbacks
  <2> QED
    BY <1>1, <1>3, <1>4, <1>8, <2>1, <2>2, TaskPublish
<1> QED
  BY <1>1, <1>6, <1>7, <1>8, MainMessages

LEMMA TaskConsumes ==
  ASSUME TypeOK, PlaceInv, OrderInv, PlanInv, MainInv, EntryInv, PoolInv, Dry \/ Going,
         Current, Consumes
  PROVE  Current'
<1>1. UNCHANGED <<frame, left, first, callbacks, published>>
  BY ConsumerRest DEF program
<1>2. CASE UNCHANGED <<socket, callee, pool>>
  <2>1. UNCHANGED <<pending, executing, done>> /\ Waiting' = Waiting
    BY <1>2 DEF pool, Waiting
  <2> QED
    BY <1>1, <1>2, <2>1, CurrentKept
<1>3. CASE socket # <<>>
  <2>1. Going
    BY <1>3 DEF Dry
  <2>2. ~Finished /\ subscriber # "bare"
    BY <2>1 DEF Going, MainInv
  <2>3. Head(socket)[1] \in callbacks
    <3>1. 1 \in 1 .. Len(socket) /\ Head(socket) = socket[1]
      BY <1>3 DEF TypeOK
    <3> QED
      BY <3>1 DEF Current
  <2>4. CASE UNCHANGED <<socket, callee, pool>>
    BY <1>2, <2>4
  <2>5. ASSUME NEW n \in 1 .. MaxMessages, NEW c \in callbacks,
               socket' = Tail(socket), Head(socket) = <<c, n>>,
               callee' = [callee EXCEPT ![n] = owner[c]], UNCHANGED done,
               n \notin Waiting \cup done, Waiting' = Waiting \cup {n}
        PROVE  Current'
    BY <1>1, <1>3, <2>2, <2>5, TaskDelivers
  <2> QED
    BY <2>2, <2>3, <2>4, <2>5, ConsumerPool
<1> QED
  BY <1>2, <1>3, ConsumerPool

LEMMA TaskStep ==
  ASSUME ChannelInv, PlanInv, DemoInv, DryInv, KnownInv, TaskInv, [DemoNext]_demoVars
  PROVE  TaskInv'
<1> SUFFICES ASSUME Patient' PROVE Current'
  BY TaskPartsNext
<1> USE DEF ChannelInv, DemoInv
<1>0. Patient /\ (Dry \/ Going) /\ Current
  BY PatientStep, DryParts, TaskParts
<1>1. CASE Statement
  <2>1. /\ UNCHANGED <<frame, first, callee, pending, executing, done>>
        /\ UNCHANGED <<socket, published, callbacks>>
    BY <1>1, StatementCases, BeginEffect, SkipEffect DEF pool
  <2>2. Waiting' = Waiting
    BY <2>1 DEF Waiting
  <2> QED
    BY <1>0, <2>1, <2>2, CurrentKept
<1>2. CASE Return
  <2>1. At = Len(Plan) /\ ~Finished
    BY <1>2, ReturnPlan DEF Return
  <2>2. Dry
    BY <1>0, <2>1, PlanFacts DEF Going
  <2> QED
    BY <1>0, <1>2, <2>2, TaskReturn
<1>3. CASE Exit
  <2>1. UNCHANGED <<frame, first, callee, pending, executing, done, socket, published, callbacks>>
    BY <1>3, ExitKeeps DEF pool
  <2>2. Waiting' = Waiting
    BY <2>1 DEF Waiting
  <2> QED
    BY <1>0, <2>1, <2>2, CurrentKept
<1>4. CASE Inner
  BY <1>0, <1>4, TaskInner
<1>5. CASE Consumes
  BY <1>0, <1>5, TaskConsumes
<1>6. CASE Works
  <2>1. UNCHANGED <<frame, first, callee, socket, published, callbacks>>
    BY <1>6, WorksEffect, SkipEffect DEF program
  <2> QED
    BY <1>0, <1>6, <2>1, WorksEffect, CurrentKept
<1>7. CASE Closes \/ UNCHANGED demoVars
  <2>1. UNCHANGED <<vars, frame, first, callee, done, pending, executing>>
    BY <1>7, ClosesEffect DEF program, demoVars, pool
  <2>2. UNCHANGED <<socket, published, callbacks>> /\ Waiting' = Waiting
    BY <2>1, SkipEffect DEF Waiting
  <2> QED
    BY <1>0, <2>1, <2>2, CurrentKept
<1>9. CASE Serves
  <2>1. /\ UNCHANGED <<frame, first, callee, done, socket, published, callbacks>>
        /\ Waiting' = Waiting
    BY <1>9, ServesRest DEF program, pool, Waiting
  <2> QED
    BY <1>0, <2>1, CurrentKept
<1>8. CASE Crashes
  BY <1>8, MainOnly DEF Crashes, Breaks, Patient, Broken
<1> QED
  BY <1>1, <1>2, <1>3, <1>4, <1>5, <1>6, <1>7, <1>8, <1>9 DEF DemoNext, MainStep

-----------------------------------------------------------------------------
(* What is true of a patient program. *)

LEMMA PatienceHolds ==
  DemoSpec => [](ChannelInv /\ PlanInv /\ DemoInv /\ DryInv /\ KnownInv /\ TaskInv)
<1>1. ChannelInv /\ PlanInv /\ DemoInv /\ DryInv /\ KnownInv /\ TaskInv
        /\ [DemoNext]_demoVars => DryInv' /\ KnownInv' /\ TaskInv'
  BY DryStep, KnownStep, TaskStep DEF ChannelInv, DemoInv
<1> QED
  BY <1>1, DryInit, KnownInit, TaskInit, DemoHolds, PTL DEF DemoSpec

(* No entry of callbacks_ outlives the demonstration whose variables its   *)
(* callback uses, an unsubscribe that throws apart; and if main waited long *)
(* enough and nothing failed, no task does either: the callback of each    *)
(* task in the pool is one of the demonstration main is in.                *)
THEOREM CallbacksCorrect == DemoSpec => []CallbacksAreLive
<1>1. DemoInv /\ TaskInv => CallbacksAreLive
  <2> SUFFICES ASSUME DemoInv, TaskInv PROVE CallbacksAreLive
    OBVIOUS
  <2>1. ~Finished => \A c \in callbacks : owner[c][1] = frame
    BY DEF DemoInv, EntryInv
  <2>2. ASSUME Patient,
               NEW n \in executing \cup {pending[i] : i \in DOMAIN pending}
        PROVE  callee[n][1] = frame
    BY <2>2, TaskParts DEF Current, Waiting
  <2> QED
    BY <2>1, <2>2 DEF CallbacksAreLive
<1> QED
  BY <1>1, PatienceHolds, PTL

(* When main has begun the last statement of a demonstration, and waited,  *)
(* for its subscriptions and then for its messages, the demonstration's    *)
(* callbacks ran for the messages it published, each of them and no other. *)
THEOREM TotalsCorrect == DemoSpec => []ResultsAddUp
<1>1. PlanInv /\ DemoInv /\ DryInv /\ TaskInv => ResultsAddUp
  <2> SUFFICES ASSUME PlanInv, DemoInv, DryInv, TaskInv,
                      Patient, ~Finished, left = <<>>, pc[Main] = "idle"
               PROVE  Received(frame) = first + 1 .. published
    BY DEF ResultsAddUp
  <2>1. Current /\ (Dry \/ Going)
    BY TaskParts, DryParts
  <2>2. Dry
    <3>1. At = Len(Plan) /\ Len(Plan) \in Nat /\ WaitAt \in Nat /\ WaitAt <= Len(Plan)
      BY PlanFacts DEF At
    <3> QED
      BY <2>1, <3>1 DEF Going
  <2>3. socket = <<>> /\ executing = {} /\ Waiting = {}
    BY <2>2 DEF Dry, Waiting
  <2>4. ASSUME NEW n \in Received(frame) PROVE n \in first + 1 .. published
    <3>1. n \in Waiting \cup done /\ callee[n][1] = frame
      BY DEF Received, Waiting
    <3>2. n <= published /\ n > first /\ first \in 0 .. published
      BY <2>1, <3>1 DEF Current, Known
    <3>3. n \in Nat
      BY <3>1, TaskTyped, RedisChannelAssumption DEF DemoInv
    <3> QED
      BY <3>2, <3>3
  <2>5. ASSUME NEW n \in first + 1 .. published PROVE n \in Received(frame)
    <3>1. Found(n)
      BY <2>1 DEF Current
    <3>2. n \in Waiting \cup done /\ callee[n][1] = frame
      BY <2>3, <3>1 DEF Found, InSocket
    <3>3. callee[n] # <<>>
      BY <2>1, <3>2 DEF Current, Known
    <3> QED
      BY <2>3, <3>2, <3>3 DEF Received
  <2> QED
    BY <2>4, <2>5
<1> QED
  BY <1>1, PatienceHolds, PTL

(* As long as main waits long enough and nothing fails, main never erases  *)
(* an entry of callbacks_, nor loops over them, while the consumer looks one *)
(* up: there is no race and no mutual wait.                                *)
THEOREM PatienceCorrect == DemoSpec => []PatienceIsSafe
<1>1. ChannelInv /\ DemoInv /\ DryInv => PatienceIsSafe
  <2> SUFFICES ASSUME ChannelInv, DemoInv, DryInv, Patient
               PROVE  ~UndefinedBehaviour /\ ~MutualWait
    BY DEF PatienceIsSafe
  <2>1. pc[Consumer] = "deliver" => pc[Main] \in {"idle", "publish"}
    <3>1. pc[Consumer] = "deliver" => ~Dry
      BY DEF ChannelInv, PlaceInv, SoleInv, Dry, Patient
    <3> QED
      BY <3>1, DryParts DEF Going
  <2>2. ~UndefinedBehaviour
    BY <2>1, MainOnly, SoleRace DEF ChannelInv, Patient
  <2>3. cbMutex # NoThread => pc[Main] \in {"resubscribe", "removeAll"}
    BY DEF DemoInv, MainInv, Patient
  <2> QED
    BY <2>1, <2>2, <2>3, MainOnly, RedisChannelAssumption DEF MutualWait, InLoop
<1> QED
  BY <1>1, PatienceHolds, PTL

=============================================================================
