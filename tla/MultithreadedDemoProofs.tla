----------------------- MODULE MultithreadedDemoProofs -----------------------
(***************************************************************************)
(* Proofs about the multithreaded demonstration, for any threads, any      *)
(* numbers of operations and keys, and any number of commands that fail.   *)
(* A sum over the threads is the size of a set of pairs: an operation is   *)
(* its thread and its number, counted down.                                *)
(***************************************************************************)
EXTENDS MultithreadedDemoProperties, FiniteSetTheorems, TLAPS

Counters == {<<n>> : n \in Nat}
Values   == {Absent} \cup Counters \cup (Workers \X Nat)
Sending  == {"lock", "apply", "unlock", "get"}
Busy(t)  == pc[t] \in Sending
Requests == [number : Nat, do : {"lock", "apply", "unlock"}, key : Keys, put : Values]

TypeInv ==
  /\ demo \in {"writes", "shared", "load", "over"}
  /\ phase \in {"init", "spawn", "join", "check", "clean", "over"}
  /\ chores \subseteq Keys /\ checks \in Nat
  /\ value \in [Keys -> Values] /\ locked \subseteq Keys /\ late \subseteq Requests
  /\ pc \in [Threads -> Sending \cup {"none", "between", "done"}]
  /\ key \in [Threads -> Keys \cup {NoKey}] /\ put \in [Threads -> Values]
  /\ ok \in [Threads -> BOOLEAN]
  /\ left \in [Workers -> Nat] /\ local \in [Workers -> Nat]
  /\ count \in [reads : Nat, readErrors : Nat, writes : Nat, writeErrors : Nat,
                total : Nat, successful : Nat]
  /\ monitor \in BOOLEAN /\ overlapped \in BOOLEAN /\ failures \in Nat

(* Operations a thread has still to end. *)
Undone(t) == left[t] + IF Busy(t) THEN 1 ELSE 0

(* What a thread's place says of its request, and main's of the rest. *)
WorkerInv(t) ==
  /\ phase # "join" => pc[t] \in {"none", "done"}
  /\ phase = "join" => pc[t] # "none" /\ Undone(t) <= Rounds[demo]
  /\ pc[t] \in {"none", "done"} => left[t] = 0 /\ local[t] = 0
  /\ demo # "load" => local[t] = 0
  /\ Busy(t) =>
       /\ demo = "writes" =>
            /\ pc[t] # "get" /\ key[t] = Item(t, left[t] + 1)
            /\ put[t] = <<t, left[t] + 1>>
       /\ demo = "shared" =>
            /\ key[t] = SharedKey
            /\ pc[t] # "get" => t \in Writers /\ put[t] \in Counters
       /\ demo = "load" => key[t] \in Loads

(* The keys that a demonstration works on. *)
InUse(k) ==
  /\ demo = "writes" => k \in Items
  /\ demo = "shared" => k = SharedKey
  /\ demo = "load" => k \in Loads

MainInv ==
  /\ demo = "over" <=> phase = "over"
  /\ phase = "init" => demo = "shared"
  /\ phase \in {"init", "spawn"} => count = Zero
  /\ demo = "load" /\ phase = "check" => checks = 0
  /\ phase = "clean" => \A k \in chores : InUse(k)
  /\ Busy(Main) \/ pc[Main] = "between"
  /\ Busy(Main) =>
       \/ /\ phase = "spawn" /\ demo = "shared" /\ pc[Main] # "get"
          /\ key[Main] = SharedKey /\ put[Main] = <<0>>
       \/ /\ phase = "check" /\ pc[Main] = "get"
          /\ \/ demo = "writes" /\ key[Main] \in Items
             \/ demo = "shared" /\ key[Main] = SharedKey
       \/ /\ phase = "clean" /\ pc[Main] # "get"
          /\ key[Main] \in Keys /\ InUse(key[Main]) /\ put[Main] = Absent

(* What may be written to a key. *)
Fits(k, v) ==
  /\ k = SharedKey => v \in {Absent} \cup Counters
  /\ \A t \in Workers, n \in 1 .. Rounds.writes :
       k = Item(t, n) => v \in {Absent, <<t, n>>}

ValueInv ==
  /\ value[SharedKey] \in {Absent} \cup Counters
  /\ \A t \in Workers, n \in 1 .. Rounds.writes :
       value[Item(t, n)] \in {Absent, <<t, n>>}

(* A command given up on is of this demonstration or of an earlier one.    *)
LateInv ==
  /\ IsFiniteSet(late)
  /\ failures = 0 => late = {}
  /\ demo = "writes" /\ phase = "spawn" => late = {}
  /\ \A m \in late :
       /\ Fits(m.key, m.put)
       /\ demo = "writes" \/ phase = "init" => m.key \in Items
       /\ demo = "shared" \/ phase = "spawn" => m.key \notin Loads

PlaceInv ==
  (\A t \in Workers : WorkerInv(t)) /\ MainInv /\ ValueInv /\ LateInv

-----------------------------------------------------------------------------
AllOps    == Workers \X (1 .. Rounds[demo])
Ended     == {o \in AllOps : o[2] > Undone(o[1])}
Started   == {o \in AllOps : o[2] > left[o[1]]}
Alone     == {o \in Workers \X (Nat \ {0}) : o[2] <= local[o[1]]}
Present   == {k \in Loads : value[k] # Absent}
Pending   == {m \in late : m.do = "apply" /\ m.key \in Loads}
Confirmed == {t \in Workers : pc[t] = "unlock" /\ ok[t]}
Failed    == {t \in Workers : pc[t] = "unlock" /\ ~ok[t]}

CountInv ==
  /\ phase \in {"join", "check", "clean"} =>
       /\ demo \in {"writes", "shared"} =>
            count.reads + count.readErrors + count.writes + count.writeErrors
              = Cardinality(Ended)
       /\ demo = "load" =>
            /\ count.total = Cardinality(Started)
            /\ count.successful + Cardinality(Alone) <= Cardinality(Ended)
  /\ demo = "writes" => count.reads = 0 /\ count.readErrors = 0
  /\ IsFiniteSet(Alone)

PresentInv ==
  /\ demo \in {"writes", "shared"} \/ phase = "spawn" => Present = {}
  /\ demo = "load" /\ phase \in {"join", "check"} =>
       /\ IsFiniteSet(Present)
       /\ Cardinality(Present) + Cardinality(Pending)
            <= count.successful + Cardinality(Alone) + Cardinality(Confirmed) + failures

(* The keys locked, or that a command given up on may still lock. *)
Lockable == locked \cup {m.key : m \in {l \in late : l.do = "lock"}}

ItemsInv ==
  demo = "writes" =>
    /\ phase = "spawn" => locked = {}
    /\ phase = "join" =>
         \A t \in Workers, n \in 1 .. Rounds.writes :
           Item(t, n) \in Lockable => n > left[t] /\ (pc[t] = "lock" => n > left[t] + 1)
    /\ SharedKey \notin locked \cup chores /\ value[SharedKey] = Absent
    /\ Busy(Main) => key[Main] # SharedKey
    /\ count.writeErrors + Cardinality(Failed) <= failures
    /\ failures = 0 /\ phase \in {"join", "check"} =>
         \A t \in Workers, n \in 1 .. Rounds.writes :
           n > Undone(t) \/ (pc[t] = "unlock" /\ n = left[t] + 1)
             => value[Item(t, n)] # Absent
    /\ failures = 0 /\ phase = "check" => ok[Main]

(* Writes reported, and commands that may still overwrite the counter.      *)
Reports    == count.writes + Cardinality(Unlocking)
Overwrites == {m \in late : m.do = "apply" /\ m.key = SharedKey}

CounterInv ==
  demo = "shared" =>
    /\ phase = "init" => value[SharedKey] = Absent /\ SharedKey \notin locked
    /\ phase = "spawn" => value[SharedKey] \in {Absent, <<0>>}
    /\ phase = "join" /\ value[SharedKey] = Absent =>
         \A t \in Writers : pc[t] \notin {"lock", "apply", "unlock"}
    /\ phase = "join" =>
         \A t \in Writers : pc[t] \in {"lock", "apply"} =>
           put[t][1] <= Reports + failures + 1
    /\ phase \in {"join", "check"} /\ value[SharedKey] = Absent => Reports = 0
    /\ phase = "spawn" => \A m \in Overwrites : m.put = <<0>>
    /\ phase \in {"join", "check"} =>
         \A m \in Overwrites : m.put \in Counters /\ m.put[1] <= Reports + failures
    /\ CounterCountsWrites

(* Without a failed command: the counter is there, a lock has its owner,   *)
(* and until a write succeeds no writer has ended an operation.            *)
Trying(t) == pc[t] \in {"apply", "unlock"}
SuccessInv ==
  demo = "shared" /\ failures = 0 =>
    /\ phase = "spawn" =>
         /\ pc[Main] \in {"unlock", "between"} => value[SharedKey] = <<0>>
         /\ ~Trying(Main) => SharedKey \notin locked
    /\ phase = "join" =>
         /\ value[SharedKey] # Absent
         /\ SharedKey \in locked => \E t \in Writers : Trying(t)
         /\ \A t \in Writers : pc[t] = "unlock" => ok[t]
         /\ \/ count.writes > 0 \/ \E t \in Writers : Trying(t)
            \/ \A t \in Writers : Undone(t) = Rounds.shared
    /\ Writers # {} /\ Rounds.shared > 0 /\ Reported => count.writes > 0

-----------------------------------------------------------------------------
(* Types. *)

CountTypes == [reads : Nat, readErrors : Nat, writes : Nat, writeErrors : Nat,
               total : Nat, successful : Nat]
Places == Sending \cup {"none", "between", "done"}

LEMMA AddsTyped ==
  ASSUME count \in CountTypes,
         NEW field \in {"reads", "readErrors", "writes", "writeErrors", "total"},
         Adds(field)
  PROVE  /\ count' \in CountTypes /\ count'[field] = count[field] + 1
         /\ \A f \in {"reads", "readErrors", "writes", "writeErrors", "total", "successful"} :
              f # field => count'[f] = count[f]
BY DEF CountTypes, Adds

LEMMA KeysThere ==
  /\ SharedKey \in Keys /\ Loads \subseteq Keys /\ Items \subseteq Keys
  /\ \A t \in Workers, n \in 1 .. Rounds.writes : Item(t, n) \in Items
  /\ \A t, u \in Workers, n, m \in 1 .. Rounds.writes :
       Item(t, n) = Item(u, m) => t = u /\ n = m
  /\ SharedKey \notin Items /\ SharedKey \notin Loads /\ Items \cap Loads = {}
BY DEF SharedKey, Keys, Loads, Items, Item, Load

(* Only the thread of a step changes its place, its request and its count. *)
Others(t) ==
  /\ \A u \in Threads \ {t} :
       pc'[u] = pc[u] /\ key'[u] = key[u] /\ put'[u] = put[u] /\ ok'[u] = ok[u]
  /\ \A u \in Workers \ {t} : left'[u] = left[u] /\ local'[u] = local[u]

LEMMA EndsTyped ==
  ASSUME TypeInv, NEW t \in Threads, NEW success \in BOOLEAN, Ends(t, success)
  PROVE  /\ pc' \in [Threads -> Places] /\ pc'[t] = "between"
         /\ key' \in [Threads -> Keys \cup {NoKey}] /\ put' \in [Threads -> Values]
         /\ ok' \in [Threads -> BOOLEAN] /\ local' \in [Workers -> Nat]
         /\ ok'[t] = (t = Main /\ success)
         /\ t \in Workers =>
              local'[t] = local[t] + (IF demo = "load" /\ success THEN 1 ELSE 0)
         /\ Others(t) /\ UNCHANGED <<program, left>>
<1> USE DemoAssumption DEF TypeInv, Ends, Goes, Threads, Places
<1>1. pc' \in [Threads -> Places] /\ pc'[t] = "between"
  OBVIOUS
<1>2. key' \in [Threads -> Keys \cup {NoKey}] /\ put' \in [Threads -> Values]
  BY DEF Values
<1>3. ok' \in [Threads -> BOOLEAN] /\ ok'[t] = (t = Main /\ success)
  <2> DEFINE b == t = Main /\ success
  <2>1. b \in BOOLEAN /\ ok' = [ok EXCEPT ![t] = b] /\ ok \in [Threads -> BOOLEAN]
    OBVIOUS
  <2> HIDE DEF b
  <2>2. ok' \in [Threads -> BOOLEAN] /\ ok'[t] = b
    BY <2>1
  <2> QED
    BY <2>2 DEF b
<1>4. /\ local' \in [Workers -> Nat]
      /\ t \in Workers => local'[t] = local[t] + (IF demo = "load" /\ success THEN 1 ELSE 0)
  OBVIOUS
<1>5. \A u \in Threads \ {t} :
        pc'[u] = pc[u] /\ key'[u] = key[u] /\ put'[u] = put[u] /\ ok'[u] = ok[u]
  OBVIOUS
<1>6. \A u \in Workers \ {t} : left'[u] = left[u] /\ local'[u] = local[u]
  OBVIOUS
<1> QED
  BY <1>1, <1>2, <1>3, <1>4, <1>5, <1>6 DEF Others

LEMMA CountsTyped ==
  ASSUME TypeInv, NEW t \in Threads, NEW success \in BOOLEAN,
         Counts(t, success) \/ CountsRead(t, success)
  PROVE  count' \in CountTypes
<1>1. count \in CountTypes
  BY DEF TypeInv, CountTypes
<1>2. \/ UNCHANGED count
      \/ \E f \in {"reads", "readErrors", "writes", "writeErrors"} : Adds(f)
  BY DEF Counts, CountsRead
<1> QED
  BY <1>1, <1>2, AddsTyped

(* A command goes to a key, with what may be written there. *)
LEMMA BusyKey ==
  ASSUME TypeInv, PlaceInv, NEW t \in Threads, Busy(t)
  PROVE  /\ key[t] \in Keys /\ demo # "over" /\ InUse(key[t])
         /\ t \in Workers => phase = "join"
         /\ phase # "init" /\ (phase = "spawn" => demo = "shared")
         /\ pc[t] # "get" => Fits(key[t], put[t])
<1>1. CASE t \in Workers
  <2>1. /\ phase = "join" /\ demo \in {"writes", "shared", "load"}
        /\ left[t] \in Nat /\ left[t] + 1 <= Rounds[demo]
    BY <1>1 DEF TypeInv, PlaceInv, WorkerInv, MainInv, Undone, Busy, Sending
  <2>2. CASE demo = "writes"
    <3>1. /\ key[t] = Item(t, left[t] + 1) /\ put[t] = <<t, left[t] + 1>>
          /\ left[t] + 1 \in 1 .. Rounds.writes
      BY <1>1, <2>1, <2>2, DemoAssumption DEF PlaceInv, WorkerInv
    <3>2. key[t] \in Items
      BY <1>1, <3>1, KeysThere
    <3>3. \A u \in Workers, n \in 1 .. Rounds.writes :
            key[t] = Item(u, n) => u = t /\ n = left[t] + 1
      BY <1>1, <3>1, KeysThere
    <3>4. Fits(key[t], put[t])
      BY <3>1, <3>2, <3>3, KeysThere DEF Fits
    <3> QED
      BY <2>1, <2>2, <3>2, <3>4, KeysThere DEF InUse
  <2>3. CASE demo = "shared"
    <3>1. key[t] = SharedKey /\ (pc[t] # "get" => put[t] \in Counters)
      BY <1>1, <2>3 DEF PlaceInv, WorkerInv
    <3> QED
      BY <2>1, <2>3, <3>1, KeysThere DEF Fits, InUse
  <2>4. CASE demo = "load"
    <3>1. key[t] \in Loads
      BY <1>1, <2>4 DEF PlaceInv, WorkerInv
    <3>2. key[t] \notin Items
      BY <3>1, KeysThere
    <3> QED
      BY <2>1, <2>4, <3>1, <3>2, KeysThere DEF Fits, InUse
  <2> QED
    BY <2>1, <2>2, <2>3, <2>4
<1>2. CASE t = Main
  <2>1. /\ phase # "over" /\ demo # "over" /\ Main \notin Workers
        /\ phase # "init" /\ (phase = "spawn" => demo = "shared")
    BY <1>2, DemoAssumption DEF PlaceInv, MainInv
  <2>2. key[Main] \in Keys /\ InUse(key[Main])
    BY <1>2, KeysThere DEF PlaceInv, MainInv, InUse
  <2>3. pc[Main] # "get" => put[Main] = Absent \/ (key[Main] = SharedKey /\ put[Main] = <<0>>)
    BY <1>2 DEF PlaceInv, MainInv
  <2>4. <<0>> \in Counters
    BY DEF Counters
  <2>5. pc[Main] # "get" => Fits(key[Main], put[Main])
    BY <2>3, <2>4, KeysThere DEF Fits
  <2> QED
    BY <1>2, <2>1, <2>2, <2>5
<1> QED
  BY <1>1, <1>2 DEF Threads

(* What becomes of the commands given up on. *)
LEMMA LateStays ==
  ASSUME PlaceInv, UNCHANGED <<late, failures>>,
         demo' = "writes" => demo = "writes" /\ (phase' = "spawn" => phase = "spawn"),
         phase' = "init" => demo = "writes" \/ phase = "init",
         demo' = "shared" \/ phase' = "spawn"
           => demo \in {"writes", "shared"} \/ phase \in {"init", "spawn"}
  PROVE  LateInv'
BY KeysThere DEF PlaceInv, LateInv, Fits

LEMMA CommandLate ==
  ASSUME TypeInv, PlaceInv, NEW t \in Threads, Commands(t)
  PROVE  /\ UNCHANGED program /\ Busy(t) /\ late' \subseteq Requests /\ LateInv'
         /\ \/ late' = late /\ failures' \in {failures, failures + 1}
            \/ pc[t] # "get" /\ late' = late \cup {Command(t)} /\ failures' = failures + 1
<1>1. UNCHANGED program /\ Busy(t)
  BY DEF Commands, TryLock, Apply, Unlock, Get, Ends, Busy, Sending
<1>2. \/ late' = late /\ failures' \in {failures, failures + 1}
      \/ pc[t] # "get" /\ late' = late \cup {Command(t)} /\ failures' = failures + 1
  BY DEF Commands, TryLock, Apply, Unlock, Get, Lost, Fails, store
<1>3. failures \in Nat /\ late \subseteq Requests
  BY DEF TypeInv
<1>4. CASE late' = late /\ failures' \in {failures, failures + 1}
  <2>1. failures' = 0 => failures = 0
    BY <1>3, <1>4
  <2>2. LateInv'
    BY <1>1, <1>4, <2>1 DEF PlaceInv, LateInv, Fits, program
  <2> QED
    BY <1>1, <1>2, <1>3, <1>4, <2>2
<1>5. CASE /\ pc[t] # "get" /\ late' = late \cup {Command(t)}
           /\ failures' = failures + 1
  <2>1. /\ key[t] \in Keys /\ InUse(key[t]) /\ Fits(key[t], put[t])
        /\ t \in Workers => phase = "join"
        /\ phase # "init" /\ (phase = "spawn" => demo = "shared") /\ demo # "over"
    BY <1>1, <1>5, BusyKey
  <2>2. Command(t) \in Requests
    BY <1>1, <1>3, <1>5, <2>1 DEF Command, Requests, Busy, Sending, TypeInv
  <2>3. IsFiniteSet(late') /\ failures' # 0
    BY <1>3, <1>5, FS_AddElement DEF PlaceInv, LateInv
  <2>4. /\ Command(t).key = key[t] /\ Command(t).put = put[t]
    BY DEF Command
  <2>5. \A m \in late' :
          /\ Fits(m.key, m.put)
          /\ demo = "writes" \/ phase = "init" => m.key \in Items
          /\ demo = "shared" \/ phase = "spawn" => m.key \notin Loads
    <3>1. \A m \in late :
            /\ Fits(m.key, m.put)
            /\ demo = "writes" \/ phase = "init" => m.key \in Items
            /\ demo = "shared" \/ phase = "spawn" => m.key \notin Loads
      BY DEF PlaceInv, LateInv
    <3>2. /\ Fits(Command(t).key, Command(t).put)
          /\ demo = "writes" \/ phase = "init" => Command(t).key \in Items
          /\ demo = "shared" \/ phase = "spawn" => Command(t).key \notin Loads
      BY <2>1, <2>4, KeysThere DEF InUse
    <3> QED
      BY <1>5, <3>1, <3>2
  <2>6. demo' = demo /\ phase' = phase
    BY <1>1 DEF program
  <2>7. demo = "writes" => phase # "spawn"
    BY <2>1
  <2>8. LateInv'
    BY <2>3, <2>5, <2>6, <2>7 DEF LateInv, Fits
  <2> QED
    BY <1>1, <1>2, <1>3, <1>5, <2>2, <2>8
<1> QED
  BY <1>2, <1>4, <1>5

LEMMA CommandTyped ==
  ASSUME TypeInv, PlaceInv, NEW t \in Threads, Commands(t)
  PROVE  /\ TypeInv' /\ Others(t) /\ Busy(t) /\ UNCHANGED <<program, left>>
         /\ pc'[t] \in {"between", "apply", "unlock", "lock"}
<1> USE DemoAssumption
<1>0. late' \subseteq Requests /\ failures' \in Nat
  BY CommandLate DEF TypeInv
<1>1. CASE TryLock(t)
  <2>1. Busy(t) /\ key[t] \in Keys
    BY <1>1, BusyKey DEF TryLock, Busy, Sending
  <2>2. CASE locked' = locked \cup {key[t]} /\ Goes(t, "apply")
             /\ UNCHANGED <<program, request, ok, work, late, failures>>
    BY <1>1, <2>1, <2>2 DEF TryLock, TypeInv, Goes, program, request, work, Others, Sending,
         Threads
  <2>3. ASSUME NEW success \in BOOLEAN, Ends(t, success) /\ Counts(t, success)
        PROVE  /\ TypeInv' /\ Others(t) /\ Busy(t) /\ UNCHANGED <<program, left>>
               /\ pc'[t] = "between"
    <3>1. locked' \in {locked, locked \cup {key[t]}} /\ UNCHANGED <<value, overlapped>>
      BY <1>1, <2>3 DEF TryLock, Ends, Goes, TypeInv, Threads
    <3>2. count' \in CountTypes
      BY <2>3, CountsTyped
    <3> QED
      BY <1>0, <2>1, <2>3, <3>1, <3>2, EndsTyped DEF TypeInv, CountTypes, program, Places
  <2> QED
    BY <1>1, <2>2, <2>3 DEF TryLock
<1>2. CASE Apply(t)
  <2>1. Busy(t) /\ key[t] \in Keys
    BY <1>2, BusyKey DEF Apply, Busy, Sending
  <2>2. /\ pc' = [pc EXCEPT ![t] = "unlock"]
        /\ UNCHANGED <<program, locked, request, work>>
        /\ value' = [value EXCEPT ![key[t]] = put[t]] \/ value' = value
    BY <1>2 DEF Apply, Executes, Goes
  <2>3. ok' \in [Threads -> BOOLEAN] /\ \A u \in Threads \ {t} : ok'[u] = ok[u]
    <3>1. \E b \in BOOLEAN : ok' = [ok EXCEPT ![t] = b]
      BY <1>2 DEF Apply
    <3> QED
      BY <3>1 DEF TypeInv
  <2>4. overlapped' \in BOOLEAN
    <3>1. \/ overlapped' = (overlapped \/ Overlaps(key[t], put[t]))
          \/ overlapped' = overlapped
      BY <1>2 DEF Apply, Executes
    <3> QED
      BY <3>1 DEF TypeInv
  <2>5. value' \in [Keys -> Values]
    BY <2>1, <2>2 DEF TypeInv
  <2>6. pc' \in [Threads -> Sending \cup {"none", "between", "done"}] /\ pc'[t] = "unlock"
    BY <2>2 DEF TypeInv, Sending
  <2>7. Others(t)
    BY <2>2, <2>3 DEF Others, TypeInv, request, work
  <2> QED
    BY <1>0, <2>1, <2>2, <2>3, <2>4, <2>5, <2>6, <2>7 DEF TypeInv, program, request, work
<1>3. CASE Unlock(t)
  <2>1. Busy(t) /\ key[t] \in Keys /\ ok[t] \in BOOLEAN
    BY <1>3, BusyKey DEF Unlock, Busy, Sending, TypeInv
  <2>2. Ends(t, ok[t]) /\ Counts(t, ok[t])
    BY <1>3 DEF Unlock
  <2>3. locked' \in {locked, locked \ {key[t]}} /\ UNCHANGED <<value, overlapped>>
    BY <1>3 DEF Unlock
  <2>4. count' \in CountTypes
    BY <2>1, <2>2, CountsTyped
  <2> QED
    BY <1>0, <2>1, <2>2, <2>3, <2>4, EndsTyped DEF TypeInv, CountTypes, program, Places
<1>4. CASE Get(t)
  <2>1. Busy(t) /\ key[t] \in Keys
    BY <1>4, BusyKey DEF Get, Busy, Sending
  <2>2. CASE /\ demo = "shared" /\ t \in Writers /\ Goes(t, "lock")
             /\ put' = [put EXCEPT ![t] = <<value[key[t]][1] + 1>>]
             /\ value[key[t]] # Absent
             /\ UNCHANGED <<program, key, ok, work, failures>>
    <3>1. t \in Workers /\ key[t] = SharedKey
      BY <2>1, <2>2 DEF Workers, PlaceInv, WorkerInv
    <3>2. value[key[t]] \in Counters
      BY <2>2, <3>1 DEF PlaceInv, ValueInv
    <3>3. <<value[key[t]][1] + 1>> \in Values
      BY <3>2 DEF Counters, Values
    <3> QED
      BY <1>4, <2>1, <2>2, <3>3 DEF Get, TypeInv, Goes, program, work, store, Others, Sending,
           Threads
  <2>3. ASSUME NEW success \in BOOLEAN, Ends(t, success) /\ CountsRead(t, success)
        PROVE  /\ TypeInv' /\ Others(t) /\ Busy(t) /\ UNCHANGED <<program, left>>
               /\ pc'[t] = "between"
    <3>1. UNCHANGED <<store, overlapped>>
      BY <1>4 DEF Get
    <3>2. count' \in CountTypes
      BY <2>3, CountsTyped
    <3> QED
      BY <1>0, <2>1, <2>3, <3>1, <3>2, EndsTyped DEF TypeInv, CountTypes, program, store, Places
  <2> QED
    BY <1>4, <2>2, <2>3 DEF Get
<1> QED
  BY <1>1, <1>2, <1>3, <1>4 DEF Commands

-----------------------------------------------------------------------------
(* Places. *)

(* What a command does to the keys. *)
LEMMA CommandWrites ==
  ASSUME NEW t, Commands(t)
  PROVE  \/ UNCHANGED value
         \/ pc[t] = "apply" /\ value' = [value EXCEPT ![key[t]] = put[t]]
BY DEF Commands, TryLock, Apply, Unlock, Get, Executes, store

LEMMA ValueKept ==
  ASSUME TypeInv, PlaceInv, NEW t \in Threads, Commands(t)
  PROVE  ValueInv'
<1>1. CASE UNCHANGED value
  BY <1>1 DEF PlaceInv, ValueInv
<1>2. CASE pc[t] = "apply" /\ value' = [value EXCEPT ![key[t]] = put[t]]
  <2>1. /\ key[t] \in Keys
        /\ key[t] = SharedKey => put[t] \in {Absent} \cup Counters
        /\ \A u \in Workers, n \in 1 .. Rounds.writes :
             key[t] = Item(u, n) => put[t] \in {Absent, <<u, n>>}
    BY <1>2, BusyKey DEF Busy, Sending, Fits
  <2>2. \A k \in Keys : value'[k] = IF k = key[t] THEN put[t] ELSE value[k]
    BY <1>2 DEF TypeInv
  <2>3. value'[SharedKey] \in {Absent} \cup Counters
    BY <2>1, <2>2, KeysThere DEF PlaceInv, ValueInv
  <2>4. ASSUME NEW u \in Workers, NEW n \in 1 .. Rounds.writes
        PROVE  value'[Item(u, n)] \in {Absent, <<u, n>>}
    <3>1. Item(u, n) \in Keys /\ value[Item(u, n)] \in {Absent, <<u, n>>}
      BY KeysThere DEF PlaceInv, ValueInv
    <3> QED
      BY <2>1, <2>2, <3>1
  <2> QED
    BY <2>3, <2>4 DEF ValueInv
<1> QED
  BY <1>1, <1>2, CommandWrites

(* What does not change for the threads other than the one that goes on. *)
LEMMA OtherWorkers ==
  ASSUME PlaceInv, NEW t, Others(t), UNCHANGED <<demo, phase>>
  PROVE  \A u \in Workers \ {t} : WorkerInv(u)' /\ Undone(u)' = Undone(u)
BY DEF PlaceInv, WorkerInv, Others, Threads, Busy, Undone

LEMMA MainCounts ==
  ASSUME Commands(Main) PROVE UNCHANGED count
BY DEF Commands, TryLock, Apply, Unlock, Get, Counts, CountsRead, work

LEMMA CommandPlaced ==
  ASSUME TypeInv, PlaceInv, NEW t \in Threads, Commands(t)
  PROVE  PlaceInv'
<1> USE DemoAssumption
<1>1. /\ TypeInv' /\ Others(t) /\ Busy(t) /\ UNCHANGED <<program, left>>
      /\ pc'[t] \in {"between", "apply", "unlock", "lock"}
  BY CommandTyped
<1>2. UNCHANGED <<demo, phase, chores, checks>>
  BY <1>1 DEF program
<1>3. \A u \in Workers \ {t} : WorkerInv(u)'
  BY <1>1, <1>2, OtherWorkers
<1>4. ASSUME NEW success \in BOOLEAN, Ends(t, success)
      PROVE  pc'[t] = "between" /\ (t \in Workers /\ demo # "load" => local'[t] = local[t])
  BY <1>4, EndsTyped DEF TypeInv
<1>5. \/ pc'[t] = "between" /\ (t \in Workers /\ demo # "load" => local'[t] = local[t])
      \/ /\ pc'[t] \in {"lock", "apply", "unlock"}
         /\ UNCHANGED <<key, local>>
         /\ \/ UNCHANGED put /\ pc[t] # "get"
            \/ /\ demo = "shared" /\ t \in Writers
               /\ put' = [put EXCEPT ![t] = <<value[key[t]][1] + 1>>]
               /\ value[key[t]] # Absent
  <2>1. CASE TryLock(t)
    BY <1>4, <2>1 DEF TryLock, Goes, request, work, TypeInv
  <2>2. CASE Apply(t)
    BY <2>2 DEF Apply, Goes, request, work, TypeInv
  <2>3. CASE Unlock(t)
    BY <1>4, <2>3 DEF Unlock, TypeInv
  <2>4. CASE Get(t)
    BY <1>4, <2>4 DEF Get, Goes, work, TypeInv
  <2> QED
    BY <2>1, <2>2, <2>3, <2>4 DEF Commands
<1>6. t \in Workers => WorkerInv(t)'
  <2> SUFFICES ASSUME t \in Workers PROVE WorkerInv(t)'
    OBVIOUS
  <2>1. /\ phase = "join" /\ WorkerInv(t) /\ left'[t] = left[t]
        /\ left[t] \in Nat /\ Rounds[demo] \in Nat
    BY <1>1, BusyKey DEF PlaceInv, TypeInv
  <2>2. CASE pc'[t] = "between" /\ (demo # "load" => local'[t] = local[t])
    BY <1>1, <1>2, <2>1, <2>2 DEF WorkerInv, Undone, Busy, Sending
  <2>3. CASE pc'[t] \in {"lock", "apply", "unlock"} /\ UNCHANGED <<key, local, put>>
             /\ pc[t] # "get"
    BY <1>1, <1>2, <2>1, <2>3 DEF WorkerInv, Undone, Busy, Sending
  <2>4. CASE /\ pc'[t] \in {"lock", "apply", "unlock"} /\ UNCHANGED <<key, local>>
             /\ demo = "shared" /\ t \in Writers
             /\ put' = [put EXCEPT ![t] = <<value[key[t]][1] + 1>>]
             /\ value[key[t]] # Absent
    <3>1. key[t] = SharedKey /\ value[SharedKey] \in Counters
      BY <1>1, <2>1, <2>4 DEF WorkerInv, PlaceInv, ValueInv
    <3>2. put'[t] \in Counters
      <4>1. <<value[SharedKey][1] + 1>> \in Counters
        BY <3>1 DEF Counters
      <4> QED
        BY <2>4, <3>1, <4>1 DEF TypeInv
    <3> QED
      BY <1>1, <1>2, <2>1, <2>4, <3>1, <3>2 DEF WorkerInv, Undone, Busy, Sending
  <2> QED
    BY <1>5, <2>2, <2>3, <2>4
<1>7. MainInv'
  <2>1. CASE t = Main
    <3>1. UNCHANGED count /\ Main \notin Writers
      BY <2>1, MainCounts DEF Workers
    <3>2. /\ Busy(Main)' \/ pc'[Main] = "between"
          /\ Busy(Main)' => Busy(Main) /\ UNCHANGED <<key, put>> /\ pc[Main] # "get" /\ pc'[Main] # "get"
      BY <1>1, <1>5, <2>1, <3>1 DEF Busy, Sending
    <3> QED
      BY <1>2, <3>1, <3>2 DEF PlaceInv, MainInv, InUse
  <2>2. CASE t # Main
    <3>1. /\ phase = "join" /\ pc'[Main] = pc[Main] /\ key'[Main] = key[Main]
          /\ put'[Main] = put[Main]
      BY <1>1, <2>2, BusyKey DEF Threads, Others
    <3> QED
      BY <1>2, <3>1 DEF PlaceInv, MainInv, Busy
  <2> QED
    BY <2>1, <2>2
<1> QED
  BY <1>3, <1>6, <1>7, ValueKept, CommandLate DEF PlaceInv

(* What the execution of a command given up on may change. *)
LEMMA LandsPlaced ==
  ASSUME TypeInv, PlaceInv, NEW m \in late, Lands(m)
  PROVE  /\ TypeInv' /\ PlaceInv' /\ failures # 0 /\ (demo # "writes" \/ phase # "spawn")
         /\ m \in Requests /\ Fits(m.key, m.put) /\ late' = late \ {m}
         /\ demo = "writes" \/ phase = "init" => m.key \in Items
         /\ demo = "shared" \/ phase = "spawn" => m.key \notin Loads
         /\ UNCHANGED <<program, pc, request, ok, work, failures>>
         /\ UNCHANGED value \/ (m.do = "apply" /\ value' = [value EXCEPT ![m.key] = m.put])
         /\ UNCHANGED locked \/ locked' = locked \ {m.key}
              \/ (m.do = "lock" /\ locked' = locked \cup {m.key})
<1>1. /\ m \in Requests /\ Fits(m.key, m.put) /\ late' = late \ {m}
      /\ demo = "writes" \/ phase = "init" => m.key \in Items
      /\ demo = "shared" \/ phase = "spawn" => m.key \notin Loads
      /\ failures # 0 /\ (demo # "writes" \/ phase # "spawn")
  BY DEF Lands, TypeInv, PlaceInv, LateInv
<1>2. /\ UNCHANGED <<program, pc, request, ok, work, failures>>
      /\ UNCHANGED value \/ (m.do = "apply" /\ value' = [value EXCEPT ![m.key] = m.put])
      /\ UNCHANGED locked \/ locked' = locked \ {m.key}
           \/ (m.do = "lock" /\ locked' = locked \cup {m.key})
      /\ UNCHANGED overlapped \/ overlapped' = (overlapped \/ Overlaps(m.key, m.put))
  BY DEF Lands, Executes
<1>3. m.key \in Keys /\ m.put \in Values
  BY <1>1 DEF Requests
<1>4. value' \in [Keys -> Values] /\ locked' \subseteq Keys /\ overlapped' \in BOOLEAN
  BY <1>2, <1>3 DEF TypeInv
<1>5. TypeInv'
  BY <1>1, <1>2, <1>4 DEF TypeInv, program, request, work
<1>6. \A t \in Workers : WorkerInv(t)'
  BY <1>2 DEF PlaceInv, WorkerInv, Undone, Busy, program, request, work
<1>7. MainInv'
  BY <1>2 DEF PlaceInv, MainInv, InUse, Busy, program, request, work
<1>8. ValueInv'
  <2>1. CASE UNCHANGED value
    BY <2>1 DEF PlaceInv, ValueInv
  <2>2. CASE value' = [value EXCEPT ![m.key] = m.put]
    <3>1. \A k \in Keys : value'[k] = IF k = m.key THEN m.put ELSE value[k]
      BY <2>2 DEF TypeInv
    <3>2. value'[SharedKey] \in {Absent} \cup Counters
      BY <1>1, <3>1, KeysThere DEF PlaceInv, ValueInv, Fits
    <3>3. ASSUME NEW u \in Workers, NEW n \in 1 .. Rounds.writes
          PROVE  value'[Item(u, n)] \in {Absent, <<u, n>>}
      <4>1. Item(u, n) \in Keys /\ value[Item(u, n)] \in {Absent, <<u, n>>}
        BY KeysThere DEF PlaceInv, ValueInv
      <4> QED
        BY <1>1, <3>1, <4>1 DEF Fits
    <3> QED
      BY <3>2, <3>3 DEF ValueInv
  <2> QED
    BY <1>2, <2>1, <2>2
<1>9. LateInv'
  <2>1. IsFiniteSet(late')
    BY <1>1, FS_Subset DEF PlaceInv, LateInv
  <2> QED
    BY <1>1, <1>2, <2>1 DEF PlaceInv, LateInv, Fits, program
<1> QED
  BY <1>1, <1>2, <1>5, <1>6, <1>7, <1>8, <1>9 DEF PlaceInv

(* A worker begins its next operation. *)
LEMMA RoundPlaced ==
  ASSUME TypeInv, PlaceInv, NEW t \in Workers,
         WritesItem(t) \/ UsesCounter(t) \/ LoadsStore(t)
  PROVE  TypeInv' /\ PlaceInv' /\ Others(t)
<1> USE DemoAssumption
<1>1. /\ pc[t] = "between" /\ left[t] > 0 /\ left' = [left EXCEPT ![t] = @ - 1]
      /\ UNCHANGED <<program, store, ok, local, overlapped, failures>>
      /\ phase = "join" /\ left[t] \in Nat /\ WorkerInv(t) /\ t # Main /\ t \in Threads
  BY DEF WritesItem, UsesCounter, LoadsStore, Round, PlaceInv, WorkerInv, TypeInv, Threads
<1>2. /\ left'[t] = left[t] - 1 /\ left[t] <= Rounds[demo] /\ left' \in [Workers -> Nat]
      /\ \A u \in Workers \ {t} : left'[u] = left[u]
  BY <1>1 DEF TypeInv, WorkerInv, Undone, Busy, Sending
<1>3. \E command \in {"lock", "get"}, k \in Keys, v \in Values :
        /\ Begins(t, command, k, v)
        /\ demo = "writes" => /\ command = "lock" /\ k = Item(t, left[t])
                              /\ v = <<t, left[t]>>
        /\ demo = "shared" => command = "get" /\ k = SharedKey
        /\ demo = "load" => k \in Loads
  <2>1. <<t, left[t]>> \in Values /\ Absent \in Values
    BY <1>1 DEF Values
  <2>2. CASE WritesItem(t)
    <3>1. demo = "writes" /\ left[t] \in 1 .. Rounds.writes
      BY <1>1, <1>2, <2>2 DEF WritesItem
    <3> QED
      BY <2>1, <2>2, <3>1, KeysThere DEF WritesItem
  <2>3. CASE UsesCounter(t)
    BY <2>1, <2>3, KeysThere DEF UsesCounter
  <2>4. CASE LoadsStore(t)
    <3>1. \A n \in LoadKeys : Load(t, n) \in Loads
      BY DEF Loads
    <3> QED
      BY <2>1, <2>4, <3>1, KeysThere DEF LoadsStore
  <2> QED
    BY <2>2, <2>3, <2>4
<1>4. PICK command \in {"lock", "get"}, k \in Keys, v \in Values :
        /\ Begins(t, command, k, v)
        /\ demo = "writes" => /\ command = "lock" /\ k = Item(t, left[t])
                              /\ v = <<t, left[t]>>
        /\ demo = "shared" => command = "get" /\ k = SharedKey
        /\ demo = "load" => k \in Loads
  BY <1>3
<1>5. /\ pc' = [pc EXCEPT ![t] = command] /\ key' = [key EXCEPT ![t] = k]
      /\ put' = [put EXCEPT ![t] = v]
  BY <1>4 DEF Begins, Goes
<1>6. pc'[t] = command /\ key'[t] = k /\ put'[t] = v /\ Busy(t)' /\ ~Busy(t)
  BY <1>1, <1>5 DEF TypeInv, Busy, Sending
<1>7. /\ pc' \in [Threads -> Sending \cup {"none", "between", "done"}]
      /\ key' \in [Threads -> Keys \cup {NoKey}] /\ put' \in [Threads -> Values]
  BY <1>5 DEF TypeInv, Sending
<1>8. count' \in CountTypes
  <2>1. UNCHANGED count \/ Adds("total")
    BY DEF WritesItem, UsesCounter, LoadsStore
  <2> QED
    BY <2>1, AddsTyped DEF TypeInv, CountTypes
<1>9. TypeInv'
  BY <1>1, <1>2, <1>7, <1>8 DEF TypeInv, CountTypes, program, store
<1>10. Others(t)
  BY <1>1, <1>2, <1>5 DEF Others, TypeInv
<1>11. UNCHANGED <<demo, phase, value, local>>
  BY <1>1 DEF program, store
<1>12. \A u \in Workers \ {t} : WorkerInv(u)'
  BY <1>10, <1>11, OtherWorkers
<1>13. WorkerInv(t)'
  <2>1. left'[t] + 1 = left[t] /\ left[t] \in Nat
    BY <1>1, <1>2
  <2>2. Undone(t)' = left[t]
    BY <1>6, <2>1 DEF Undone
  <2> QED
    BY <1>1, <1>2, <1>4, <1>6, <1>11, <2>1, <2>2 DEF WorkerInv
<1>14. MainInv'
  BY <1>1, <1>10, <1>11 DEF PlaceInv, MainInv, InUse, Others, Threads, Busy, program
<1>15. ValueInv' /\ LateInv'
  BY <1>1, <1>11, LateStays DEF PlaceInv, ValueInv, store
<1> QED
  BY <1>9, <1>10, <1>12, <1>13, <1>14, <1>15 DEF PlaceInv

LEMMA FinishPlaced ==
  ASSUME TypeInv, PlaceInv, NEW t \in Workers, Finishes(t)
  PROVE  TypeInv' /\ PlaceInv' /\ Others(t) /\ phase = "join"
<1> USE DemoAssumption
<1>1. /\ pc[t] = "between" /\ left[t] = 0 /\ pc' = [pc EXCEPT ![t] = "done"]
      /\ count' = [count EXCEPT !.successful = @ + local[t]]
      /\ local' = [local EXCEPT ![t] = 0]
      /\ UNCHANGED <<program, store, request, ok, left, overlapped, failures>>
      /\ phase = "join" /\ WorkerInv(t) /\ t # Main /\ t \in Threads
  BY DEF Finishes, PlaceInv, WorkerInv, Threads, Goes
<1>2. pc' \in [Threads -> Sending \cup {"none", "between", "done"}]
  BY <1>1 DEF TypeInv
<1>3. local' \in [Workers -> Nat]
  BY <1>1 DEF TypeInv
<1>4. count' \in CountTypes
  BY <1>1 DEF TypeInv, CountTypes
<1>5. TypeInv'
  BY <1>1, <1>2, <1>3, <1>4 DEF TypeInv, CountTypes, program, store, request
<1>6. Others(t)
  BY <1>1 DEF Others, TypeInv, request
<1>7. \A u \in Workers \ {t} : WorkerInv(u)'
  BY <1>1, <1>6, OtherWorkers DEF program
<1>8. WorkerInv(t)'
  BY <1>1 DEF WorkerInv, Undone, Busy, Sending, TypeInv, program
<1>9. MainInv'
  BY <1>1, <1>6 DEF PlaceInv, MainInv, InUse, Others, Threads, Busy, program
<1>10. ValueInv' /\ LateInv'
  BY <1>1, LateStays DEF PlaceInv, ValueInv, store, program
<1> QED
  BY <1>1, <1>5, <1>6, <1>7, <1>8, <1>9, <1>10 DEF PlaceInv

(* Main begins a command. *)
LEMMA MainBegins ==
  ASSUME TypeInv, NEW command \in {"lock", "get"}, NEW k \in Keys, NEW v \in Values,
         Begins(Main, command, k, v), UNCHANGED <<ok, work>>
  PROVE  /\ pc' \in [Threads -> Sending \cup {"none", "between", "done"}]
         /\ key' \in [Threads -> Keys \cup {NoKey}] /\ put' \in [Threads -> Values]
         /\ pc'[Main] = command /\ key'[Main] = k /\ put'[Main] = v
         /\ Others(Main) /\ Busy(Main)'
BY DemoAssumption DEF TypeInv, Begins, Goes, Others, Threads, Sending, Busy, work

LEMMA WorkersStay ==
  ASSUME PlaceInv, Others(Main), UNCHANGED demo, phase # "join", phase' # "join"
  PROVE  \A u \in Workers : WorkerInv(u)'
BY DemoAssumption DEF PlaceInv, WorkerInv, Others, Threads, Busy, Sending

LEMMA MainPlaced ==
  ASSUME TypeInv, PlaceInv, Initialize \/ Check \/ EraseNext
  PROVE  TypeInv' /\ PlaceInv' /\ Others(Main)
<1> USE DemoAssumption
<1>1. UNCHANGED <<demo, monitor, value, locked, late, ok, work, overlapped, failures>>
  BY DEF Initialize, Check, EraseNext, Enters, store
<1>2. <<0>> \in Values /\ Absent \in Values
  BY DEF Values, Counters
<1>3. CASE Initialize
  <2>1. /\ phase = "init" /\ phase' = "spawn" /\ pc[Main] = "between"
        /\ Begins(Main, "lock", SharedKey, <<0>>) /\ UNCHANGED <<chores, checks>>
        /\ demo = "shared" /\ SharedKey \in Keys
    BY <1>3, KeysThere DEF Initialize, MainAt, Enters, PlaceInv, MainInv
  <2>2. /\ pc' \in [Threads -> Sending \cup {"none", "between", "done"}]
        /\ key' \in [Threads -> Keys \cup {NoKey}] /\ put' \in [Threads -> Values]
        /\ pc'[Main] = "lock" /\ key'[Main] = SharedKey /\ put'[Main] = <<0>>
        /\ Others(Main) /\ Busy(Main)'
    BY <1>1, <1>2, <2>1, MainBegins
  <2>3. TypeInv'
    BY <1>1, <2>1, <2>2 DEF TypeInv, work
  <2>4. \A u \in Workers : WorkerInv(u)'
    BY <1>1, <2>1, <2>2, WorkersStay
  <2>5. MainInv' /\ ValueInv' /\ LateInv'
    BY <1>1, <2>1, <2>2, LateStays DEF PlaceInv, MainInv, ValueInv, work
  <2> QED
    BY <2>2, <2>3, <2>4, <2>5 DEF PlaceInv
<1>4. CASE Check
  <2>1. /\ phase = "check" /\ phase' = "check" /\ pc[Main] = "between"
        /\ checks > 0 /\ checks' = checks - 1 /\ UNCHANGED chores
        /\ demo \in {"writes", "shared"}
    BY <1>4 DEF Check, MainAt, PlaceInv, MainInv, TypeInv
  <2>2. PICK k \in IF demo = "writes" THEN Items ELSE {SharedKey} :
          Begins(Main, "get", k, Absent)
    BY <1>4 DEF Check
  <2>3. k \in Keys /\ (demo = "writes" => k \in Items)
        /\ (demo = "shared" => k = SharedKey)
    BY <2>1, <2>2, KeysThere
  <2>4. /\ pc' \in [Threads -> Sending \cup {"none", "between", "done"}]
        /\ key' \in [Threads -> Keys \cup {NoKey}] /\ put' \in [Threads -> Values]
        /\ pc'[Main] = "get" /\ key'[Main] = k /\ Others(Main) /\ Busy(Main)'
    BY <1>1, <1>2, <2>2, <2>3, MainBegins
  <2>5. TypeInv'
    BY <1>1, <2>1, <2>4 DEF TypeInv, work
  <2>6. \A u \in Workers : WorkerInv(u)'
    BY <1>1, <2>1, <2>4, WorkersStay
  <2>7. MainInv' /\ ValueInv' /\ LateInv'
    BY <1>1, <2>1, <2>3, <2>4, LateStays DEF PlaceInv, MainInv, ValueInv, work
  <2> QED
    BY <2>4, <2>5, <2>6, <2>7 DEF PlaceInv
<1>5. CASE EraseNext
  <2>1. /\ phase = "clean" /\ phase' = "clean" /\ pc[Main] = "between"
        /\ UNCHANGED checks
    BY <1>5 DEF EraseNext, MainAt
  <2>2. PICK k \in chores : chores' = chores \ {k} /\ Begins(Main, "lock", k, Absent)
    BY <1>5 DEF EraseNext
  <2>3. k \in Keys /\ chores' \subseteq Keys /\ InUse(k)
    BY <2>1, <2>2 DEF TypeInv, PlaceInv, MainInv
  <2>4. /\ pc' \in [Threads -> Sending \cup {"none", "between", "done"}]
        /\ key' \in [Threads -> Keys \cup {NoKey}] /\ put' \in [Threads -> Values]
        /\ pc'[Main] = "lock" /\ key'[Main] = k /\ put'[Main] = Absent
        /\ Others(Main) /\ Busy(Main)'
    BY <1>1, <1>2, <2>2, <2>3, MainBegins
  <2>5. TypeInv'
    BY <1>1, <2>1, <2>3, <2>4 DEF TypeInv, work
  <2>6. \A u \in Workers : WorkerInv(u)'
    BY <1>1, <2>1, <2>4, WorkersStay
  <2>7. MainInv'
    BY <1>1, <2>1, <2>2, <2>3, <2>4 DEF PlaceInv, MainInv, InUse, work
  <2>8. ValueInv' /\ LateInv'
    BY <1>1, <2>1, LateStays DEF PlaceInv, ValueInv
  <2> QED
    BY <2>4, <2>5, <2>6, <2>7, <2>8 DEF PlaceInv
<1> QED
  BY <1>3, <1>4, <1>5

LEMMA SpawnPlaced ==
  ASSUME TypeInv, PlaceInv, Spawn
  PROVE  /\ TypeInv' /\ PlaceInv' /\ phase = "spawn" /\ phase' = "join"
         /\ demo \in {"writes", "shared", "load"} /\ Rounds[demo] \in Nat
         /\ \A t \in Workers : /\ pc'[t] = "between" /\ left'[t] = Rounds[demo]
                               /\ Undone(t)' = Rounds[demo]
<1> USE DemoAssumption
<1>1. /\ phase = "spawn" /\ phase' = "join" /\ pc[Main] = "between"
      /\ pc' = [t \in Threads |-> "between"] /\ left' = [t \in Workers |-> Rounds[demo]]
      /\ monitor' = (demo = "load")
      /\ UNCHANGED <<demo, overlapped, failures, store, chores, checks, request, ok, count, local>>
  BY DEF Spawn, MainAt, Enters
<1>2. demo \in {"writes", "shared", "load"} /\ Rounds[demo] \in Nat
  BY <1>1 DEF TypeInv, PlaceInv, MainInv
<1>3. \A t \in Workers : pc'[t] = "between" /\ left'[t] = Rounds[demo] /\ ~Busy(t)'
  BY <1>1 DEF Threads, Busy, Sending
<1>4. \A t \in Workers : Undone(t)' = Rounds[demo]
  BY <1>2, <1>3 DEF Undone
<1>5. /\ pc' \in [Threads -> Sending \cup {"none", "between", "done"}]
      /\ left' \in [Workers -> Nat]
  BY <1>1, <1>2
<1>6. TypeInv'
  BY <1>1, <1>5 DEF TypeInv, store, request
<1>7. \A t \in Workers : WorkerInv(t)'
  BY <1>1, <1>2, <1>3, <1>4 DEF PlaceInv, WorkerInv
<1>8. MainInv'
  BY <1>1 DEF PlaceInv, MainInv, Threads, Busy, Sending
<1>9. ValueInv' /\ LateInv'
  BY <1>1, <1>2, LateStays DEF PlaceInv, ValueInv, store
<1> QED
  BY <1>1, <1>2, <1>3, <1>4, <1>6, <1>7, <1>8, <1>9 DEF PlaceInv

LEMMA PhasePlaced ==
  ASSUME TypeInv, PlaceInv, Join \/ Clean \/ NextDemo
  PROVE  TypeInv' /\ PlaceInv'
<1> USE DemoAssumption
<1>1. CASE Join
  <2>1. /\ phase = "join" /\ phase' = "check" /\ pc[Main] = "between"
        /\ \A t \in Workers : pc[t] = "done"
        /\ checks' = CASE demo = "writes" -> Checks
                       [] demo = "shared" -> 1
                       [] demo = "load"   -> 0
        /\ ok' = [ok EXCEPT ![Main] = TRUE]
        /\ UNCHANGED <<demo, overlapped, failures, store, chores, monitor, pc, request, work>>
    BY <1>1 DEF Join, MainAt, Joined, Enters
  <2>2. demo \in {"writes", "shared", "load"} /\ checks' \in Nat
        /\ (demo = "load" => checks' = 0)
    BY <2>1 DEF TypeInv, PlaceInv, MainInv
  <2>3. ok' \in [Threads -> BOOLEAN]
    BY <2>1 DEF TypeInv
  <2>4. TypeInv'
    BY <2>1, <2>2, <2>3 DEF TypeInv, store, request, work
  <2>5. \A t \in Workers : WorkerInv(t)'
    BY <2>1 DEF PlaceInv, WorkerInv, Busy, Sending, work, request
  <2>6. MainInv' /\ ValueInv' /\ LateInv'
    BY <2>1, <2>2, LateStays
    DEF PlaceInv, MainInv, ValueInv, Busy, Sending, work, request, store
  <2> QED
    BY <2>4, <2>5, <2>6 DEF PlaceInv
<1>2. CASE Clean
  <2>1. /\ phase = "check" /\ phase' = "clean" /\ pc[Main] = "between"
        /\ chores' = CASE demo = "writes" -> Items
                       [] demo = "shared" -> {SharedKey}
                       [] demo = "load"   -> Loads
        /\ UNCHANGED <<demo, overlapped, failures, store, checks, monitor, pc, request, ok, work>>
    BY <1>2 DEF Clean, MainAt, Enters
  <2>2. demo \in {"writes", "shared", "load"} /\ chores' \subseteq Keys
    BY <2>1, KeysThere DEF TypeInv, PlaceInv, MainInv
  <2>3. TypeInv'
    BY <2>1, <2>2 DEF TypeInv, store, request, work
  <2>4. \A t \in Workers : WorkerInv(t)'
    BY <2>1 DEF PlaceInv, WorkerInv, Busy, Sending, work, request
  <2>5. \A k \in chores' : InUse(k)
    BY <2>1, <2>2 DEF InUse
  <2>6. MainInv' /\ ValueInv' /\ LateInv'
    BY <2>1, <2>5, LateStays
    DEF PlaceInv, MainInv, InUse, ValueInv, Busy, Sending, work, request, store
  <2> QED
    BY <2>3, <2>4, <2>6 DEF PlaceInv
<1>3. CASE NextDemo
  <2>1. /\ phase = "clean" /\ pc[Main] = "between"
        /\ \/ demo = "writes" /\ demo' = "shared" /\ phase' = "init"
           \/ demo = "shared" /\ demo' = "load"   /\ phase' = "spawn"
           \/ demo = "load"   /\ demo' = "over"   /\ phase' = "over"
        /\ count' = Zero /\ overlapped' = FALSE
        /\ UNCHANGED <<chores, checks, monitor, store, pc, request, ok, left, local, failures>>
    BY <1>3 DEF NextDemo, MainAt
  <2>2. count' \in CountTypes
    BY <2>1 DEF Zero, CountTypes
  <2>3. TypeInv'
    BY <2>1, <2>2 DEF TypeInv, store, request, CountTypes
  <2>4. \A t \in Workers : pc[t] \in {"none", "done"} /\ local[t] = 0
    BY <2>1 DEF PlaceInv, WorkerInv
  <2>5. \A t \in Workers : WorkerInv(t)'
    BY <2>1, <2>4 DEF PlaceInv, WorkerInv, Busy, Sending, request
  <2>6. MainInv' /\ ValueInv' /\ LateInv'
    BY <2>1, LateStays DEF PlaceInv, MainInv, ValueInv, Busy, Sending, request, store
  <2> QED
    BY <2>3, <2>5, <2>6 DEF PlaceInv
<1> QED
  BY <1>1, <1>2, <1>3

(* Nothing but the monitor's own end. *)
LEMMA MonitorPlaced ==
  ASSUME TypeInv, PlaceInv, Monitor
  PROVE  TypeInv' /\ PlaceInv'
<1>1. /\ monitor' = FALSE
      /\ UNCHANGED <<demo, phase, chores, checks, store, pc, request, ok, work>>
      /\ UNCHANGED <<overlapped, failures>>
  BY DEF Monitor
<1>2. TypeInv'
  BY <1>1 DEF TypeInv, store, request, work
<1>3. \A t \in Workers : WorkerInv(t)'
  BY <1>1 DEF PlaceInv, WorkerInv, Undone, Busy, request, work
<1>4. MainInv' /\ ValueInv' /\ LateInv'
  BY <1>1, LateStays DEF PlaceInv, MainInv, InUse, ValueInv, Busy, request, store, work
<1> QED
  BY <1>2, <1>3, <1>4 DEF PlaceInv

LEMMA PlaceStep ==
  ASSUME TypeInv, PlaceInv, [Next]_vars
  PROVE  TypeInv' /\ PlaceInv'
<1>1. CASE UNCHANGED vars
  <2>1. TypeInv'
    BY <1>1 DEF TypeInv, vars, program, store, request, work
  <2>2. \A t \in Workers : WorkerInv(t)'
    BY <1>1 DEF PlaceInv, WorkerInv, Undone, Busy, vars, program, request, work
  <2>3. MainInv' /\ ValueInv' /\ LateInv'
    BY <1>1, LateStays
    DEF PlaceInv, MainInv, InUse, ValueInv, Busy, vars, program, store, request, work
  <2> QED
    BY <2>1, <2>2, <2>3 DEF PlaceInv
<1>2. ASSUME NEW t \in Workers, WorkerStep(t) PROVE TypeInv' /\ PlaceInv'
  <2>1. t \in Threads
    BY DEF Threads
  <2> QED
    BY <1>2, <2>1, CommandTyped, CommandPlaced, RoundPlaced, FinishPlaced DEF WorkerStep
<1>3. CASE MainStep
  <2>1. Main \in Threads
    BY DEF Threads
  <2> QED
    BY <1>3, <2>1, CommandTyped, CommandPlaced, MainPlaced, SpawnPlaced, PhasePlaced
    DEF MainStep
<1>4. ASSUME NEW m \in late, Lands(m) PROVE TypeInv' /\ PlaceInv'
  BY <1>4, LandsPlaced
<1> QED
  BY <1>1, <1>2, <1>3, <1>4, MonitorPlaced DEF Next, Over

LEMMA InitPlaced == Init => TypeInv /\ PlaceInv
<1> SUFFICES ASSUME Init PROVE TypeInv /\ PlaceInv
  OBVIOUS
<1> USE DemoAssumption DEF Init
<1>1. Absent \in Values /\ Zero \in CountTypes
  BY DEF Values, Zero, CountTypes
<1>2. TypeInv
  BY <1>1 DEF TypeInv, CountTypes, Sending
<1>3. \A t \in Workers : WorkerInv(t)
  BY DEF WorkerInv, Busy, Sending, Threads
<1>4. MainInv
  BY DEF MainInv, Busy, Sending, Threads
<1>5. ValueInv /\ LateInv
  BY KeysThere, FS_EmptySet DEF ValueInv, LateInv
<1> QED
  BY <1>2, <1>3, <1>4, <1>5 DEF PlaceInv

(* The demonstrations' state keeps its types in every run. *)
THEOREM DemoTypeCorrect == Spec => []TypeInv
<1>1. TypeInv /\ PlaceInv /\ [Next]_vars => TypeInv' /\ PlaceInv'
  BY PlaceStep
<1> QED
  BY <1>1, InitPlaced, PTL DEF Spec

-----------------------------------------------------------------------------
(* Operations begun and ended. *)

LEMMA OpsFinite ==
  ASSUME TypeInv, demo # "over"
  PROVE  /\ IsFiniteSet(AllOps) /\ IsFiniteSet(Ended) /\ IsFiniteSet(Started)
         /\ Cardinality(AllOps) = Cardinality(Workers) * Rounds[demo]
         /\ Cardinality(Ended) \in Nat /\ Cardinality(Started) \in Nat
<1>1. Rounds[demo] \in Nat /\ IsFiniteSet(Workers)
  BY DemoAssumption DEF TypeInv
<1>2. IsFiniteSet(1 .. Rounds[demo]) /\ Cardinality(1 .. Rounds[demo]) = Rounds[demo]
  BY <1>1, FS_Interval
<1>3. /\ IsFiniteSet(AllOps)
      /\ Cardinality(AllOps) = Cardinality(Workers) * Rounds[demo]
  BY <1>1, <1>2, FS_Product DEF AllOps
<1>4. Ended \subseteq AllOps /\ Started \subseteq AllOps
  BY DEF Ended, Started
<1>5. IsFiniteSet(Ended) /\ IsFiniteSet(Started)
  BY <1>3, <1>4, FS_Subset
<1> QED
  BY <1>3, <1>5, FS_CardinalityType

(* A command goes on, or it ends its operation and is counted. *)
LEMMA CommandEffect ==
  ASSUME TypeInv, PlaceInv, NEW t \in Workers, Commands(t)
  PROVE  \/ Busy(t)' /\ UNCHANGED <<count, local>>
         \/ \E success \in BOOLEAN :
              /\ ~Busy(t)'
              /\ local'[t] = local[t] + (IF demo = "load" /\ success THEN 1 ELSE 0)
              /\ demo = "load" => UNCHANGED count
              /\ demo # "load" =>
                   \/ pc[t] # "get" /\ Adds(IF success THEN "writes" ELSE "writeErrors")
                   \/ pc[t] = "get" /\ Adds(IF success THEN "reads" ELSE "readErrors")
<1> USE DemoAssumption
<1>1. t \in Threads /\ t # Main
  BY DEF Threads
<1>2. ASSUME NEW success \in BOOLEAN, Ends(t, success),
             \/ pc[t] # "get" /\ Counts(t, success)
             \/ pc[t] = "get" /\ CountsRead(t, success)
      PROVE  /\ ~Busy(t)'
             /\ local'[t] = local[t] + (IF demo = "load" /\ success THEN 1 ELSE 0)
             /\ demo = "load" => UNCHANGED count
             /\ demo # "load" =>
                  \/ pc[t] # "get" /\ Adds(IF success THEN "writes" ELSE "writeErrors")
                  \/ pc[t] = "get" /\ Adds(IF success THEN "reads" ELSE "readErrors")
  <2>1. ~Busy(t)' /\ local'[t] = local[t] + (IF demo = "load" /\ success THEN 1 ELSE 0)
    BY <1>1, <1>2, EndsTyped DEF Busy, Sending
  <2> QED
    BY <1>1, <1>2, <2>1 DEF Counts, CountsRead
<1>3. CASE TryLock(t)
  <2>1. CASE Ends(t, FALSE) /\ Counts(t, FALSE)
    <3>1. \E success \in BOOLEAN : Ends(t, success) /\ Counts(t, success)
      BY <2>1
    <3> QED
      BY <1>2, <1>3, <3>1 DEF TryLock
  <2>2. CASE Goes(t, "apply") /\ UNCHANGED work
    BY <1>1, <2>2 DEF Goes, work, Busy, Sending, TypeInv
  <2> QED
    BY <1>3, <2>1, <2>2 DEF TryLock
<1>4. CASE Apply(t)
  BY <1>1, <1>4 DEF Apply, Goes, work, Busy, Sending, TypeInv
<1>5. CASE Unlock(t)
  <2>1. ok[t] \in BOOLEAN /\ Ends(t, ok[t]) /\ Counts(t, ok[t]) /\ pc[t] # "get"
    BY <1>1, <1>5 DEF Unlock, TypeInv
  <2> QED
    BY <1>2, <2>1
<1>6. CASE Get(t)
  <2>1. CASE Goes(t, "lock") /\ UNCHANGED work
    BY <1>1, <2>1 DEF Goes, work, Busy, Sending, TypeInv
  <2>2. CASE \E success \in BOOLEAN : Ends(t, success) /\ CountsRead(t, success)
    BY <1>2, <1>6, <2>2 DEF Get
  <2> QED
    BY <1>6, <2>1, <2>2 DEF Get
<1> QED
  BY <1>3, <1>4, <1>5, <1>6 DEF Commands

LEMMA EndedKept ==
  ASSUME UNCHANGED demo, \A u \in Workers : Undone(u)' = Undone(u)
  PROVE  Ended' = Ended
BY DEF Ended, AllOps

LEMMA StartedKept ==
  ASSUME UNCHANGED demo, \A u \in Workers : left'[u] = left[u]
  PROVE  Started' = Started
BY DEF Started, AllOps

(* One operation more has ended. *)
LEMMA EndedMore ==
  ASSUME TypeInv, PlaceInv, NEW t \in Workers, Busy(t), ~Busy(t)',
         Others(t), UNCHANGED <<demo, phase, left>>
  PROVE  /\ IsFiniteSet(Ended) /\ Cardinality(Ended') = Cardinality(Ended) + 1
         /\ Cardinality(Ended) \in Nat
<1> DEFINE o == <<t, left[t] + 1>>
<1>1. /\ left[t] \in Nat /\ Rounds[demo] \in Nat /\ demo # "over"
      /\ left[t] + 1 <= Rounds[demo]
  BY DemoAssumption, BusyKey DEF TypeInv, PlaceInv, WorkerInv, Undone, Threads
<1>2. Undone(t) = left[t] + 1 /\ Undone(t)' = left[t]
  BY <1>1 DEF Undone
<1>3. \A u \in Workers \ {t} : Undone(u)' = Undone(u)
  BY OtherWorkers
<1>4. o \in AllOps /\ o \notin Ended
  BY <1>1, <1>2 DEF AllOps, Ended
<1>5. Ended' = Ended \cup {o}
  <2>1. ASSUME NEW p \in AllOps
        PROVE  p[2] > Undone(p[1])' <=> p[2] > Undone(p[1]) \/ p = o
    <3>1. p[1] \in Workers /\ p[2] \in 1 .. Rounds[demo] /\ p = <<p[1], p[2]>>
      BY DEF AllOps
    <3>2. CASE p[1] = t
      <4>1. p[2] > left[t] <=> p[2] > left[t] + 1 \/ p[2] = left[t] + 1
        BY <1>1, <3>1
      <4>2. p = o <=> p[2] = left[t] + 1
        BY <3>1, <3>2
      <4> QED
        BY <1>2, <3>2, <4>1, <4>2
    <3>3. CASE p[1] # t
      BY <1>3, <3>1, <3>3
    <3> QED
      BY <3>2, <3>3
  <2>2. AllOps' = AllOps
    BY DEF AllOps
  <2> QED
    BY <1>4, <2>1, <2>2 DEF Ended
<1>6. IsFiniteSet(Ended) /\ Cardinality(Ended) \in Nat
  BY <1>1, OpsFinite
<1> QED
  BY <1>4, <1>5, <1>6, FS_AddElement

(* One operation more has begun. *)
LEMMA StartedMore ==
  ASSUME TypeInv, PlaceInv, NEW t \in Workers,
         WritesItem(t) \/ UsesCounter(t) \/ LoadsStore(t)
  PROVE  /\ Cardinality(Started') = Cardinality(Started) + 1
         /\ Ended' = Ended /\ UNCHANGED <<demo, phase, local>>
<1> DEFINE o == <<t, left[t]>>
<1>1. /\ pc[t] = "between" /\ left[t] > 0 /\ left' = [left EXCEPT ![t] = @ - 1]
      /\ UNCHANGED <<demo, phase, local>> /\ left[t] \in Nat
      /\ phase = "join" /\ demo # "over" /\ Others(t)
  BY RoundPlaced DEF WritesItem, UsesCounter, LoadsStore, Round, PlaceInv, WorkerInv,
     MainInv, TypeInv, program
<1>2. /\ left'[t] = left[t] - 1 /\ ~Busy(t) /\ Busy(t)' /\ left[t] <= Rounds[demo]
      /\ Rounds[demo] \in Nat
  <2>1. \E command \in {"lock", "get"} : pc' = [pc EXCEPT ![t] = command]
    BY DEF WritesItem, UsesCounter, LoadsStore, Begins, Goes
  <2>2. Busy(t)'
    BY <2>1 DEF TypeInv, Threads, Busy, Sending
  <2> QED
    BY <1>1, <2>2, DemoAssumption DEF Busy, Sending, TypeInv, PlaceInv, WorkerInv, Undone
<1>3. Undone(t) = left[t] /\ Undone(t)' = left[t]
  BY <1>1, <1>2 DEF Undone
<1>4. \A u \in Workers \ {t} : Undone(u)' = Undone(u) /\ left'[u] = left[u]
  BY <1>1, OtherWorkers DEF Others
<1>5. Ended' = Ended
  BY <1>1, <1>3, <1>4, EndedKept
<1>6. o \in AllOps /\ o \notin Started
  BY <1>1, <1>2 DEF AllOps, Started
<1>7. Started' = Started \cup {o}
  <2>1. ASSUME NEW p \in AllOps
        PROVE  p[2] > left'[p[1]] <=> p[2] > left[p[1]] \/ p = o
    <3>1. p[1] \in Workers /\ p[2] \in 1 .. Rounds[demo] /\ p = <<p[1], p[2]>>
      BY DEF AllOps
    <3>2. CASE p[1] = t
      <4>1. p[2] > left[t] - 1 <=> p[2] > left[t] \/ p[2] = left[t]
        BY <1>1, <3>1
      <4>2. p = o <=> p[2] = left[t]
        BY <3>1, <3>2
      <4> QED
        BY <1>2, <3>2, <4>1, <4>2
    <3>3. CASE p[1] # t
      BY <1>4, <3>1, <3>3
    <3> QED
      BY <3>2, <3>3
  <2>2. AllOps' = AllOps
    BY <1>1 DEF AllOps
  <2> QED
    BY <1>6, <2>1, <2>2 DEF Started
<1>8. IsFiniteSet(Started) /\ Cardinality(Started) \in Nat
  BY <1>1, OpsFinite
<1> QED
  BY <1>1, <1>5, <1>6, <1>7, <1>8, FS_AddElement

(* What the threads have counted alone. *)
LEMMA AloneKept ==
  ASSUME \A u \in Workers : local'[u] = local[u]
  PROVE  Alone' = Alone
BY DEF Alone

LEMMA AloneNone ==
  ASSUME \A u \in Workers : local[u] = 0
  PROVE  Alone = {}
BY DEF Alone

LEMMA AloneMore ==
  ASSUME TypeInv, NEW t \in Workers, IsFiniteSet(Alone),
         local'[t] = local[t] + 1, \A u \in Workers \ {t} : local'[u] = local[u]
  PROVE  IsFiniteSet(Alone') /\ Cardinality(Alone') = Cardinality(Alone) + 1
<1> DEFINE o == <<t, local[t] + 1>>
<1>1. local[t] \in Nat
  BY DEF TypeInv
<1>2. o \in Workers \X (Nat \ {0}) /\ o \notin Alone
  BY <1>1 DEF Alone
<1>3. ASSUME NEW p \in Workers \X (Nat \ {0})
      PROVE  p[2] <= local'[p[1]] <=> p[2] <= local[p[1]] \/ p = o
  <2>1. p[1] \in Workers /\ p[2] \in Nat /\ p = <<p[1], p[2]>>
    OBVIOUS
  <2>2. CASE p[1] = t
    <3>1. p[2] <= local[t] + 1 <=> p[2] <= local[t] \/ p[2] = local[t] + 1
      BY <1>1, <2>1
    <3>2. p = o <=> p[2] = local[t] + 1
      BY <2>1, <2>2
    <3> QED
      BY <2>2, <3>1, <3>2
  <2>3. CASE p[1] # t
    BY <2>1, <2>3
  <2> QED
    BY <2>2, <2>3
<1>4. Alone' = Alone \cup {o}
  BY <1>2, <1>3 DEF Alone
<1> QED
  BY <1>2, <1>4, FS_AddElement

LEMMA AloneLess ==
  ASSUME TypeInv, NEW t \in Workers, IsFiniteSet(Alone),
         local' = [local EXCEPT ![t] = 0]
  PROVE  /\ IsFiniteSet(Alone') /\ Cardinality(Alone') \in Nat
         /\ Cardinality(Alone') + local[t] = Cardinality(Alone)
<1> DEFINE M == {t} \X (1 .. local[t])
<1>1. /\ local[t] \in Nat /\ local'[t] = 0
      /\ \A u \in Workers \ {t} : local'[u] = local[u]
  BY DEF TypeInv
<1>2. IsFiniteSet(1 .. local[t]) /\ Cardinality(1 .. local[t]) = local[t]
  <2> DEFINE n == local[t]
  <2>1. n \in Nat /\ n \in Int /\ 1 \in Int
    BY <1>1
  <2> HIDE DEF n
  <2>2. IsFiniteSet(1 .. n) /\ Cardinality(1 .. n) = IF 1 > n THEN 0 ELSE n - 1 + 1
    BY <2>1, FS_Interval
  <2>3. Cardinality(1 .. n) = n
    BY <2>1, <2>2
  <2> QED
    BY <2>2, <2>3 DEF n
<1>3. IsFiniteSet({t}) /\ Cardinality({t}) = 1
  BY FS_Singleton
<1>4. IsFiniteSet(M) /\ Cardinality(M) = 1 * local[t]
  <2> DEFINE one == {t}
             span == 1 .. local[t]
  <2>1. /\ IsFiniteSet(one) /\ Cardinality(one) = 1
        /\ IsFiniteSet(span) /\ Cardinality(span) = local[t]
    BY <1>2, <1>3
  <2> HIDE DEF one, span
  <2>2. IsFiniteSet(one \X span) /\ Cardinality(one \X span) = 1 * local[t]
    BY <2>1, FS_Product
  <2> QED
    BY <2>2 DEF one, span
<1>5. Alone' = Alone \ M
  <2>1. ASSUME NEW p \in Workers \X (Nat \ {0})
        PROVE  p[2] <= local'[p[1]] <=> p[2] <= local[p[1]] /\ p \notin M
    <3>1. p[1] \in Workers /\ p[2] \in Nat /\ p[2] # 0 /\ p = <<p[1], p[2]>>
      OBVIOUS
    <3>2. CASE p[1] = t
      <4>1. p \in M <=> p[2] <= local[t]
        BY <1>1, <3>1, <3>2
      <4> QED
        BY <1>1, <3>1, <3>2, <4>1
    <3>3. CASE p[1] # t
      BY <1>1, <3>1, <3>3
    <3> QED
      BY <3>2, <3>3
  <2> QED
    BY <2>1 DEF Alone
<1>6. M \subseteq Alone
  <2> SUFFICES ASSUME NEW p \in M PROVE p \in Alone
    OBVIOUS
  <2>1. p = <<t, p[2]>> /\ p[1] = t /\ p[2] \in 1 .. local[t]
    OBVIOUS
  <2>2. p \in Workers \X (Nat \ {0}) /\ p[2] <= local[p[1]]
    BY <1>1, <2>1
  <2> QED
    BY <2>2 DEF Alone
<1>7. Alone \cap M = M
  BY <1>6
<1>8. IsFiniteSet(Alone') /\ Cardinality(Alone') = Cardinality(Alone) - Cardinality(M)
  <2> HIDE DEF M
  <2>1. /\ IsFiniteSet(Alone \ M)
        /\ Cardinality(Alone \ M) = Cardinality(Alone) - Cardinality(Alone \cap M)
    BY FS_Difference
  <2> QED
    BY <1>5, <1>7, <2>1
<1>9. Cardinality(Alone) \in Nat /\ Cardinality(Alone') \in Nat
  BY <1>8, FS_CardinalityType
<1> QED
  BY <1>1, <1>4, <1>8, <1>9

-----------------------------------------------------------------------------
(* Every operation that ended is counted. *)

Sum == count.reads + count.readErrors + count.writes + count.writeErrors

LEMMA SumMore ==
  ASSUME TypeInv, NEW field \in {"reads", "readErrors", "writes", "writeErrors"},
         Adds(field)
  PROVE  Sum' = Sum + 1
<1>1. count \in CountTypes
  BY DEF TypeInv, CountTypes
<1>2. count'[field] = count[field] + 1
      /\ \A f \in {"reads", "readErrors", "writes", "writeErrors"} :
           f # field => count'[f] = count[f]
  BY <1>1, AddsTyped
<1>3. \A f \in {"reads", "readErrors", "writes", "writeErrors"} : count[f] \in Nat
  BY <1>1 DEF CountTypes
<1> QED
  BY <1>2, <1>3 DEF Sum

(* A step that leaves operations, counts and demonstration alone. *)
LEMMA CountKept ==
  ASSUME CountInv, UNCHANGED <<demo, count>>,
         phase' \in {"join", "check", "clean"} => phase \in {"join", "check", "clean"},
         \A u \in Workers : Undone(u)' = Undone(u) /\ left'[u] = left[u]
                            /\ local'[u] = local[u]
  PROVE  CountInv'
<1>1. Ended' = Ended /\ Started' = Started /\ Alone' = Alone
  BY EndedKept, StartedKept, AloneKept
<1> QED
  BY <1>1 DEF CountInv

LEMMA CountCommand ==
  ASSUME TypeInv, PlaceInv, CountInv, NEW t \in Workers, Commands(t)
  PROVE  CountInv'
<1> USE DemoAssumption
<1>1. /\ TypeInv' /\ Others(t) /\ Busy(t) /\ UNCHANGED <<demo, phase, left>>
      /\ phase = "join" /\ demo \in {"writes", "shared", "load"}
      /\ \A u \in Workers : left'[u] = left[u]
      /\ \A u \in Workers \ {t} : Undone(u)' = Undone(u) /\ local'[u] = local[u]
  BY CommandTyped, BusyKey, OtherWorkers DEF Threads, program, TypeInv, Others
<1>2. CASE Busy(t)' /\ UNCHANGED <<count, local>>
  <2>1. Undone(t)' = Undone(t)
    BY <1>1, <1>2 DEF Undone
  <2> QED
    BY <1>1, <1>2, <2>1, CountKept
<1>3. ASSUME NEW success \in BOOLEAN, ~Busy(t)',
             local'[t] = local[t] + (IF demo = "load" /\ success THEN 1 ELSE 0),
             demo = "load" => UNCHANGED count,
             demo # "load" =>
               \/ pc[t] # "get" /\ Adds(IF success THEN "writes" ELSE "writeErrors")
               \/ pc[t] = "get" /\ Adds(IF success THEN "reads" ELSE "readErrors")
      PROVE  CountInv'
  <2>1. /\ Cardinality(Ended') = Cardinality(Ended) + 1 /\ Cardinality(Ended) \in Nat
    BY <1>1, <1>3, EndedMore
  <2>2. local[t] \in Nat
    BY DEF TypeInv
  <2>3. CASE demo = "load"
    <3>1. UNCHANGED count /\ Started' = Started
      BY <1>1, <1>3, <2>3, StartedKept
    <3>2. CASE success
      <4>1. IsFiniteSet(Alone') /\ Cardinality(Alone') = Cardinality(Alone) + 1
        BY <1>1, <1>3, <2>3, <3>2, AloneMore DEF CountInv
      <4>2. Cardinality(Alone) \in Nat /\ count.successful \in Nat
        BY FS_CardinalityType DEF CountInv, TypeInv
      <4> QED
        BY <1>1, <2>1, <2>3, <3>1, <4>1, <4>2 DEF CountInv
    <3>3. CASE ~success
      <4>1. Alone' = Alone
        BY <1>1, <1>3, <2>2, <3>3, AloneKept
      <4>2. Cardinality(Alone) \in Nat /\ count.successful \in Nat
        BY FS_CardinalityType DEF CountInv, TypeInv
      <4> QED
        BY <1>1, <2>1, <2>3, <3>1, <4>1, <4>2 DEF CountInv
    <3> QED
      BY <3>2, <3>3
  <2>4. CASE demo # "load"
    <3>1. Alone' = Alone
      BY <1>1, <1>3, <2>2, <2>4, AloneKept
    <3>2. PICK field \in {"reads", "readErrors", "writes", "writeErrors"} :
            Adds(field) /\ (pc[t] # "get" => field \in {"writes", "writeErrors"})
      BY <1>3, <2>4
    <3>3. Sum' = Sum + 1
      BY <3>2, SumMore
    <3>4. demo = "writes" => count'.reads = 0 /\ count'.readErrors = 0
      <4>1. demo = "writes" => field \in {"writes", "writeErrors"}
        BY <1>1, <3>2 DEF PlaceInv, WorkerInv
      <4>2. field \in {"writes", "writeErrors"} =>
              count'["reads"] = count["reads"] /\ count'["readErrors"] = count["readErrors"]
        BY <3>2, AddsTyped DEF TypeInv, CountTypes
      <4> QED
        BY <4>1, <4>2 DEF CountInv
    <3>5. Sum = Cardinality(Ended)
      BY <1>1, <2>4 DEF CountInv, Sum
    <3>6. Sum' = Cardinality(Ended')
      BY <2>1, <3>3, <3>5
    <3> QED
      BY <1>1, <2>4, <3>1, <3>4, <3>6 DEF CountInv, Sum
  <2> QED
    BY <2>3, <2>4
<1> QED
  BY <1>2, <1>3, CommandEffect

LEMMA CountStep ==
  ASSUME TypeInv, PlaceInv, CountInv, [Next]_vars
  PROVE  CountInv'
<1> USE DemoAssumption
<1>1. CASE UNCHANGED vars \/ Monitor \/ (\E m \in late : Lands(m))
  <2>1. UNCHANGED <<demo, count, phase, pc, left, local>>
    BY <1>1 DEF vars, program, work, Monitor, Lands
  <2>2. \A u \in Workers : Undone(u)' = Undone(u)
    BY <2>1 DEF Undone, Busy
  <2> QED
    BY <2>1, <2>2, CountKept
<1>2. ASSUME NEW t \in Workers, WritesItem(t) \/ UsesCounter(t) \/ LoadsStore(t)
      PROVE  CountInv'
  <2>1. /\ Cardinality(Started') = Cardinality(Started) + 1
        /\ Ended' = Ended /\ UNCHANGED <<demo, phase, local>> /\ Alone' = Alone
    BY <1>2, StartedMore, AloneKept
  <2>2. CASE demo # "load"
    <3>1. UNCHANGED count
      BY <1>2, <2>2 DEF WritesItem, UsesCounter, LoadsStore
    <3> QED
      BY <2>1, <2>2, <3>1 DEF CountInv
  <2>3. CASE demo = "load"
    <3>1. Adds("total")
      BY <1>2, <2>3 DEF WritesItem, UsesCounter, LoadsStore
    <3>2. count'["total"] = count["total"] + 1 /\ count'["successful"] = count["successful"]
      BY <3>1, AddsTyped DEF TypeInv, CountTypes
    <3> QED
      BY <2>1, <2>3, <3>2 DEF CountInv
  <2> QED
    BY <2>2, <2>3
<1>3. ASSUME NEW t \in Workers, Finishes(t)
      PROVE  CountInv'
  <2>1. /\ Others(t) /\ phase = "join" /\ UNCHANGED <<demo, phase, left>>
        /\ pc[t] = "between" /\ pc'[t] = "done"
        /\ count' = [count EXCEPT !.successful = @ + local[t]]
        /\ local' = [local EXCEPT ![t] = 0]
    BY <1>3, FinishPlaced DEF Finishes, Goes, TypeInv, Threads, program
  <2>2. \A u \in Workers : Undone(u)' = Undone(u) /\ left'[u] = left[u]
    <3>1. Undone(t)' = Undone(t)
      BY <2>1 DEF Undone, Busy, Sending
    <3> QED
      BY <2>1, <3>1, OtherWorkers
  <2>3. Ended' = Ended /\ Started' = Started
    BY <2>1, <2>2, EndedKept, StartedKept
  <2>4. /\ IsFiniteSet(Alone') /\ Cardinality(Alone') \in Nat
        /\ Cardinality(Alone') + local[t] = Cardinality(Alone)
    BY <2>1, AloneLess DEF CountInv
  <2>5. /\ count'.successful = count.successful + local[t]
        /\ count.successful \in Nat /\ local[t] \in Nat
        /\ count'.reads = count.reads /\ count'.readErrors = count.readErrors
        /\ count'.writes = count.writes /\ count'.writeErrors = count.writeErrors
        /\ count'.total = count.total
    BY <2>1 DEF TypeInv
  <2>6. count'.successful + Cardinality(Alone') = count.successful + Cardinality(Alone)
    BY <2>4, <2>5
  <2> QED
    BY <2>1, <2>3, <2>4, <2>5, <2>6 DEF CountInv
<1>4. ASSUME Commands(Main) PROVE CountInv'
  <2>1. Others(Main) /\ UNCHANGED <<demo, phase, count>> /\ Main \notin Workers
    BY <1>4, CommandTyped, MainCounts DEF Threads, program
  <2>2. \A u \in Workers : Undone(u)' = Undone(u) /\ left'[u] = left[u] /\ local'[u] = local[u]
    BY <2>1, OtherWorkers DEF Others
  <2> QED
    BY <2>1, <2>2, CountKept
<1>5. CASE Initialize \/ Check \/ EraseNext
  <2>1. /\ Others(Main) /\ UNCHANGED <<demo, count>> /\ Main \notin Workers
        /\ phase' \in {phase, "spawn"}
    BY <1>5, MainPlaced DEF Initialize, Check, EraseNext, work, Enters
  <2>2. \A u \in Workers : Undone(u)' = Undone(u) /\ left'[u] = left[u] /\ local'[u] = local[u]
    BY <2>1 DEF Others, Undone, Busy, Threads
  <2> QED
    BY <2>1, <2>2, CountKept
<1>6. CASE Join \/ Clean
  <2>1. UNCHANGED <<demo, count, pc, left, local>> /\ phase \in {"join", "check"}
    BY <1>6 DEF Join, Clean, Enters, MainAt, work
  <2>2. \A u \in Workers : Undone(u)' = Undone(u)
    BY <2>1 DEF Undone, Busy
  <2> QED
    BY <2>1, <2>2, CountKept
<1>7. CASE Spawn
  <2>1. /\ phase = "spawn" /\ phase' = "join" /\ UNCHANGED <<demo, count, local>>
        /\ demo \in {"writes", "shared", "load"} /\ Rounds[demo] \in Nat
        /\ \A t \in Workers : left'[t] = Rounds[demo] /\ Undone(t)' = Rounds[demo]
    BY <1>7, SpawnPlaced DEF Spawn, Enters
  <2>2. Ended' = {} /\ Started' = {}
    <3>1. \A n \in 1 .. Rounds[demo] : ~(n > Rounds[demo])
      BY <2>1
    <3> QED
      BY <2>1, <3>1 DEF Ended, Started, AllOps
  <2>3. Alone = {} /\ Alone' = {}
    <3>1. \A u \in Workers : local[u] = 0 /\ local'[u] = 0
      BY <2>1 DEF PlaceInv, WorkerInv
    <3> QED
      BY <3>1, AloneNone, AloneKept
  <2>4. count' = Zero
    BY <2>1 DEF PlaceInv, MainInv
  <2> QED
    BY <2>1, <2>2, <2>3, <2>4, FS_EmptySet DEF CountInv, Zero
<1>8. CASE NextDemo
  <2>1. UNCHANGED local /\ demo' # "writes" /\ phase' \in {"init", "spawn", "over"}
    BY <1>8 DEF NextDemo
  <2>2. Alone' = Alone
    BY <2>1, AloneKept
  <2> QED
    BY <2>1, <2>2 DEF CountInv
<1>9. ASSUME NEW t \in Workers, WorkerStep(t) PROVE CountInv'
  BY <1>2, <1>3, <1>9, CountCommand DEF WorkerStep
<1>10. CASE MainStep
  BY <1>4, <1>5, <1>6, <1>7, <1>8, <1>10 DEF MainStep
<1> QED
  BY <1>1, <1>9, <1>10 DEF Next, Over

-----------------------------------------------------------------------------
(* The keys of the load test that are there. *)

LEMMA SubsetSize ==
  ASSUME NEW S, NEW T, S \subseteq T, IsFiniteSet(T)
  PROVE  /\ IsFiniteSet(S) /\ Cardinality(S) <= Cardinality(T)
         /\ Cardinality(S) \in Nat /\ Cardinality(T) \in Nat
BY FS_Subset, FS_CardinalityType

LEMMA ConfirmedFinite ==
  /\ IsFiniteSet(Confirmed) /\ Cardinality(Confirmed) \in Nat
  /\ IsFiniteSet(Failed) /\ Cardinality(Failed) \in Nat
  /\ IsFiniteSet(Unlocking) /\ Cardinality(Unlocking) \in Nat
<1>1. /\ IsFiniteSet(Workers) /\ Confirmed \subseteq Workers /\ Failed \subseteq Workers
      /\ Unlocking \subseteq Workers
  BY DemoAssumption DEF Confirmed, Failed, Unlocking, Workers
<1> QED
  BY <1>1, SubsetSize

LEMMA ConfirmedKept ==
  ASSUME \A u \in Workers : pc'[u] = pc[u] /\ ok'[u] = ok[u]
  PROVE  Confirmed' = Confirmed /\ Failed' = Failed /\ Unlocking' = Unlocking
BY DEF Confirmed, Failed, Unlocking, Workers

LEMMA ConfirmedSame ==
  ASSUME NEW t \in Workers, Others(t), pc[t] # "unlock", pc'[t] # "unlock"
  PROVE  Confirmed' = Confirmed /\ Failed' = Failed /\ Unlocking' = Unlocking
BY DEF Confirmed, Failed, Unlocking, Others, Threads, Workers

LEMMA ConfirmedApply ==
  ASSUME TypeInv, NEW t \in Workers, Others(t), pc[t] # "unlock", pc'[t] = "unlock"
  PROVE  /\ ok'[t] => /\ Cardinality(Confirmed') = Cardinality(Confirmed) + 1
                      /\ Failed' = Failed
                      /\ t \in Writers =>
                           Cardinality(Unlocking') = Cardinality(Unlocking) + 1
         /\ ~ok'[t] => /\ Confirmed' = Confirmed /\ Unlocking' = Unlocking
                       /\ Cardinality(Failed') = Cardinality(Failed) + 1
<1>1. /\ t \notin Confirmed /\ t \notin Failed /\ t \notin Unlocking
      /\ \A u \in Workers \ {t} : pc'[u] = pc[u] /\ ok'[u] = ok[u]
  BY DEF Confirmed, Failed, Unlocking, Others, Threads
<1>2. CASE ok'[t]
  <2>1. /\ Confirmed' = Confirmed \cup {t} /\ Failed' = Failed
        /\ t \in Writers => Unlocking' = Unlocking \cup {t}
    BY <1>1, <1>2 DEF Confirmed, Failed, Unlocking, Workers
  <2>2. Cardinality(Confirmed') = Cardinality(Confirmed) + 1
    BY <1>1, <2>1, ConfirmedFinite, FS_AddElement
  <2>3. t \in Writers => Cardinality(Unlocking') = Cardinality(Unlocking) + 1
    BY <1>1, <2>1, ConfirmedFinite, FS_AddElement
  <2> QED
    BY <1>2, <2>1, <2>2, <2>3
<1>3. CASE ~ok'[t]
  <2>1. Confirmed' = Confirmed /\ Failed' = Failed \cup {t} /\ Unlocking' = Unlocking
    BY <1>1, <1>3 DEF Confirmed, Failed, Unlocking, Workers
  <2>2. Cardinality(Failed') = Cardinality(Failed) + 1
    BY <1>1, <2>1, ConfirmedFinite, FS_AddElement
  <2> QED
    BY <1>3, <2>1, <2>2
<1> QED
  BY <1>2, <1>3

LEMMA ConfirmedUnlock ==
  ASSUME TypeInv, NEW t \in Workers, Others(t), pc[t] = "unlock", pc'[t] # "unlock"
  PROVE  /\ ok[t] => /\ Cardinality(Confirmed') = Cardinality(Confirmed) - 1
                     /\ Failed' = Failed
                     /\ t \in Writers =>
                          Cardinality(Unlocking') = Cardinality(Unlocking) - 1
         /\ ~ok[t] => /\ Confirmed' = Confirmed /\ Unlocking' = Unlocking
                      /\ Cardinality(Failed') = Cardinality(Failed) - 1
<1>1. \A u \in Workers \ {t} : pc'[u] = pc[u] /\ ok'[u] = ok[u]
  BY DEF Others, Threads
<1>2. CASE ok[t]
  <2>1. /\ Confirmed' = Confirmed \ {t} /\ Failed' = Failed /\ t \in Confirmed
        /\ t \in Writers => Unlocking' = Unlocking \ {t} /\ t \in Unlocking
    BY <1>1, <1>2 DEF Confirmed, Failed, Unlocking, Workers
  <2>2. Cardinality(Confirmed') = Cardinality(Confirmed) - 1
    BY <2>1, ConfirmedFinite, FS_RemoveElement
  <2>3. t \in Writers => Cardinality(Unlocking') = Cardinality(Unlocking) - 1
    BY <2>1, ConfirmedFinite, FS_RemoveElement
  <2> QED
    BY <1>2, <2>1, <2>2, <2>3
<1>3. CASE ~ok[t]
  <2>1. /\ Confirmed' = Confirmed /\ Failed' = Failed \ {t} /\ Unlocking' = Unlocking
        /\ t \in Failed
    BY <1>1, <1>3 DEF Confirmed, Failed, Unlocking, Workers
  <2>2. Cardinality(Failed') = Cardinality(Failed) - 1
    BY <2>1, ConfirmedFinite, FS_RemoveElement
  <2> QED
    BY <1>3, <2>1, <2>2
<1> QED
  BY <1>2, <1>3

(* What the commands do, place by place. *)
LEMMA LockEffect ==
  ASSUME TypeInv, PlaceInv, NEW t \in Threads, TryLock(t)
  PROVE  /\ pc[t] = "lock" /\ UNCHANGED value /\ Others(t)
         /\ \/ /\ pc'[t] = "apply" /\ key[t] \notin locked /\ locked' = locked \cup {key[t]}
               /\ UNCHANGED <<late, failures, count, local, put, overlapped>>
            \/ /\ pc'[t] = "between" /\ UNCHANGED <<locked, overlapped>>
               /\ \/ key[t] \in locked /\ UNCHANGED <<late, failures>>
                  \/ failures' = failures + 1 /\ late' \in {late, late \cup {Command(t)}}
               /\ t = Main => UNCHANGED count
               /\ t \in Workers => local'[t] = local[t]
               /\ t \in Workers /\ demo # "load" => Adds("writeErrors")
<1> USE DemoAssumption
<1>1. Others(t)
  BY CommandTyped DEF Commands
<1>2. CASE Goes(t, "apply")
  BY <1>1, <1>2 DEF TryLock, Goes, request, work, TypeInv, Ends
<1>3. CASE Ends(t, FALSE) /\ Counts(t, FALSE)
  <2>1. PICK success \in BOOLEAN : ~success /\ Ends(t, success)
    BY <1>3
  <2>2. pc'[t] = "between" /\ (t \in Workers => local'[t] = local[t])
    <3>1. t \in Workers => local[t] \in Nat
      BY DEF TypeInv
    <3> QED
      BY <2>1, <3>1, EndsTyped
  <2>3. pc'[t] # "apply"
    BY <2>2
  <2> QED
    BY <1>1, <1>3, <2>2, <2>3 DEF TryLock, Goes, Lost, Fails, Counts, TypeInv
<1> QED
  BY <1>2, <1>3 DEF TryLock

LEMMA ApplyEffect ==
  ASSUME TypeInv, PlaceInv, NEW t \in Threads, Apply(t)
  PROVE  /\ pc[t] = "apply" /\ pc'[t] = "unlock" /\ Others(t)
         /\ UNCHANGED <<locked, count, local, key, put>> /\ key[t] \in Keys
         /\ \/ /\ UNCHANGED <<late, failures>> /\ Executes(key[t], put[t])
               /\ put[t] # Absent => ok'[t]
            \/ /\ failures' = failures + 1 /\ ~ok'[t]
               /\ UNCHANGED <<value, overlapped>>
               /\ late' \in {late, late \cup {Command(t)}}
<1>1. Others(t)
  BY CommandTyped DEF Commands
<1>2. pc[t] = "apply" /\ pc'[t] = "unlock" /\ key[t] \in Keys
  BY BusyKey DEF Apply, Goes, TypeInv, Busy, Sending
<1>3. UNCHANGED <<locked, count, local, key, put>>
  BY DEF Apply, request, work
<1>4. CASE /\ UNCHANGED <<late, failures>> /\ Executes(key[t], put[t])
           /\ ok' = [ok EXCEPT ![t] = put[t] # Absent \/ value[key[t]] # Absent]
  <2> DEFINE b == put[t] # Absent \/ value[key[t]] # Absent
  <2>1. put[t] # Absent => b
    OBVIOUS
  <2>2. ok' = [ok EXCEPT ![t] = b]
    BY <1>4
  <2> HIDE DEF b
  <2>3. ok'[t] = b
    BY <2>2 DEF TypeInv
  <2> QED
    BY <1>1, <1>2, <1>3, <1>4, <2>1, <2>3
<1>5. CASE Lost(t) /\ UNCHANGED <<value, overlapped>> /\ ok' = [ok EXCEPT ![t] = FALSE]
  <2>1. /\ failures' = failures + 1 /\ ~ok'[t]
        /\ late' \in {late, late \cup {Command(t)}}
    BY <1>5 DEF Lost, Fails, TypeInv
  <2> QED
    BY <1>1, <1>2, <1>3, <1>5, <2>1
<1> QED
  BY <1>4, <1>5 DEF Apply

LEMMA UnlockEffect ==
  ASSUME TypeInv, PlaceInv, NEW t \in Threads, Unlock(t)
  PROVE  /\ pc[t] = "unlock" /\ pc'[t] = "between" /\ UNCHANGED <<value, overlapped>>
         /\ Others(t)
         /\ \/ UNCHANGED <<late, failures>> /\ locked' = locked \ {key[t]}
            \/ /\ failures' = failures + 1 /\ UNCHANGED locked
               /\ late' \in {late, late \cup {Command(t)}}
         /\ t = Main => UNCHANGED count
         /\ t \in Workers =>
              local'[t] = local[t] + (IF demo = "load" /\ ok[t] THEN 1 ELSE 0)
         /\ t \in Workers /\ demo # "load" => Adds(IF ok[t] THEN "writes" ELSE "writeErrors")
         /\ demo = "load" => UNCHANGED count
<1> USE DemoAssumption
<1>1. Others(t) /\ ok[t] \in BOOLEAN
  BY CommandTyped DEF Commands, TypeInv
<1>2. Ends(t, ok[t]) /\ Counts(t, ok[t])
  BY DEF Unlock
<1>3. /\ pc'[t] = "between"
      /\ t \in Workers => local'[t] = local[t] + (IF demo = "load" /\ ok[t] THEN 1 ELSE 0)
  BY <1>1, <1>2, EndsTyped
<1> QED
  BY <1>1, <1>2, <1>3 DEF Unlock, Counts, Lost, Fails

LEMMA GetEffect ==
  ASSUME TypeInv, PlaceInv, NEW t \in Threads, Get(t)
  PROVE  /\ pc[t] = "get" /\ UNCHANGED <<value, locked, late, overlapped>> /\ Others(t)
         /\ failures' \in {failures, failures + 1}
         /\ \/ /\ pc'[t] = "lock" /\ demo = "shared" /\ t \in Writers
               /\ value[key[t]] # Absent /\ put'[t] = <<value[key[t]][1] + 1>>
               /\ UNCHANGED <<failures, count, local>>
            \/ \E success \in BOOLEAN :
                 /\ pc'[t] = "between" /\ (ok'[t] <=> t = Main /\ success)
                 /\ t = Main => UNCHANGED count
                 /\ t \in Workers => local'[t] \in {local[t], local[t] + 1}
                 /\ t \in Workers /\ demo # "load" =>
                      /\ local'[t] = local[t]
                      /\ Adds("reads") \/ Adds("readErrors")
                 /\ demo = "load" => UNCHANGED count
                 /\ ~success => \/ value[key[t]] = Absent
                                \/ failures' = failures + 1
<1> USE DemoAssumption
<1>1. Others(t)
  BY CommandTyped DEF Commands
<1>2. /\ pc[t] = "get" /\ UNCHANGED <<value, locked, late, overlapped>>
      /\ failures' \in {failures, failures + 1}
  BY DEF Get, store, Fails
<1>3. CASE /\ demo = "shared" /\ t \in Writers /\ Goes(t, "lock")
           /\ put' = [put EXCEPT ![t] = <<value[key[t]][1] + 1>>]
           /\ value[key[t]] # Absent /\ UNCHANGED <<failures, work>>
  BY <1>1, <1>2, <1>3 DEF Goes, work, TypeInv
<1>4. ASSUME NEW success \in BOOLEAN, Ends(t, success), CountsRead(t, success),
             ~success => value[key[t]] = Absent \/ Fails
      PROVE  /\ pc'[t] = "between" /\ (ok'[t] <=> t = Main /\ success)
             /\ t = Main => UNCHANGED count
             /\ t \in Workers => local'[t] \in {local[t], local[t] + 1}
             /\ t \in Workers /\ demo # "load" =>
                  /\ local'[t] = local[t]
                  /\ Adds("reads") \/ Adds("readErrors")
             /\ demo = "load" => UNCHANGED count
             /\ ~success => \/ value[key[t]] = Absent
                            \/ failures' = failures + 1
  <2>1. /\ pc'[t] = "between" /\ (ok'[t] <=> t = Main /\ success)
        /\ t \in Workers => local'[t] = local[t] + (IF demo = "load" /\ success THEN 1 ELSE 0)
    BY <1>4, EndsTyped
  <2>2. t \in Workers => local[t] \in Nat
    BY DEF TypeInv
  <2> QED
    BY <1>4, <2>1, <2>2 DEF CountsRead, Fails
<1>5. CASE Ends(t, TRUE) /\ CountsRead(t, TRUE)
  <2>1. TRUE \in BOOLEAN
    OBVIOUS
  <2> QED
    BY <1>1, <1>2, <1>4, <1>5, <2>1
<1>6. CASE Ends(t, FALSE) /\ CountsRead(t, FALSE) /\ (value[key[t]] = Absent \/ Fails)
  <2>1. FALSE \in BOOLEAN
    OBVIOUS
  <2> QED
    BY <1>1, <1>2, <1>4, <1>6, <2>1
<1> QED
  BY <1>3, <1>5, <1>6 DEF Get

-----------------------------------------------------------------------------
(* Present keys of the load test come from successes and from failures.    *)

LEMMA PresentKept == UNCHANGED value => Present' = Present
BY DEF Present

LEMMA PresentExecutes ==
  ASSUME TypeInv, NEW k \in Keys, NEW v, Executes(k, v)
  PROVE  /\ Present' \subseteq Present \cup {k}
         /\ v = Absent \/ k \notin Loads => Present' \subseteq Present
BY DEF Present, Executes, TypeInv

LEMMA PendingFinite ==
  ASSUME PlaceInv
  PROVE  IsFiniteSet(Pending) /\ Cardinality(Pending) \in Nat
<1>1. IsFiniteSet(late) /\ Pending \subseteq late
  BY DEF PlaceInv, LateInv, Pending
<1> QED
  BY <1>1, SubsetSize

(* A command is given up on with a failure; another may be executed later. *)
LEMMA PendingCommand ==
  ASSUME TypeInv, PlaceInv, NEW t \in Threads, Commands(t)
  PROVE  /\ pc[t] # "apply" \/ UNCHANGED failures => Pending' = Pending
         /\ Cardinality(Pending') <= Cardinality(Pending) + 1
<1>1. \/ late' = late
      \/ late' = late \cup {Command(t)} /\ failures' = failures + 1
  BY CommandLate
<1>2. Command(t).do = pc[t] /\ failures \in Nat
  BY DEF Command, TypeInv
<1>3. Pending' = Pending \/ (/\ pc[t] = "apply" /\ failures' = failures + 1
                            /\ Pending' = Pending \cup {Command(t)})
  BY <1>1, <1>2 DEF Pending
<1>4. /\ IsFiniteSet(Pending) /\ Cardinality(Pending) \in Nat
  BY PendingFinite
<1>5. /\ Cardinality(Pending \cup {Command(t)})
           = IF Command(t) \in Pending THEN Cardinality(Pending) ELSE Cardinality(Pending) + 1
  BY <1>4, FS_AddElement, Zenon
<1> QED
  BY <1>2, <1>3, <1>4, <1>5

(* What counts for a key there grows with it. *)
Stock  == Cardinality(Present) + Cardinality(Pending)
Credit == count.successful + Cardinality(Alone) + Cardinality(Confirmed) + failures

LEMMA PresentCommand ==
  ASSUME TypeInv, PlaceInv, CountInv, PresentInv, NEW t \in Workers, Commands(t),
         demo = "load"
  PROVE  PresentInv'
<1> USE DemoAssumption
<1>1. /\ t \in Threads /\ Others(t) /\ UNCHANGED <<demo, phase>> /\ phase = "join"
      /\ \A u \in Workers \ {t} : local'[u] = local[u]
  BY CommandTyped, BusyKey DEF Threads, program, Others
<1>2. /\ IsFiniteSet(Present) /\ Stock <= Credit /\ Stock \in Nat
      /\ Cardinality(Present) \in Nat /\ Cardinality(Pending) \in Nat
  BY <1>1, FS_CardinalityType, PendingFinite DEF PresentInv, Credit, Stock
<1>3. /\ count.successful \in Nat /\ failures \in Nat /\ local[t] \in Nat
      /\ IsFiniteSet(Alone) /\ Cardinality(Alone) \in Nat /\ Cardinality(Confirmed) \in Nat
  BY ConfirmedFinite, FS_CardinalityType DEF TypeInv, CountInv
<1>4. local'[t] = local[t] => Alone' = Alone
  BY <1>1, AloneKept
<1>5. local'[t] = local[t] + 1 => Cardinality(Alone') = Cardinality(Alone) + 1
  BY <1>1, <1>3, AloneMore
<1>6. ASSUME IsFiniteSet(Present'), Stock' <= Credit'
      PROVE  PresentInv'
  BY <1>1, <1>6 DEF PresentInv, Credit, Stock
<1>0. /\ pc[t] # "apply" \/ UNCHANGED failures => Pending' = Pending
      /\ Cardinality(Pending') <= Cardinality(Pending) + 1 /\ Cardinality(Pending') \in Nat
  <2>1. PlaceInv'
    BY <1>1, CommandPlaced
  <2>2. Cardinality(Pending') \in Nat
    <3>1. IsFiniteSet(late') /\ Pending' \subseteq late'
      BY <2>1 DEF PlaceInv, LateInv, Pending
    <3> QED
      BY <3>1, SubsetSize
  <2> QED
    BY <1>1, <2>2, PendingCommand
<1>7. CASE TryLock(t)
  <2>1. UNCHANGED <<value, count>> /\ failures' \in {failures, failures + 1}
        /\ pc[t] # "unlock" /\ pc'[t] # "unlock" /\ local'[t] = local[t]
    <3>1. t # Main /\ (Ends(t, FALSE) => UNCHANGED count)
      BY <1>7 DEF TryLock, Counts, Ends, Goes, work
    <3>2. UNCHANGED count
      BY <1>7, <3>1 DEF TryLock, work, Counts
    <3> QED
      BY <1>1, <1>7, <3>2, LockEffect
  <2>2. /\ Alone' = Alone /\ Confirmed' = Confirmed /\ Present' = Present
        /\ Stock' = Stock
    BY <1>0, <1>1, <1>4, <1>7, <2>1, ConfirmedSame, PresentKept DEF TryLock, Stock
  <2>3. Credit' >= Credit
    BY <1>3, <2>1, <2>2 DEF Credit
  <2>4. Credit \in Nat /\ Credit' \in Nat
    BY <1>3, <2>1, <2>2 DEF Credit
  <2> QED
    BY <1>2, <1>6, <2>2, <2>3, <2>4
<1>8. CASE Apply(t)
  <2>1. /\ pc[t] = "apply" /\ pc'[t] = "unlock" /\ UNCHANGED <<count, local>>
        /\ key[t] \in Keys
        /\ \/ /\ UNCHANGED failures /\ Executes(key[t], put[t])
              /\ put[t] # Absent => ok'[t]
           \/ failures' = failures + 1 /\ ~ok'[t] /\ UNCHANGED value
    BY <1>1, <1>8, ApplyEffect
  <2>2. Alone' = Alone
    BY <2>1, AloneKept
  <2>3. /\ ok'[t] => Cardinality(Confirmed') = Cardinality(Confirmed) + 1
        /\ ~ok'[t] => Confirmed' = Confirmed
    BY <1>1, <2>1, ConfirmedApply
  <2>4. /\ Present' \subseteq Present \cup {key[t]}
        /\ UNCHANGED value => Present' = Present
        /\ put[t] = Absent /\ Executes(key[t], put[t]) => Present' \subseteq Present
    BY <1>1, <2>1, PresentExecutes, PresentKept
  <2>5. IsFiniteSet(Present \cup {key[t]})
        /\ Cardinality(Present \cup {key[t]}) <= Cardinality(Present) + 1
    <3>1. /\ IsFiniteSet(Present \cup {key[t]})
          /\ Cardinality(Present \cup {key[t]})
               = IF key[t] \in Present THEN Cardinality(Present) ELSE Cardinality(Present) + 1
      BY <1>2, FS_AddElement, Zenon
    <3> QED
      BY <1>2, <3>1
  <2>6. IsFiniteSet(Present') /\ Cardinality(Present') <= Cardinality(Present) + 1
        /\ Cardinality(Present') \in Nat
    <3>1. /\ IsFiniteSet(Present')
          /\ Cardinality(Present') <= Cardinality(Present \cup {key[t]})
          /\ Cardinality(Present') \in Nat /\ Cardinality(Present \cup {key[t]}) \in Nat
      BY <2>4, <2>5, SubsetSize
    <3> QED
      BY <1>2, <2>5, <3>1
  <2>7. CASE ok'[t] \/ failures' = failures + 1
    <3>1. Credit' = Credit + 1 /\ Credit \in Nat
      BY <1>3, <2>1, <2>2, <2>3, <2>7 DEF Credit
    <3>2. Stock' <= Stock + 1 /\ Stock' \in Nat
      <4>1. CASE UNCHANGED failures
        BY <1>0, <1>2, <2>6, <4>1 DEF Stock
      <4>2. CASE UNCHANGED value
        BY <1>0, <1>2, <2>4, <2>6, <4>2 DEF Stock
      <4> QED
        BY <2>1, <4>1, <4>2
    <3> QED
      BY <1>2, <1>6, <2>6, <3>1, <3>2
  <2>8. CASE ~ok'[t] /\ failures' # failures + 1
    <3>1. Present' \subseteq Present /\ UNCHANGED failures
      BY <2>1, <2>4, <2>8
    <3>2. Cardinality(Present') <= Cardinality(Present)
      BY <1>2, <3>1, SubsetSize
    <3>3. Credit' = Credit /\ Credit \in Nat
      BY <1>3, <2>1, <2>2, <2>3, <2>8, <3>1 DEF Credit
    <3>4. Stock' <= Stock /\ Stock' \in Nat
      BY <1>0, <1>2, <2>6, <3>1, <3>2 DEF Stock
    <3> QED
      BY <1>2, <1>6, <2>6, <3>3, <3>4
  <2> QED
    BY <2>7, <2>8
<1>9. CASE Unlock(t)
  <2>1. /\ pc[t] = "unlock" /\ pc'[t] # "unlock" /\ UNCHANGED <<value, count>>
        /\ failures' \in {failures, failures + 1}
        /\ local'[t] = local[t] + (IF ok[t] THEN 1 ELSE 0)
    BY <1>1, <1>9, UnlockEffect
  <2>2. /\ ok[t] => Cardinality(Confirmed') = Cardinality(Confirmed) - 1
        /\ ~ok[t] => Confirmed' = Confirmed
    BY <1>1, <2>1, ConfirmedUnlock
  <2>3. Present' = Present /\ Stock' = Stock
    BY <1>0, <2>1, PresentKept DEF Stock
  <2>4. Credit' >= Credit /\ Credit \in Nat /\ Credit' \in Nat
    <3>1. CASE ok[t]
      BY <1>3, <1>5, <2>1, <2>2, <3>1 DEF Credit
    <3>2. CASE ~ok[t]
      BY <1>3, <1>4, <2>1, <2>2, <3>2 DEF Credit
    <3> QED
      BY <3>1, <3>2
  <2> QED
    BY <1>2, <1>6, <2>3, <2>4
<1>10. CASE Get(t)
  <2>1. /\ pc[t] = "get" /\ pc'[t] # "unlock" /\ UNCHANGED <<value, count>>
        /\ failures' \in {failures, failures + 1}
        /\ local'[t] \in {local[t], local[t] + 1}
    BY <1>1, <1>10, GetEffect
  <2>2. Confirmed' = Confirmed /\ Present' = Present /\ Stock' = Stock
    BY <1>0, <1>1, <2>1, ConfirmedSame, PresentKept DEF Stock
  <2>3. Credit' >= Credit /\ Credit \in Nat /\ Credit' \in Nat
    <3>1. CASE local'[t] = local[t]
      BY <1>3, <1>4, <2>1, <2>2, <3>1 DEF Credit
    <3>2. CASE local'[t] = local[t] + 1
      BY <1>3, <1>5, <2>1, <2>2, <3>2 DEF Credit
    <3> QED
      BY <2>1, <3>1, <3>2
  <2> QED
    BY <1>2, <1>6, <2>2, <2>3
<1> QED
  BY <1>7, <1>8, <1>9, <1>10 DEF Commands

LEMMA PresentStep ==
  ASSUME TypeInv, PlaceInv, CountInv, PresentInv, [Next]_vars
  PROVE  PresentInv'
<1> USE DemoAssumption
<1>1. ASSUME UNCHANGED <<demo, value, late, failures, pc, local>>, count' = count,
             phase' = phase \/ (phase = "join" /\ phase' = "check") \/ phase' = "clean",
             \A u \in Workers : ok'[u] = ok[u]
      PROVE  PresentInv'
  <2>1. Present' = Present /\ Confirmed' = Confirmed /\ Alone' = Alone
    BY <1>1, PresentKept, ConfirmedKept, AloneKept
  <2> QED
    BY <1>1, <2>1 DEF PresentInv, Pending
<1>2. CASE UNCHANGED vars \/ Monitor
  BY <1>1, <1>2 DEF vars, program, store, work, Monitor
<1>3. CASE Join \/ Clean
  <2>1. /\ UNCHANGED <<demo, value, late, failures, pc, local>> /\ count' = count
        /\ (phase = "join" /\ phase' = "check") \/ phase' = "clean"
    BY <1>3 DEF Join, Clean, MainAt, Enters, store, work
  <2>2. \A u \in Workers : ok'[u] = ok[u]
    BY <1>3 DEF Join, Clean, TypeInv, Threads
  <2> QED
    BY <1>1, <2>1, <2>2
<1>4. CASE Initialize \/ EraseNext
  <2>1. UNCHANGED <<demo, value>> /\ phase' \in {"spawn", "clean"}
    BY <1>4 DEF Initialize, EraseNext, Enters, store, MainAt
  <2>2. Initialize => demo = "shared"
    BY DEF Initialize, MainAt, PlaceInv, MainInv
  <2>3. EraseNext => phase = "clean" /\ phase' = "clean"
    BY DEF EraseNext, MainAt
  <2> QED
    BY <1>4, <2>1, <2>2, <2>3, PresentKept DEF PresentInv
<1>5. CASE Check
  <2>1. UNCHANGED <<demo, value, phase>> /\ demo # "load"
    BY <1>5 DEF Check, store, MainAt, PlaceInv, MainInv, TypeInv
  <2> QED
    BY <2>1, PresentKept DEF PresentInv
<1>6. CASE NextDemo
  <2>1. /\ UNCHANGED value /\ phase' # "join" /\ phase' # "check"
        /\ demo' \in {"writes", "shared"} \/ phase' = "spawn" => demo \in {"writes", "shared"}
    BY <1>6 DEF NextDemo, store
  <2> QED
    BY <2>1, PresentKept DEF PresentInv
<1>7. CASE Spawn
  <2>1. /\ Present' = Present /\ Present = {} /\ phase' = "join"
        /\ UNCHANGED <<demo, late, failures, local>> /\ TypeInv'
    BY <1>7, SpawnPlaced, PresentKept DEF Spawn, Enters, store, MainAt, PresentInv
  <2>2. Alone' = Alone
    BY <2>1, AloneKept
  <2>3. /\ count'.successful \in Nat /\ Cardinality(Alone') \in Nat /\ failures' \in Nat
    BY <2>1, <2>2, FS_CardinalityType DEF CountInv, TypeInv
  <2>4. Cardinality(Confirmed') \in Nat
    <3>1. IsFiniteSet(Workers) /\ Confirmed' \subseteq Workers
      BY DEF Confirmed
    <3> QED
      BY <3>1, SubsetSize
  <2>5. Pending' = {}
    BY <1>7, <2>1 DEF Spawn, MainAt, PlaceInv, LateInv, Pending
  <2> QED
    BY <2>1, <2>3, <2>4, <2>5, FS_EmptySet DEF PresentInv
<1>8. ASSUME NEW t \in Threads, Commands(t), demo # "load" \/ t = Main
      PROVE  PresentInv'
  <2>1. /\ UNCHANGED <<demo, phase>> /\ Busy(t) /\ key[t] \in Keys
    BY <1>8, CommandTyped, BusyKey DEF program
  <2>2. /\ demo # "over"
        /\ demo = "load" => phase = "clean" /\ t = Main
        /\ phase = "spawn" => demo = "shared"
    BY <1>8, <2>1, BusyKey DEF PlaceInv, MainInv, Threads
  <2>3. put[t] = Absent \/ key[t] \notin Loads \/ pc[t] = "get"
    <3>1. CASE t = Main
      BY <2>1, <3>1, KeysThere DEF PlaceInv, MainInv
    <3>2. CASE t # Main
      <4>1. t \in Workers /\ phase = "join" /\ demo \in {"writes", "shared"}
        BY <1>8, <2>1, <2>2, <3>2, BusyKey DEF Threads, TypeInv
      <4>2. CASE demo = "shared"
        BY <2>1, <4>1, <4>2, KeysThere DEF PlaceInv, WorkerInv
      <4>3. CASE demo = "writes"
        <5>1. key[t] = Item(t, left[t] + 1)
          BY <2>1, <4>1, <4>3 DEF PlaceInv, WorkerInv
        <5> QED
          BY <5>1 DEF Item, Loads, Load
      <4> QED
        BY <4>1, <4>2, <4>3
    <3> QED
      BY <3>1, <3>2
  <2>4. Present' \subseteq Present
    <3>1. CASE UNCHANGED value
      BY <3>1, PresentKept
    <3>2. CASE ~ UNCHANGED value
      <4>1. pc[t] = "apply" /\ value' = [value EXCEPT ![key[t]] = put[t]]
        BY <1>8, <3>2, CommandWrites
      <4> QED
        BY <2>1, <2>3, <4>1 DEF Present, TypeInv
    <3> QED
      BY <3>1, <3>2
  <2> QED
    BY <2>1, <2>2, <2>4 DEF PresentInv
<1>9. ASSUME NEW t \in Workers, WritesItem(t) \/ UsesCounter(t) \/ LoadsStore(t)
      PROVE  PresentInv'
  <2>1. /\ UNCHANGED <<demo, phase, value, late, failures, local, ok>>
        /\ count'.successful = count.successful
        /\ pc[t] = "between" /\ pc'[t] # "unlock" /\ Others(t)
    <3>1. \E command \in {"lock", "get"} : pc' = [pc EXCEPT ![t] = command]
      BY <1>9 DEF WritesItem, UsesCounter, LoadsStore, Begins, Goes
    <3>2. count' = count \/ Adds("total")
      BY <1>9 DEF WritesItem, UsesCounter, LoadsStore
    <3>3. count'["successful"] = count["successful"]
      BY <3>2, AddsTyped DEF TypeInv, CountTypes
    <3>4. UNCHANGED <<demo, phase, value, late, failures, local, ok>> /\ pc[t] = "between"
      BY <1>9 DEF WritesItem, UsesCounter, LoadsStore, Round, program, store
    <3> QED
      BY <1>9, <3>1, <3>3, <3>4, RoundPlaced DEF TypeInv, Threads
  <2>2. Present' = Present /\ Confirmed' = Confirmed /\ Alone' = Alone
    BY <2>1, PresentKept, ConfirmedSame, AloneKept
  <2> QED
    BY <2>1, <2>2 DEF PresentInv, Pending
<1>10. ASSUME NEW t \in Workers, Finishes(t)
       PROVE  PresentInv'
  <2>1. /\ Others(t) /\ UNCHANGED <<demo, phase, value, late, failures>> /\ pc[t] = "between"
        /\ pc'[t] = "done"
        /\ count' = [count EXCEPT !.successful = @ + local[t]]
        /\ local' = [local EXCEPT ![t] = 0]
    BY <1>10, FinishPlaced DEF Finishes, Goes, TypeInv, Threads, program, store
  <2>2. /\ Cardinality(Alone') \in Nat /\ Cardinality(Alone') + local[t] = Cardinality(Alone)
    BY <2>1, AloneLess DEF CountInv
  <2>3. count'.successful = count.successful + local[t] /\ count.successful \in Nat
        /\ local[t] \in Nat
    BY <2>1 DEF TypeInv
  <2>4. count'.successful + Cardinality(Alone') = count.successful + Cardinality(Alone)
    BY <2>2, <2>3
  <2>5. Present' = Present /\ Confirmed' = Confirmed
    BY <2>1, PresentKept, ConfirmedSame
  <2> QED
    BY <2>1, <2>4, <2>5 DEF PresentInv, Pending
<1>11. ASSUME NEW t \in Workers, WorkerStep(t) PROVE PresentInv'
  BY <1>8, <1>9, <1>10, <1>11, PresentCommand DEF WorkerStep, Threads
<1>12. CASE MainStep
  BY <1>3, <1>4, <1>5, <1>6, <1>7, <1>8, <1>12 DEF MainStep, Threads
<1>13. ASSUME NEW m \in late, Lands(m) PROVE PresentInv'
  <2>1. /\ UNCHANGED <<demo, phase, count, local, pc, ok, failures>> /\ late' = late \ {m}
        /\ m.key \in Keys
        /\ demo = "writes" => m.key \in Items
        /\ demo = "shared" \/ phase = "spawn" => m.key \notin Loads
        /\ UNCHANGED value \/ (m.do = "apply" /\ Executes(m.key, m.put))
    BY <1>13, LandsPlaced DEF Lands, program, work, Requests
  <2>2. Confirmed' = Confirmed /\ Alone' = Alone
    BY <2>1, ConfirmedKept, AloneKept
  <2>3. /\ Present' \subseteq Present \cup {m.key}
        /\ m \notin Pending => Present' \subseteq Present
    BY <2>1, PresentKept, PresentExecutes DEF Pending
  <2>4. Pending' = Pending \ {m}
    BY <2>1 DEF Pending
  <2>5. CASE demo \in {"writes", "shared"} \/ phase = "spawn"
    <3>1. m \notin Pending
      BY <2>1, <2>5, KeysThere DEF Pending
    <3> QED
      BY <2>1, <2>3, <2>5, <3>1 DEF PresentInv
  <2>6. CASE demo = "load" /\ phase # "spawn"
    <3> SUFFICES ASSUME phase \in {"join", "check"} PROVE PresentInv'
      BY <2>1, <2>6 DEF PresentInv
    <3>1. /\ IsFiniteSet(Present) /\ IsFiniteSet(Pending)
          /\ Cardinality(Present) \in Nat /\ Cardinality(Pending) \in Nat
      BY <2>6, PendingFinite, FS_CardinalityType DEF PresentInv
    <3>2. /\ IsFiniteSet(Present \cup {m.key})
          /\ Cardinality(Present \cup {m.key}) \in {Cardinality(Present), Cardinality(Present) + 1}
      BY <3>1, FS_AddElement, Zenon
    <3>3. /\ IsFiniteSet(Present') /\ Cardinality(Present') \in Nat
          /\ Cardinality(Present') <= Cardinality(Present) + 1
          /\ m \notin Pending => Cardinality(Present') <= Cardinality(Present)
      <4>1. /\ IsFiniteSet(Present')
            /\ Cardinality(Present') <= Cardinality(Present \cup {m.key})
            /\ Cardinality(Present') \in Nat
        BY <2>3, <3>2, SubsetSize
      <4>2. m \notin Pending => Cardinality(Present') <= Cardinality(Present)
        BY <2>3, <3>1, SubsetSize
      <4> QED
        BY <3>1, <3>2, <4>1, <4>2
    <3>4. Cardinality(Pending')
            = IF m \in Pending THEN Cardinality(Pending) - 1 ELSE Cardinality(Pending)
      BY <2>4, <3>1, FS_RemoveElement
    <3>5. Cardinality(Present') + Cardinality(Pending')
            <= Cardinality(Present) + Cardinality(Pending)
      BY <3>1, <3>3, <3>4
    <3>6. /\ count.successful \in Nat /\ failures \in Nat
          /\ Cardinality(Alone) \in Nat /\ Cardinality(Confirmed) \in Nat
          /\ Cardinality(Pending') \in Nat
      <4>1. Cardinality(Pending') \in Nat
        BY <2>4, <3>1, SubsetSize
      <4> QED
        BY <4>1, ConfirmedFinite, FS_CardinalityType DEF TypeInv, CountInv
    <3> QED
      BY <2>1, <2>2, <2>6, <3>1, <3>3, <3>5, <3>6 DEF PresentInv
  <2>7. CASE demo = "over"
    BY <2>1, <2>7 DEF PresentInv, PlaceInv, MainInv
  <2> QED
    BY <2>5, <2>6, <2>7 DEF TypeInv
<1> QED
  BY <1>2, <1>11, <1>12, <1>13 DEF Next, Over

-----------------------------------------------------------------------------
(* All have ended when the results are there. *)
LEMMA AllEnded ==
  ASSUME TypeInv, PlaceInv, phase \in {"check", "clean"}
  PROVE  /\ demo \in {"writes", "shared", "load"}
         /\ Ended = AllOps /\ Started = AllOps /\ Alone = {} /\ Confirmed = {}
         /\ Cardinality(AllOps) = Begun
<1>1. demo \in {"writes", "shared", "load"}
  BY DEF TypeInv, PlaceInv, MainInv
<1>2. \A t \in Workers : /\ pc[t] \in {"none", "done"} /\ left[t] = 0 /\ local[t] = 0
                         /\ Undone(t) = 0
  BY DEF PlaceInv, WorkerInv, Undone, Busy, Sending
<1>3. Ended = AllOps /\ Started = AllOps
  BY <1>2 DEF Ended, Started, AllOps
<1>4. Alone = {} /\ Confirmed = {}
  BY <1>2, AloneNone DEF Confirmed
<1> QED
  BY <1>1, <1>3, <1>4, OpsFinite DEF Begun

(* When the results are printed every operation has been counted once, and *)
(* the successes account for the keys that are there.                      *)
THEOREM ResultsCorrect == Spec => []ResultsAddUp
<1> DEFINE Inv == TypeInv /\ PlaceInv /\ CountInv /\ PresentInv
<1>1. Init => Inv
  <2> SUFFICES ASSUME Init PROVE Inv
    OBVIOUS
  <2>1. TypeInv /\ PlaceInv
    BY InitPlaced
  <2>2. Alone = {}
    BY AloneNone DEF Init
  <2>3. Present = {}
    BY DEF Init, Present, Keys
  <2> QED
    BY <2>1, <2>2, <2>3, FS_EmptySet DEF Init, CountInv, PresentInv, Zero
<1>2. Inv /\ [Next]_vars => Inv'
  BY PlaceStep, CountStep, PresentStep
<1>3. ASSUME Inv PROVE ResultsAddUp
  <2> SUFFICES ASSUME Reported
               PROVE  CASE demo = "writes" -> count.writes + count.writeErrors = Begun
                        [] demo = "shared" -> count.reads + count.readErrors + count.writes
                                                + count.writeErrors = Begun
                        [] demo = "load"   -> /\ count.total = Begun
                                              /\ count.successful <= count.total
                                              /\ phase = "check" =>
                                                   Cardinality({k \in Loads : value[k] # Absent})
                                                     <= count.successful + failures
    BY DEF ResultsAddUp
  <2>1. /\ phase \in {"check", "clean"} /\ demo \in {"writes", "shared", "load"}
        /\ Ended = AllOps /\ Started = AllOps /\ Alone = {} /\ Confirmed = {}
        /\ Cardinality(AllOps) = Begun /\ Cardinality({}) = 0
    BY <1>3, AllEnded, FS_EmptySet DEF Reported
  <2>2. /\ count.writes \in Nat /\ count.writeErrors \in Nat /\ count.successful \in Nat
        /\ count.total \in Nat /\ failures \in Nat
    BY <1>3 DEF TypeInv
  <2>3. CASE demo = "writes"
    BY <1>3, <2>1, <2>2, <2>3 DEF CountInv
  <2>4. CASE demo = "shared"
    BY <1>3, <2>1, <2>4 DEF CountInv
  <2>5. CASE demo = "load"
    <3>1. count.total = Begun /\ count.successful <= count.total
      BY <1>3, <2>1, <2>2, <2>5 DEF CountInv
    <3>2. phase = "check" => Cardinality(Present) <= count.successful + failures
      <4>1. Cardinality(Pending) \in Nat /\ (IsFiniteSet(Present) => Cardinality(Present) \in Nat)
        BY <1>3, PendingFinite, FS_CardinalityType
      <4> QED
        BY <1>3, <2>1, <2>2, <2>5, <4>1 DEF PresentInv
    <3> QED
      BY <2>5, <3>1, <3>2 DEF Present
  <2> QED
    BY <2>1, <2>3, <2>4, <2>5
<1> QED
  BY <1>1, <1>2, <1>3, PTL DEF Spec

-----------------------------------------------------------------------------
(* In the first demonstration every key is locked once, by its own thread. *)

ItemThere(t, n) == value[Item(t, n)] # Absent
Due(t, n) == n > Undone(t) \/ (pc[t] = "unlock" /\ n = left[t] + 1)

LEMMA LockableKept == UNCHANGED <<locked, late>> => Lockable' = Lockable
BY DEF Lockable

LEMMA LockableCommand ==
  ASSUME TypeInv, PlaceInv, NEW t \in Threads, Commands(t)
  PROVE  /\ Lockable' \subseteq Lockable \cup {key[t]}
         /\ pc[t] # "lock" => Lockable' \subseteq Lockable
<1>1. late' \subseteq late \cup {Command(t)}
  BY CommandLate
<1>2. /\ locked' \subseteq locked \cup {key[t]}
      /\ pc[t] # "lock" => locked' \subseteq locked
  BY DEF Commands, TryLock, Apply, Unlock, Get, store
<1>3. Command(t).do = pc[t] /\ Command(t).key = key[t]
  BY DEF Command
<1> QED
  BY <1>1, <1>2, <1>3 DEF Lockable

(* A worker's command, in what it does to its own item. *)
LEMMA ItemsCommand ==
  ASSUME TypeInv, PlaceInv, ItemsInv, NEW t \in Workers, Commands(t), demo = "writes"
  PROVE  ItemsInv'
<1> DEFINE m == left[t] + 1
<1> USE DemoAssumption
<1>1. /\ TypeInv' /\ Others(t) /\ Busy(t)
      /\ UNCHANGED <<demo, phase, left, chores>> /\ t # Main
      /\ t \in Threads /\ phase = "join" /\ pc'[Main] = pc[Main] /\ key'[Main] = key[Main]
  BY CommandTyped, BusyKey DEF Threads, program, Others
<1>2. /\ key[t] = Item(t, m) /\ put[t] = <<t, m>> /\ pc[t] # "get" /\ put[t] # Absent
      /\ m \in 1 .. Rounds.writes /\ left[t] \in Nat /\ Undone(t) = m
  <2>1. left[t] \in Nat /\ Undone(t) = m /\ Rounds.writes \in Nat
    BY <1>1 DEF TypeInv, Undone
  <2>2. /\ key[t] = Item(t, m) /\ put[t] = <<t, m>> /\ pc[t] # "get"
        /\ Undone(t) <= Rounds.writes
    BY <1>1 DEF PlaceInv, WorkerInv
  <2>3. put[t] # Absent
    BY <2>2 DEF Absent
  <2> QED
    BY <2>1, <2>2, <2>3
<1>3. \A u \in Workers \ {t} : Undone(u)' = Undone(u) /\ pc'[u] = pc[u] /\ left'[u] = left[u]
  BY <1>1, OtherWorkers DEF Others, Threads
<1>4. \A u \in Workers, n \in 1 .. Rounds.writes :
        /\ Item(u, n) \in Keys /\ Item(u, n) # SharedKey
        /\ Item(u, n) = key[t] => u = t /\ n = m
  BY <1>2, KeysThere
<1>5. /\ \A u \in Workers, n \in 1 .. Rounds.writes :
           Item(u, n) \in Lockable => n > left[u] /\ (pc[u] = "lock" => n > left[u] + 1)
      /\ SharedKey \notin locked \cup chores /\ value[SharedKey] = Absent
      /\ ~Busy(Main) /\ count.writeErrors + Cardinality(Failed) <= failures
      /\ failures = 0 => \A u \in Workers, n \in 1 .. Rounds.writes :
                           Due(u, n) => ItemThere(u, n)
  BY <1>1 DEF ItemsInv, Due, ItemThere, PlaceInv, MainInv
<1>6. /\ count.writeErrors \in Nat /\ failures \in Nat /\ Cardinality(Failed) \in Nat
      /\ count \in CountTypes
  BY ConfirmedFinite DEF TypeInv, CountTypes
<1>0. /\ Lockable' \subseteq Lockable \cup {key[t]} /\ locked \subseteq Lockable
      /\ pc[t] # "lock" => Lockable' \subseteq Lockable
  BY <1>1, LockableCommand DEF Lockable
<1>7. ASSUME \A u \in Workers, n \in 1 .. Rounds.writes :
               Item(u, n) \in Lockable' =>
                 n > left[u] /\ (pc'[u] = "lock" => n > left[u] + 1),
             SharedKey \notin locked', value'[SharedKey] = Absent,
             count'.writeErrors + Cardinality(Failed') <= failures',
             failures' = 0 => \A u \in Workers, n \in 1 .. Rounds.writes :
                                Due(u, n)' => ItemThere(u, n)'
      PROVE  ItemsInv'
  BY <1>1, <1>5, <1>7 DEF ItemsInv, Due, ItemThere, Busy
<1>8. CASE TryLock(t)
  <2>1. key[t] \notin locked /\ pc[t] = "lock" /\ UNCHANGED value
    BY <1>0, <1>1, <1>2, <1>5, <1>8, LockEffect
  <2>2. pc'[t] \in {"apply", "between"} /\ locked' \in {locked, locked \cup {key[t]}}
        /\ \/ pc'[t] = "apply" /\ UNCHANGED <<failures, count>>
           \/ failures' = failures + 1 /\ Adds("writeErrors")
    BY <1>1, <1>8, <2>1, LockEffect
  <2>3. Failed' = Failed
    BY <1>1, <2>1, <2>2, ConfirmedSame
  <2>4. count'.writeErrors + Cardinality(Failed') <= failures'
    <3>1. Adds("writeErrors") => count'["writeErrors"] = count["writeErrors"] + 1
      BY <1>6, AddsTyped
    <3> QED
      BY <1>5, <1>6, <2>2, <2>3, <3>1
  <2>5. \A u \in Workers, n \in 1 .. Rounds.writes :
          Item(u, n) \in Lockable' => n > left[u] /\ (pc'[u] = "lock" => n > left[u] + 1)
    BY <1>0, <1>2, <1>3, <1>4, <1>5, <2>2
  <2>6. ASSUME failures' = 0, NEW u \in Workers, NEW n \in 1 .. Rounds.writes, Due(u, n)'
        PROVE  ItemThere(u, n)'
    <3>1. pc'[t] = "apply" /\ failures = 0
      BY <1>6, <2>2, <2>6
    <3>2. Undone(t)' = Undone(t)
      BY <1>1, <3>1 DEF Undone, Busy, Sending
    <3>3. Due(u, n)
      BY <1>1, <1>3, <2>6, <3>1, <3>2 DEF Due
    <3> QED
      BY <1>5, <2>1, <3>1, <3>3 DEF ItemThere
  <2> QED
    BY <1>2, <1>4, <1>5, <1>7, <2>1, <2>2, <2>4, <2>5, <2>6
<1>9. CASE Apply(t)
  <2>1. /\ pc[t] = "apply" /\ pc'[t] = "unlock" /\ UNCHANGED <<locked, count>>
        /\ \/ UNCHANGED failures /\ Executes(key[t], put[t]) /\ ok'[t]
           \/ failures' = failures + 1 /\ ~ok'[t] /\ UNCHANGED value
    BY <1>1, <1>2, <1>9, ApplyEffect
  <2>2. Executes(key[t], put[t]) => /\ value'[key[t]] = put[t]
                                    /\ \A k \in Keys \ {key[t]} : value'[k] = value[k]
    BY <1>2, <1>4 DEF Executes, TypeInv
  <2>3. value'[SharedKey] = Absent
    BY <1>2, <1>4, <1>5, <2>1, <2>2, KeysThere
  <2>4. count'.writeErrors + Cardinality(Failed') <= failures'
    <3>1. /\ ok'[t] => Failed' = Failed
          /\ ~ok'[t] => Cardinality(Failed') = Cardinality(Failed) + 1
      BY <1>1, <2>1, ConfirmedApply
    <3> QED
      BY <1>5, <1>6, <2>1, <3>1
  <2>5. \A u \in Workers, n \in 1 .. Rounds.writes :
          Item(u, n) \in Lockable' => n > left[u] /\ (pc'[u] = "lock" => n > left[u] + 1)
    BY <1>0, <1>2, <1>3, <1>4, <1>5, <2>1
  <2>6. ASSUME failures' = 0, NEW u \in Workers, NEW n \in 1 .. Rounds.writes, Due(u, n)'
        PROVE  ItemThere(u, n)'
    <3>1. failures = 0 /\ Executes(key[t], put[t])
      BY <1>6, <2>1, <2>6
    <3>2. Undone(t)' = Undone(t)
      BY <1>1, <2>1 DEF Undone, Busy, Sending
    <3>3. CASE u = t /\ n = m
      BY <1>2, <2>2, <3>1, <3>3 DEF ItemThere
    <3>4. CASE ~(u = t /\ n = m)
      <4>1. Due(u, n)
        BY <1>1, <1>3, <2>6, <3>2, <3>4 DEF Due
      <4> QED
        BY <1>4, <1>5, <2>2, <3>1, <3>4, <4>1 DEF ItemThere
    <3> QED
      BY <3>3, <3>4
  <2> QED
    BY <1>5, <1>7, <2>1, <2>3, <2>4, <2>5, <2>6
<1>10. CASE Unlock(t)
  <2>1. /\ pc[t] = "unlock" /\ pc'[t] = "between" /\ UNCHANGED value
        /\ locked' \subseteq locked /\ failures' \in {failures, failures + 1}
        /\ Adds(IF ok[t] THEN "writes" ELSE "writeErrors")
    BY <1>1, <1>10, UnlockEffect
  <2>2. count'.writeErrors + Cardinality(Failed') <= failures'
    <3>1. CASE ok[t]
      <4>1. count'["writeErrors"] = count["writeErrors"] /\ Failed' = Failed
        BY <1>1, <1>6, <2>1, <3>1, AddsTyped, ConfirmedUnlock
      <4> QED
        BY <1>5, <1>6, <2>1, <4>1
    <3>2. CASE ~ok[t]
      <4>1. Adds("writeErrors")
        BY <2>1, <3>2
      <4>2. count'["writeErrors"] = count["writeErrors"] + 1
        BY <1>6, <4>1, AddsTyped
      <4>3. Cardinality(Failed') = Cardinality(Failed) - 1
        BY <1>1, <2>1, <3>2, ConfirmedUnlock
      <4> QED
        BY <1>5, <1>6, <2>1, <4>2, <4>3
    <3> QED
      BY <3>1, <3>2
  <2>3. \A u \in Workers, n \in 1 .. Rounds.writes :
          Item(u, n) \in Lockable' => n > left[u] /\ (pc'[u] = "lock" => n > left[u] + 1)
    BY <1>0, <1>3, <1>5, <2>1
  <2>4. ASSUME failures' = 0, NEW u \in Workers, NEW n \in 1 .. Rounds.writes, Due(u, n)'
        PROVE  ItemThere(u, n)'
    <3>1. failures = 0
      BY <1>6, <2>1, <2>4
    <3>2. Due(u, n)
      <4>1. CASE u = t
        <5>1. Undone(t)' = left[t]
          BY <1>1, <1>2, <2>1 DEF Undone, Busy, Sending
        <5>2. n > left[t]
          BY <2>1, <2>4, <4>1, <5>1 DEF Due
        <5> QED
          BY <1>2, <2>1, <4>1, <5>2 DEF Due
      <4>2. CASE u # t
        BY <1>3, <2>4, <4>2 DEF Due
      <4> QED
        BY <4>1, <4>2
    <3> QED
      BY <1>5, <2>1, <3>1, <3>2 DEF ItemThere
  <2> QED
    BY <1>5, <1>7, <2>1, <2>2, <2>3, <2>4
<1>11. ~Get(t)
  BY <1>2 DEF Get
<1> QED
  BY <1>8, <1>9, <1>10, <1>11 DEF Commands

(* A command that goes on keeps its key. *)
LEMMA KeyKept ==
  ASSUME TypeInv, NEW t \in Threads, Commands(t)
  PROVE  Busy(t)' => key'[t] = key[t]
<1>1. ASSUME NEW success \in BOOLEAN, Ends(t, success) PROVE ~Busy(t)'
  BY <1>1, EndsTyped DEF Busy, Sending
<1>2. CASE TryLock(t)
  BY <1>1, <1>2 DEF TryLock, request
<1>3. CASE Apply(t)
  BY <1>3 DEF Apply, request
<1>4. CASE Unlock(t)
  BY <1>1, <1>4 DEF Unlock, TypeInv
<1>5. CASE Get(t)
  BY <1>1, <1>5 DEF Get
<1> QED
  BY <1>2, <1>3, <1>4, <1>5 DEF Commands

(* Main's command reads an item, or erases one. *)
LEMMA ItemsMain ==
  ASSUME TypeInv, PlaceInv, ItemsInv, Commands(Main), demo = "writes"
  PROVE  ItemsInv'
<1> USE DemoAssumption
<1>1. /\ Main \in Threads /\ Others(Main) /\ Busy(Main) /\ key[Main] \in Keys
      /\ UNCHANGED <<demo, phase, left, chores, count>> /\ key[Main] # SharedKey
  BY CommandTyped, BusyKey, MainCounts DEF Threads, program, ItemsInv
<1>2. \A u \in Workers : /\ pc'[u] = pc[u] /\ ok'[u] = ok[u]
                         /\ Undone(u)' = Undone(u) /\ u # Main
  BY <1>1 DEF Others, Threads, Undone, Busy
<1>3. Failed' = Failed
  BY <1>2, ConfirmedKept
<1>4. Busy(Main)' => key'[Main] # SharedKey
  BY <1>1, KeyKept
<1>5. /\ SharedKey \notin locked \cup chores /\ value[SharedKey] = Absent
      /\ count.writeErrors + Cardinality(Failed) <= failures
  BY DEF ItemsInv
<1>6. failures \in Nat /\ count.writeErrors \in Nat /\ Cardinality(Failed) \in Nat
  BY ConfirmedFinite DEF TypeInv
<1>7. CASE phase = "check" /\ pc[Main] = "get" /\ key[Main] \in Items
  <2>1. Get(Main)
    BY <1>7 DEF Commands, TryLock, Apply, Unlock
  <2>2. /\ UNCHANGED <<value, locked>> /\ failures' \in {failures, failures + 1}
        /\ \E success \in BOOLEAN :
             /\ ok'[Main] <=> success
             /\ ~success => value[key[Main]] = Absent \/ failures' = failures + 1
    BY <1>1, <2>1, GetEffect
  <2>3. failures' = 0 => failures = 0 /\ failures' # failures + 1
    BY <1>6, <2>2
  <2>4. ASSUME failures = 0
        PROVE  /\ value[key[Main]] # Absent
               /\ \A t \in Workers, n \in 1 .. Rounds.writes :
                    n > Undone(t) \/ (pc[t] = "unlock" /\ n = left[t] + 1)
                      => value[Item(t, n)] # Absent
    <3>1. \A t \in Workers, n \in 1 .. Rounds.writes :
            n > Undone(t) \/ (pc[t] = "unlock" /\ n = left[t] + 1)
              => value[Item(t, n)] # Absent
      BY <1>7, <2>4 DEF ItemsInv
    <3>2. PICK t \in Workers, n \in 1 .. Rounds.writes : key[Main] = Item(t, n)
      BY <1>7 DEF Items
    <3>3. Undone(t) = 0
      BY <1>7 DEF PlaceInv, WorkerInv, Undone, Busy, Sending
    <3>4. n > Undone(t)
      BY <3>3
    <3> QED
      BY <3>1, <3>2, <3>4
  <2>5. failures' = 0 => ok'[Main]
    BY <2>2, <2>3, <2>4
  <2>6. count'.writeErrors + Cardinality(Failed') <= failures'
    BY <1>1, <1>3, <1>5, <1>6, <2>2
  <2> QED
    BY <1>1, <1>2, <1>4, <1>5, <1>7, <2>2, <2>3, <2>4, <2>5, <2>6 DEF ItemsInv
<1>8. CASE phase = "clean"
  <2>1. value'[SharedKey] = Absent
    <3>1. SharedKey \in Keys
      BY KeysThere
    <3> QED
      BY <1>1, <1>5, <3>1, CommandWrites DEF TypeInv
  <2>2. SharedKey \notin locked' /\ failures' \in {failures, failures + 1}
    <3>1. TryLock(Main) => /\ locked' \subseteq locked \cup {key[Main]}
                           /\ failures' \in {failures, failures + 1}
      BY <1>1, LockEffect
    <3>2. Apply(Main) => UNCHANGED locked /\ failures' \in {failures, failures + 1}
      BY <1>1, ApplyEffect
    <3>3. Unlock(Main) => locked' \subseteq locked /\ failures' \in {failures, failures + 1}
      BY <1>1, UnlockEffect
    <3>4. Get(Main) => UNCHANGED locked /\ failures' \in {failures, failures + 1}
      BY <1>1, GetEffect
    <3> QED
      BY <1>1, <1>5, <3>1, <3>2, <3>3, <3>4 DEF Commands
  <2>3. count'.writeErrors + Cardinality(Failed') <= failures'
    BY <1>1, <1>3, <1>5, <1>6, <2>2
  <2> QED
    BY <1>1, <1>4, <1>5, <1>8, <2>1, <2>2, <2>3 DEF ItemsInv
<1> QED
  BY <1>1, <1>7, <1>8 DEF PlaceInv, MainInv

(* A worker between its operations. *)
LEMMA ItemsBetween ==
  ASSUME TypeInv, PlaceInv, ItemsInv, NEW t \in Workers, WritesItem(t) \/ Finishes(t),
         demo = "writes"
  PROVE  ItemsInv'
<1> USE DemoAssumption
<1>1. /\ Others(t) /\ pc[t] = "between" /\ phase = "join" /\ t # Main /\ t \in Threads
      /\ UNCHANGED <<demo, phase, locked, late, value, failures, chores>>
      /\ count'.writeErrors = count.writeErrors
      /\ pc'[Main] = pc[Main] /\ key'[Main] = key[Main]
  <2>1. Others(t) /\ t \in Threads /\ t # Main /\ Main \in Threads
    BY RoundPlaced, FinishPlaced DEF Threads
  <2>2. /\ pc[t] = "between"
        /\ UNCHANGED <<demo, phase, locked, late, value, failures, chores>>
        /\ count' = count \/ count' = [count EXCEPT !.successful = @ + local[t]]
    BY DEF WritesItem, Finishes, Round, program, store
  <2>3. phase = "join"
    BY <2>2 DEF PlaceInv, WorkerInv
  <2>4. count'.writeErrors = count.writeErrors
    BY <2>2 DEF TypeInv
  <2> QED
    BY <2>1, <2>2, <2>3, <2>4 DEF Others
<1>2. /\ \/ pc'[t] = "lock" /\ left'[t] = left[t] - 1
         \/ pc'[t] = "done" /\ left'[t] = left[t]
      /\ left[t] \in Nat
  <2>1. WritesItem(t) => pc'[t] = "lock" /\ left'[t] = left[t] - 1
    BY <1>1 DEF WritesItem, Round, Begins, Goes, TypeInv
  <2>2. Finishes(t) => pc'[t] = "done" /\ left'[t] = left[t]
    BY <1>1 DEF Finishes, Goes, TypeInv
  <2> QED
    BY <2>1, <2>2 DEF TypeInv
<1>3. Undone(t)' = Undone(t)
  BY <1>1, <1>2 DEF Undone, Busy, Sending
<1>4. \A u \in Workers \ {t} : Undone(u)' = Undone(u) /\ pc'[u] = pc[u] /\ left'[u] = left[u]
  BY <1>1, OtherWorkers DEF Others, Threads
<1>5. Failed' = Failed
  BY <1>1, <1>2, ConfirmedSame
<1>6. ASSUME NEW u \in Workers, NEW n \in 1 .. Rounds.writes, Item(u, n) \in Lockable'
      PROVE  n > left'[u] /\ (pc'[u] = "lock" => n > left'[u] + 1)
  <2>1. n > left[u] /\ (pc[u] = "lock" => n > left[u] + 1)
    BY <1>1, <1>6, LockableKept DEF ItemsInv
  <2> QED
    BY <1>1, <1>2, <1>4, <2>1
<1>7. ASSUME failures' = 0, NEW u \in Workers, NEW n \in 1 .. Rounds.writes,
             n > Undone(u)' \/ (pc'[u] = "unlock" /\ n = left'[u] + 1)
      PROVE  value'[Item(u, n)] # Absent
  <2>1. n > Undone(u) \/ (pc[u] = "unlock" /\ n = left[u] + 1)
    BY <1>2, <1>3, <1>4, <1>7
  <2> QED
    BY <1>1, <1>7, <2>1 DEF ItemsInv
<1> QED
  BY <1>1, <1>5, <1>6, <1>7 DEF ItemsInv, Busy

LEMMA ItemsStep ==
  ASSUME TypeInv, PlaceInv, ItemsInv, [Next]_vars
  PROVE  ItemsInv'
<1> USE DemoAssumption
<1>1. CASE UNCHANGED vars
  BY <1>1, LockableKept
  DEF vars, program, store, request, work, ItemsInv, Busy, Undone, Failed
<1>2. demo' # demo => NextDemo
  <2>1. ASSUME NEW t \in Threads, Commands(t) PROVE UNCHANGED demo
    BY <2>1, CommandTyped DEF program
  <2>2. ASSUME NEW t \in Workers, WorkerStep(t) PROVE UNCHANGED demo
    BY <2>1, <2>2 DEF WorkerStep, Threads, WritesItem, UsesCounter, LoadsStore, Finishes,
       Round, program
  <2> QED
    BY <1>1, <2>1, <2>2 DEF Next, Monitor, MainStep, Initialize, Spawn, Join, Check, Clean,
       EraseNext, Enters, Over, vars, program, Threads, Lands
<1>3. CASE demo' # "writes"
  BY <1>3 DEF ItemsInv
<1>4. CASE demo # "writes"
  BY <1>2, <1>3, <1>4 DEF NextDemo
<1> SUFFICES ASSUME demo = "writes", demo' = "writes", Next PROVE ItemsInv'
  BY <1>1, <1>3, <1>4
<1>5. /\ SharedKey \notin locked \cup chores /\ value[SharedKey] = Absent
      /\ count.writeErrors + Cardinality(Failed) <= failures /\ failures \in Nat
      /\ Main \in Threads
  BY DEF ItemsInv, TypeInv, Threads
<1>6. ASSUME NEW t \in Workers, WorkerStep(t) PROVE ItemsInv'
  BY <1>6, ItemsCommand, ItemsBetween DEF WorkerStep, UsesCounter, LoadsStore
<1>7. CASE Monitor
  <2>1. /\ UNCHANGED <<demo, phase, chores, value, locked, late, pc, key, ok, left, failures>>
        /\ count' = count
    BY <1>7 DEF Monitor, store, request, work
  <2>2. /\ Failed' = Failed /\ Lockable' = Lockable
        /\ \A u \in Workers : Undone(u)' = Undone(u)
    BY <2>1, LockableKept DEF Failed, Undone, Busy
  <2> QED
    BY <2>1, <2>2 DEF ItemsInv, Busy
<1>8. CASE Commands(Main)
  BY <1>8, ItemsMain
<1>9. CASE Spawn
  <2>1. /\ phase = "spawn" /\ phase' = "join" /\ pc' = [t \in Threads |-> "between"]
        /\ UNCHANGED <<locked, value, failures, chores>> /\ count' = count
        /\ Lockable' = {} /\ count = Zero
    BY <1>9 DEF Spawn, Enters, store, MainAt, ItemsInv, PlaceInv, MainInv, LateInv, Lockable
  <2>2. \A t \in Workers : pc'[t] = "between" /\ Undone(t)' = Rounds.writes
    BY <1>9, SpawnPlaced
  <2>3. Failed' = {} /\ Cardinality({}) = 0 /\ ~Busy(Main)'
    BY <2>1, <2>2, FS_EmptySet DEF Failed, Busy, Sending, Threads
  <2>4. count'.writeErrors + Cardinality(Failed') <= failures'
    BY <1>5, <2>1, <2>3 DEF Zero
  <2>5. \A t \in Workers, n \in 1 .. Rounds.writes :
          ~(n > Undone(t)' \/ (pc'[t] = "unlock" /\ n = left'[t] + 1))
    BY <2>2
  <2> QED
    BY <1>5, <2>1, <2>3, <2>4, <2>5 DEF ItemsInv
<1>10. CASE Join \/ Clean
  <2>1. /\ UNCHANGED <<locked, value, failures, pc, key, left>> /\ count' = count
        /\ \/ phase = "join" /\ phase' = "check" /\ UNCHANGED chores /\ ok'[Main]
           \/ phase = "check" /\ phase' = "clean" /\ chores' = Items
        /\ \A u \in Workers : ok'[u] = ok[u]
    <3>1. CASE Join
      BY <3>1 DEF Join, MainAt, Enters, store, work, request, TypeInv, Threads
    <3>2. CASE Clean
      BY <3>2 DEF Clean, MainAt, Enters, store, work, request
    <3> QED
      BY <1>10, <3>1, <3>2
  <2>2. Failed' = Failed /\ SharedKey \notin chores'
    BY <1>5, <2>1, ConfirmedKept, KeysThere
  <2>3. \A t \in Workers : Undone(t)' = Undone(t)
    BY <2>1 DEF Undone, Busy
  <2> QED
    BY <1>5, <2>1, <2>2, <2>3 DEF ItemsInv, Busy
<1>11. CASE Check \/ EraseNext
  <2>1. /\ UNCHANGED <<locked, value, failures, left, phase, ok>> /\ count' = count
        /\ phase \in {"check", "clean"} /\ chores' \subseteq chores
    BY <1>11 DEF Check, EraseNext, MainAt, store, work
  <2>2. Others(Main)
    BY <1>11, MainPlaced
  <2>3. key'[Main] # SharedKey
    <3>1. PICK k \in Items \cup chores : key' = [key EXCEPT ![Main] = k]
      BY <1>11 DEF Check, EraseNext, Begins
    <3> QED
      BY <1>5, <3>1, KeysThere DEF TypeInv
  <2>4. \A u \in Workers : pc'[u] = pc[u] /\ Undone(u)' = Undone(u)
    BY <2>1, <2>2 DEF Others, Threads, Undone, Busy
  <2>5. Failed' = Failed
    BY <2>1, <2>4, ConfirmedKept
  <2> QED
    BY <1>5, <2>1, <2>3, <2>4, <2>5 DEF ItemsInv
<1>12. ~Initialize /\ ~NextDemo /\ ~Over
  BY DEF Initialize, NextDemo, Over, MainAt, PlaceInv, MainInv
<1>13. ASSUME NEW m \in late, Lands(m) PROVE ItemsInv'
  <2>1. /\ UNCHANGED <<demo, phase, chores, pc, key, ok, left, failures>> /\ count' = count
        /\ m.key \in Items /\ failures # 0 /\ phase # "spawn" /\ late' = late \ {m}
        /\ locked' \subseteq locked \cup {m.key} /\ (m.do # "lock" => locked' \subseteq locked)
        /\ UNCHANGED value \/ value' = [value EXCEPT ![m.key] = m.put]
    BY <1>13, LandsPlaced DEF program, request, work
  <2>2. /\ Failed' = Failed /\ Lockable' \subseteq Lockable
        /\ \A u \in Workers : Undone(u)' = Undone(u)
    BY <2>1 DEF Failed, Undone, Busy, Lockable
  <2>3. SharedKey \notin locked' /\ value'[SharedKey] = Absent
    BY <1>5, <2>1, KeysThere DEF TypeInv
  <2> QED
    BY <1>5, <2>1, <2>2, <2>3 DEF ItemsInv, Busy
<1> QED
  BY <1>6, <1>7, <1>8, <1>9, <1>10, <1>11, <1>12, <1>13 DEF Next, MainStep

LEMMA InitItems == Init => ItemsInv
<1> SUFFICES ASSUME Init PROVE ItemsInv
  OBVIOUS
<1>1. Failed = {} /\ Cardinality({}) = 0
  BY FS_EmptySet DEF Init, Failed, Threads
<1>2. SharedKey \in Keys /\ pc[Main] = "between"
  BY KeysThere DEF Init, Threads
<1> QED
  BY <1>1, <1>2 DEF Init, ItemsInv, Zero, Busy, Sending

(* Each key of the first demonstration has one thread: a write fails only  *)
(* with a command, and what is read back is there and is its own.          *)
THEOREM OwnKeysCorrect == Spec => []OwnKeysDoNotConflict
<1> DEFINE Inv == TypeInv /\ PlaceInv /\ ItemsInv
<1>1. Init => Inv
  BY InitPlaced, InitItems
<1>2. Inv /\ [Next]_vars => Inv'
  BY PlaceStep, ItemsStep
<1>3. ASSUME Inv PROVE OwnKeysDoNotConflict
  <2>1. \A t \in Workers, n \in 1 .. Rounds.writes : value[Item(t, n)] \in {Absent, <<t, n>>}
    BY <1>3 DEF PlaceInv, ValueInv
  <2>2. count.writeErrors \in Nat /\ Cardinality(Failed) \in Nat /\ failures \in Nat
    BY <1>3, ConfirmedFinite DEF TypeInv
  <2>3. demo = "writes" => /\ count.writeErrors <= failures
                           /\ phase = "check" /\ failures = 0 => ok[Main]
    BY <1>3, <2>2 DEF ItemsInv
  <2> QED
    BY <2>1, <2>3 DEF OwnKeysDoNotConflict
<1> QED
  BY <1>1, <1>2, <1>3, PTL DEF Spec

-----------------------------------------------------------------------------
(* In the second demonstration the counter counts the writes.              *)

(* What CounterInv says in the phase where the threads run. *)
CounterRuns ==
  /\ value[SharedKey] = Absent => \A t \in Writers : pc[t] \notin {"lock", "apply", "unlock"}
  /\ \A t \in Writers : pc[t] \in {"lock", "apply"} => put[t][1] <= Reports + failures + 1
  /\ value[SharedKey] = Absent => Reports = 0
  /\ \A m \in Overwrites : m.put \in Counters /\ m.put[1] <= Reports + failures
  /\ value[SharedKey] # Absent =>
       /\ value[SharedKey][1] <= Reports + failures
       /\ ~overlapped => value[SharedKey][1] >= Reports

LEMMA CounterRunning ==
  ASSUME demo = "shared", phase = "join"
  PROVE  CounterInv <=> CounterRuns
BY DEF CounterInv, CounterRuns, CounterCountsWrites, Reports

LEMMA CounterNumbers ==
  ASSUME TypeInv, PlaceInv
  PROVE  /\ Reports \in Nat /\ failures \in Nat /\ count \in CountTypes
         /\ count.writes \in Nat /\ Cardinality(Unlocking) \in Nat
         /\ value[SharedKey] # Absent => value[SharedKey] \in Counters
         /\ \A v \in Counters : v # Absent /\ v[1] \in Nat /\ v = <<v[1]>>
<1>1. Cardinality(Unlocking) \in Nat /\ count.writes \in Nat /\ count \in CountTypes
      /\ failures \in Nat
  BY ConfirmedFinite DEF TypeInv, CountTypes
<1>2. value[SharedKey] # Absent => value[SharedKey] \in Counters
  BY DEF PlaceInv, ValueInv
<1>3. \A v \in Counters : v # Absent /\ v[1] \in Nat /\ v = <<v[1]>>
  BY DEF Counters, Absent
<1> QED
  BY <1>1, <1>2, <1>3 DEF Reports

(* A worker's command. *)
LEMMA CounterCommand ==
  ASSUME TypeInv, PlaceInv, CounterInv, NEW t \in Workers, Commands(t), demo = "shared"
  PROVE  CounterInv'
<1> USE DemoAssumption
<1>1. /\ t \in Threads /\ t # Main /\ TypeInv' /\ PlaceInv' /\ Others(t) /\ Busy(t)
      /\ UNCHANGED <<demo, phase, left>> /\ phase = "join"
  BY CommandTyped, CommandPlaced, BusyKey DEF Threads, program
<1>2. key[t] = SharedKey /\ (pc[t] # "get" => t \in Writers /\ put[t] \in Counters)
  BY <1>1 DEF PlaceInv, WorkerInv
<1>3. CounterRuns
  BY <1>1, CounterRunning
<1>4. \A u \in Writers \ {t} : pc'[u] = pc[u] /\ put'[u] = put[u]
  BY <1>1 DEF Others, Threads, Workers
<1>5. \A u \in Writers : pc[u] \in {"lock", "apply"} => put[u] \in Counters
  BY <1>1 DEF PlaceInv, WorkerInv, Busy, Sending, Workers
<1>6. /\ Reports \in Nat /\ failures \in Nat /\ count \in CountTypes
      /\ count.writes \in Nat /\ Cardinality(Unlocking) \in Nat
      /\ value[SharedKey] # Absent => value[SharedKey] \in Counters
      /\ \A v \in Counters : v # Absent /\ v[1] \in Nat /\ v = <<v[1]>>
  BY CounterNumbers
<1>7. SUFFICES CounterRuns'
  BY <1>1 DEF CounterInv, CounterRuns, CounterCountsWrites, Reports
<1>0. ASSUME Reports' \in Nat, Reports' >= Reports
      PROVE  \A m \in Overwrites' : m.put \in Counters /\ m.put[1] <= Reports' + failures'
  <2>1. \/ late' = late /\ failures' \in {failures, failures + 1}
        \/ late' = late \cup {Command(t)} /\ failures' = failures + 1
    BY <1>1, CommandLate
  <2>2. /\ Command(t).do = pc[t] /\ Command(t).put = put[t]
        /\ failures' \in Nat /\ failures' >= failures
    BY <1>6, <2>1 DEF Command
  <2>3. ASSUME NEW m \in Overwrites
        PROVE  m.put \in Counters /\ m.put[1] <= Reports' + failures'
    <3>1. m.put \in Counters /\ m.put[1] <= Reports + failures /\ m.put[1] \in Nat
      BY <1>3, <1>6 DEF CounterRuns
    <3> QED
      BY <1>0, <1>6, <2>2, <3>1
  <2>4. ASSUME pc[t] = "apply", failures' = failures + 1
        PROVE  put[t] \in Counters /\ put[t][1] <= Reports' + failures'
    <3>1. /\ put[t] \in Counters /\ put[t][1] <= Reports + failures + 1 /\ put[t][1] \in Nat
      BY <1>2, <1>3, <1>6, <2>4 DEF CounterRuns
    <3> QED
      BY <1>0, <1>6, <2>4, <3>1
  <2> QED
    BY <2>1, <2>2, <2>3, <2>4 DEF Overwrites
<1>8. ASSUME UNCHANGED <<value, overlapped>>, Reports' = Reports,
             failures' \in {failures, failures + 1},
             pc'[t] \in {"lock", "apply", "unlock"} /\ t \in Writers => value[SharedKey] # Absent,
             pc'[t] \in {"lock", "apply"} /\ t \in Writers =>
               put'[t] \in Counters /\ put'[t][1] <= Reports + failures + 1
      PROVE  CounterRuns'
  <2>1. ASSUME NEW u \in Writers, pc'[u] \in {"lock", "apply"}
        PROVE  put'[u] \in Counters /\ put'[u][1] <= Reports + failures + 1
    <3>1. CASE u = t
      BY <1>8, <2>1, <3>1
    <3>2. CASE u # t
      BY <1>3, <1>4, <1>5, <2>1, <3>2 DEF CounterRuns
    <3> QED
      BY <3>1, <3>2
  <2>2. \A u \in Writers : pc'[u] \in {"lock", "apply"} => put'[u][1] <= Reports' + failures' + 1
    BY <1>6, <1>8, <2>1
  <2>3. value'[SharedKey] = Absent =>
          \A u \in Writers : pc'[u] \notin {"lock", "apply", "unlock"}
    BY <1>3, <1>4, <1>8 DEF CounterRuns
  <2>4. value'[SharedKey] # Absent =>
          /\ value'[SharedKey][1] <= Reports' + failures'
          /\ ~overlapped' => value'[SharedKey][1] >= Reports'
    BY <1>3, <1>6, <1>8 DEF CounterRuns
  <2>5. /\ value'[SharedKey] = Absent => Reports' = 0
        /\ \A m \in Overwrites' : m.put \in Counters /\ m.put[1] <= Reports' + failures'
    BY <1>0, <1>3, <1>6, <1>8 DEF CounterRuns
  <2> QED
    BY <2>2, <2>3, <2>4, <2>5 DEF CounterRuns
<1>9. CASE TryLock(t)
  <2>1. /\ pc[t] = "lock" /\ UNCHANGED <<value, overlapped>>
        /\ failures' \in {failures, failures + 1}
        /\ \/ pc'[t] = "apply" /\ UNCHANGED <<count, put>>
           \/ pc'[t] = "between" /\ Adds("writeErrors")
    BY <1>1, <1>9, LockEffect
  <2>2. Unlocking' = Unlocking
    BY <1>1, <2>1, ConfirmedSame
  <2>3. Adds("writeErrors") => count'["writes"] = count["writes"]
    BY <1>6, AddsTyped
  <2>4. Reports' = Reports
    BY <2>1, <2>2, <2>3 DEF Reports
  <2> QED
    BY <1>2, <1>3, <1>8, <2>1, <2>4 DEF CounterRuns
<1>10. CASE Unlock(t)
  <2>1. /\ pc[t] = "unlock" /\ pc'[t] = "between" /\ UNCHANGED <<value, overlapped>>
        /\ failures' \in {failures, failures + 1}
        /\ Adds(IF ok[t] THEN "writes" ELSE "writeErrors")
    BY <1>1, <1>10, UnlockEffect
  <2>2. Reports' = Reports
    <3>1. CASE ok[t]
      <4>1. count'["writes"] = count["writes"] + 1
        <5>1. Adds("writes")
          BY <2>1, <3>1
        <5> QED
          BY <1>6, <5>1, AddsTyped
      <4>2. Cardinality(Unlocking') = Cardinality(Unlocking) - 1
        BY <1>1, <1>2, <2>1, <3>1, ConfirmedUnlock
      <4> QED
        BY <1>6, <4>1, <4>2 DEF Reports
    <3>2. CASE ~ok[t]
      <4>1. count'["writes"] = count["writes"]
        <5>1. Adds("writeErrors")
          BY <2>1, <3>2
        <5> QED
          BY <1>6, <5>1, AddsTyped
      <4>2. Unlocking' = Unlocking
        BY <1>1, <2>1, <3>2, ConfirmedUnlock
      <4> QED
        BY <4>1, <4>2 DEF Reports
    <3> QED
      BY <3>1, <3>2
  <2> QED
    BY <1>8, <2>1, <2>2
<1>11. CASE Get(t)
  <2>1. /\ pc[t] = "get" /\ UNCHANGED <<value, overlapped>>
        /\ failures' \in {failures, failures + 1}
        /\ \/ /\ pc'[t] = "lock" /\ value[key[t]] # Absent
              /\ put'[t] = <<value[key[t]][1] + 1>> /\ UNCHANGED count
           \/ pc'[t] = "between" /\ (Adds("reads") \/ Adds("readErrors"))
    BY <1>1, <1>11, GetEffect
  <2>2. Unlocking' = Unlocking
    BY <1>1, <2>1, ConfirmedSame
  <2>3. Adds("reads") \/ Adds("readErrors") => count'["writes"] = count["writes"]
    BY <1>6, AddsTyped
  <2>4. Reports' = Reports
    BY <2>1, <2>2, <2>3 DEF Reports
  <2>5. ASSUME pc'[t] = "lock"
        PROVE  /\ value[SharedKey] # Absent /\ put'[t] \in Counters
               /\ put'[t][1] <= Reports + failures + 1
    <3>1. /\ value[SharedKey] # Absent /\ put'[t] = <<value[SharedKey][1] + 1>>
          /\ value[SharedKey][1] <= Reports + failures /\ value[SharedKey][1] \in Nat
      BY <1>2, <1>3, <1>6, <2>1, <2>5 DEF CounterRuns
    <3>2. put'[t] \in Counters
      BY <3>1 DEF Counters
    <3> QED
      BY <1>6, <3>1, <3>2
  <2> QED
    BY <1>8, <2>1, <2>4, <2>5
<1>12. CASE Apply(t)
  <2>1. /\ pc[t] = "apply" /\ pc'[t] = "unlock" /\ UNCHANGED <<count, put>>
        /\ \/ /\ UNCHANGED failures /\ Executes(key[t], put[t])
              /\ put[t] # Absent => ok'[t]
           \/ failures' = failures + 1 /\ ~ok'[t] /\ UNCHANGED <<value, overlapped>>
    BY <1>1, <1>12, ApplyEffect
  <2>2. /\ t \in Writers /\ put[t] \in Counters /\ put[t][1] \in Nat /\ put[t] # Absent
        /\ put[t][1] <= Reports + failures + 1
        /\ value[SharedKey] # Absent /\ value[SharedKey][1] \in Nat
        /\ value[SharedKey][1] <= Reports + failures
        /\ ~overlapped => value[SharedKey][1] >= Reports
    BY <1>2, <1>3, <1>6, <2>1 DEF CounterRuns
  <2>3. /\ ok'[t] => Reports' = Reports + 1
        /\ ~ok'[t] => Reports' = Reports
    <3>1. /\ ok'[t] => Cardinality(Unlocking') = Cardinality(Unlocking) + 1
          /\ ~ok'[t] => Unlocking' = Unlocking
      BY <1>1, <2>1, <2>2, ConfirmedApply
    <3> QED
      BY <1>6, <2>1, <3>1 DEF Reports
  <2>4. Executes(key[t], put[t]) =>
          /\ value'[SharedKey] = put[t]
          /\ ~overlapped' => ~overlapped /\ put[t][1] = value[SharedKey][1] + 1
    <3>1. Executes(key[t], put[t]) => value'[SharedKey] = put[t]
      BY <1>2, KeysThere DEF Executes, TypeInv
    <3>2. Executes(key[t], put[t]) /\ ~overlapped' => ~overlapped /\ <<value[SharedKey][1] + 1>> = put[t]
      BY <1>1, <1>2, <2>2 DEF Executes, Overlaps
    <3> QED
      BY <3>1, <3>2
  <2>5. /\ value'[SharedKey] # Absent
        /\ value'[SharedKey][1] <= Reports' + failures'
        /\ ~overlapped' => value'[SharedKey][1] >= Reports'
    <3>1. CASE UNCHANGED failures /\ Executes(key[t], put[t]) /\ ok'[t]
      BY <1>6, <2>2, <2>3, <2>4, <3>1
    <3>2. CASE failures' = failures + 1 /\ ~ok'[t] /\ UNCHANGED <<value, overlapped>>
      BY <1>6, <2>2, <2>3, <3>2
    <3> QED
      BY <2>1, <2>2, <3>1, <3>2
  <2>6. ASSUME NEW u \in Writers, pc'[u] \in {"lock", "apply"}
        PROVE  put'[u][1] <= Reports' + failures' + 1
    <3>1. u # t /\ pc[u] \in {"lock", "apply"}
      BY <1>4, <2>1, <2>6
    <3>2. put'[u] \in Counters /\ put'[u][1] <= Reports + failures + 1
      BY <1>3, <1>4, <1>5, <3>1 DEF CounterRuns
    <3>3. Reports' >= Reports /\ failures' >= failures /\ Reports' \in Nat /\ failures' \in Nat
      BY <1>6, <2>1, <2>3
    <3> QED
      BY <1>6, <3>2, <3>3
  <2>7. \A m \in Overwrites' : m.put \in Counters /\ m.put[1] <= Reports' + failures'
    BY <1>0, <1>6, <2>3
  <2> QED
    BY <2>5, <2>6, <2>7 DEF CounterRuns
<1> QED
  BY <1>9, <1>10, <1>11, <1>12 DEF Commands

LEMMA CounterStep ==
  ASSUME TypeInv, PlaceInv, ItemsInv, CounterInv, [Next]_vars
  PROVE  CounterInv'
<1> USE DemoAssumption
<1>1. CASE UNCHANGED vars
  BY <1>1 DEF vars, program, store, request, work, CounterInv, CounterCountsWrites, Unlocking,
     Reports, Overwrites
<1>2. CASE demo' # "shared"
  BY <1>2 DEF CounterInv, CounterCountsWrites
<1>3. CASE NextDemo
  <2>1. demo' = "shared" => demo = "writes" /\ phase' = "init" /\ UNCHANGED store
    BY <1>3 DEF NextDemo
  <2> QED
    BY <1>2, <2>1 DEF ItemsInv, CounterInv, CounterCountsWrites, store
<1> SUFFICES ASSUME demo' = "shared", Next, ~NextDemo PROVE CounterInv'
  BY <1>1, <1>2, <1>3
<1>4. demo = "shared"
  <2>1. ASSUME NEW t \in Threads, Commands(t) PROVE UNCHANGED demo
    BY <2>1, CommandTyped DEF program
  <2>2. ASSUME NEW t \in Workers, WorkerStep(t) PROVE UNCHANGED demo
    BY <2>1, <2>2 DEF WorkerStep, Threads, WritesItem, UsesCounter, LoadsStore, Finishes,
       Round, program
  <2> QED
    BY <2>1, <2>2 DEF Next, Monitor, MainStep, Initialize, Spawn, Join, Check, Clean,
       EraseNext, Enters, Over, vars, program, Threads, Lands
<1>5. /\ Reports \in Nat /\ failures \in Nat
      /\ value[SharedKey] # Absent => value[SharedKey] \in Counters
      /\ \A v \in Counters : v # Absent /\ v[1] \in Nat /\ v = <<v[1]>>
  BY CounterNumbers
<1>6. CASE phase' = "clean"
  BY <1>6 DEF CounterInv, CounterCountsWrites
<1>7. CASE Monitor
  <2>1. /\ UNCHANGED <<demo, phase, value, locked, late, pc, put, ok, overlapped, failures>>
        /\ count' = count
    BY <1>7 DEF Monitor, store, request, work
  <2>2. Unlocking' = Unlocking
    BY <2>1 DEF Unlocking
  <2> QED
    BY <2>1, <2>2 DEF CounterInv, CounterCountsWrites, Reports, Overwrites
<1>8. ASSUME NEW t \in Workers, UsesCounter(t) \/ Finishes(t) PROVE CounterInv'
  <2>1. /\ pc[t] = "between" /\ UNCHANGED <<demo, phase, value, late, overlapped, failures>>
        /\ pc'[t] \in {"get", "done"}
        /\ count' = count \/ count' = [count EXCEPT !.successful = @ + local[t]]
    BY <1>8 DEF UsesCounter, Finishes, Round, Begins, Goes, TypeInv, Threads, program, store
  <2>2. Others(t) /\ phase = "join"
    BY <1>8, <2>1, RoundPlaced, FinishPlaced DEF PlaceInv, WorkerInv
  <2>3. Unlocking' = Unlocking /\ count'.writes = count.writes
    BY <2>1, <2>2, ConfirmedSame DEF TypeInv
  <2>4. \A u \in Writers : pc'[u] \in {"lock", "apply", "unlock"} =>
          pc'[u] = pc[u] /\ put'[u] = put[u]
    BY <2>1, <2>2 DEF Others, Threads, Workers
  <2> QED
    BY <2>1, <2>2, <2>3, <2>4 DEF CounterInv, CounterCountsWrites, Reports, Overwrites
<1>9. ASSUME NEW t \in Workers, WorkerStep(t) PROVE CounterInv'
  BY <1>4, <1>8, <1>9, CounterCommand DEF WorkerStep, WritesItem, LoadsStore
<1>10. CASE Commands(Main)
  <2>1. /\ Main \in Threads /\ Others(Main) /\ Busy(Main) /\ key[Main] \in Keys
        /\ UNCHANGED <<demo, phase, count>>
    BY <1>10, CommandTyped, BusyKey, MainCounts DEF Threads, program
  <2>2. CASE phase = "spawn" /\ put[Main] = <<0>>
    <3>1. value'[SharedKey] \in {Absent, <<0>>}
      <4>1. value[SharedKey] \in {Absent, <<0>>}
        BY <1>4, <2>2 DEF CounterInv
      <4>2. value'[SharedKey] \in {value[SharedKey], <<0>>}
        BY <1>10, <2>1, <2>2, CommandWrites, KeysThere DEF TypeInv
      <4> QED
        BY <4>1, <4>2
    <3>2. \A m \in Overwrites' : m.put = <<0>>
      <4>1. late' \subseteq late \cup {Command(Main)} /\ Command(Main).put = <<0>>
        BY <1>10, <2>1, <2>2, CommandLate DEF Command
      <4> QED
        BY <1>4, <2>2, <4>1 DEF CounterInv, Overwrites
    <3> QED
      BY <2>1, <2>2, <3>1, <3>2 DEF CounterInv, CounterCountsWrites
  <2>3. CASE phase = "check" /\ pc[Main] = "get"
    <3>1. Get(Main)
      BY <1>10, <2>3 DEF Commands, TryLock, Apply, Unlock
    <3>2. UNCHANGED <<value, late, overlapped>> /\ failures' \in {failures, failures + 1}
      BY <2>1, <3>1, GetEffect
    <3>3. \A u \in Workers : pc'[u] = pc[u] /\ ok'[u] = ok[u]
      BY <2>1 DEF Others, Threads
    <3>4. Unlocking' = Unlocking
      BY <3>3, ConfirmedKept
    <3>5. value[SharedKey] # Absent =>
            /\ value[SharedKey][1] <= Reports + failures
            /\ ~overlapped => value[SharedKey][1] >= Reports
      BY <1>4, <2>3 DEF CounterInv, CounterCountsWrites, Reports
    <3>6. Reports' = Reports
      BY <2>1, <3>4 DEF Reports
    <3>7. value'[SharedKey] # Absent =>
            /\ value'[SharedKey][1] <= Reports' + failures'
            /\ ~overlapped' => value'[SharedKey][1] >= Reports'
      BY <1>5, <3>2, <3>5, <3>6
    <3>8. /\ value'[SharedKey] = Absent => Reports' = 0
          /\ \A m \in Overwrites' : m.put \in Counters /\ m.put[1] <= Reports' + failures'
      <4>1. Overwrites' = Overwrites
        BY <3>2 DEF Overwrites
      <4>2. /\ value[SharedKey] = Absent => Reports = 0
            /\ \A m \in Overwrites : m.put \in Counters /\ m.put[1] <= Reports + failures
        BY <1>4, <2>3 DEF CounterInv
      <4> QED
        BY <1>5, <3>2, <3>6, <4>1, <4>2
    <3> QED
      BY <2>1, <2>3, <3>7, <3>8 DEF CounterInv, CounterCountsWrites, Reports
  <2>4. CASE phase = "clean"
    BY <1>6, <2>1, <2>4
  <2> QED
    BY <2>1, <2>2, <2>3, <2>4 DEF PlaceInv, MainInv
<1>11. CASE Initialize
  <2>1. phase = "init" /\ phase' = "spawn" /\ UNCHANGED <<value, late>>
    BY <1>11 DEF Initialize, MainAt, Enters, store
  <2>2. Overwrites' = {}
    BY <2>1, KeysThere DEF Overwrites, PlaceInv, LateInv
  <2> QED
    BY <1>4, <2>1, <2>2 DEF CounterInv, CounterCountsWrites
<1>12. CASE Spawn
  <2>1. /\ phase = "spawn" /\ phase' = "join" /\ UNCHANGED <<value, late, failures>>
        /\ count' = count /\ count = Zero
    BY <1>12 DEF Spawn, MainAt, Enters, store, PlaceInv, MainInv
  <2>2. \A u \in Writers : pc'[u] = "between"
    BY <1>12, SpawnPlaced DEF Workers
  <2>3. Unlocking' = {} /\ Cardinality({}) = 0
    BY <2>2, FS_EmptySet DEF Unlocking
  <2>4. Reports' = 0 /\ value'[SharedKey] \in {Absent, <<0>>}
    BY <1>4, <2>1, <2>3 DEF Reports, Zero, CounterInv
  <2>5. value'[SharedKey] # Absent =>
          /\ value'[SharedKey][1] <= Reports' + failures'
          /\ ~overlapped' => value'[SharedKey][1] >= Reports'
    BY <1>5, <2>1, <2>4
  <2>6. \A m \in Overwrites' : m.put \in Counters /\ m.put[1] <= Reports' + failures'
    <3>1. \A m \in Overwrites' : m.put = <<0>>
      BY <1>4, <2>1 DEF CounterInv, Overwrites
    <3>2. <<0>> \in Counters /\ <<0>>[1] = 0
      BY DEF Counters
    <3>3. 0 <= Reports' + failures'
      BY <1>5, <2>1, <2>4
    <3> QED
      BY <3>1, <3>2, <3>3
  <2> QED
    BY <2>1, <2>2, <2>4, <2>5, <2>6 DEF CounterInv, CounterCountsWrites, Reports
<1>13. CASE Join
  <2>1. /\ phase = "join" /\ phase' = "check"
        /\ UNCHANGED <<demo, value, late, failures, overlapped, pc>>
        /\ count' = count /\ \A u \in Workers : ok'[u] = ok[u]
    BY <1>13 DEF Join, MainAt, Enters, store, work, TypeInv, Threads
  <2>2. Unlocking' = Unlocking
    BY <2>1, ConfirmedKept
  <2> QED
    BY <2>1, <2>2 DEF CounterInv, CounterCountsWrites, Reports, Overwrites
<1>14. CASE Check
  <2>1. /\ phase = "check" /\ phase' = "check"
        /\ UNCHANGED <<demo, value, late, failures, overlapped, ok>> /\ count' = count
    BY <1>14 DEF Check, MainAt, store, work
  <2>2. \A u \in Workers : pc'[u] = pc[u] /\ ok'[u] = ok[u]
    BY <1>14, <2>1, MainPlaced DEF Others, Threads
  <2>3. Unlocking' = Unlocking
    BY <2>2, ConfirmedKept
  <2> QED
    BY <2>1, <2>3 DEF CounterInv, CounterCountsWrites, Reports, Overwrites
<1>15. CASE Clean \/ EraseNext
  BY <1>6, <1>15 DEF Clean, EraseNext, Enters, MainAt
<1>16. ~Over
  BY <1>4 DEF Over
<1>17. ASSUME NEW m \in late, Lands(m) PROVE CounterInv'
  <2>1. /\ UNCHANGED <<demo, phase, pc, put, ok, failures>> /\ count' = count
        /\ late' \subseteq late
        /\ phase = "init" => m.key \in Items
        /\ locked' \subseteq locked \cup {m.key}
    BY <1>17, LandsPlaced DEF program, request, work
  <2>2. Reports' = Reports /\ Overwrites' \subseteq Overwrites
    BY <2>1 DEF Reports, Unlocking, Overwrites
  <2>3. \/ m \notin Overwrites /\ value'[SharedKey] = value[SharedKey]
           /\ (~overlapped' => ~overlapped)
        \/ /\ m \in Overwrites /\ value'[SharedKey] = m.put
           /\ ~overlapped' =>
                ~overlapped /\ (value[SharedKey] # Absent => m.put = <<value[SharedKey][1] + 1>>)
    BY <1>4, <1>17, KeysThere DEF Lands, Executes, Overlaps, Overwrites, TypeInv
  <2>4. CASE phase = "init"
    <3>1. SharedKey \notin locked' /\ m \notin Overwrites
      BY <1>4, <2>1, <2>4, KeysThere DEF CounterInv, Overwrites
    <3> QED
      BY <1>4, <2>1, <2>3, <2>4, <3>1 DEF CounterInv, CounterCountsWrites
  <2>5. CASE phase = "spawn"
    BY <1>4, <2>1, <2>2, <2>3, <2>5 DEF CounterInv, CounterCountsWrites
  <2>6. CASE phase \in {"join", "check"}
    <3>1. /\ value[SharedKey] = Absent => Reports = 0
          /\ \A l \in Overwrites : l.put \in Counters /\ l.put[1] <= Reports + failures
          /\ value[SharedKey] # Absent => /\ value[SharedKey][1] <= Reports + failures
                                          /\ ~overlapped => value[SharedKey][1] >= Reports
      BY <1>4, <2>6 DEF CounterInv, CounterCountsWrites, Reports
    <3>2. m \in Overwrites => m.put \in Counters /\ m.put[1] \in Nat /\ m.put # Absent
      BY <1>5, <3>1
    <3>3. /\ value'[SharedKey] = Absent => Reports' = 0
          /\ value'[SharedKey] # Absent => /\ value'[SharedKey][1] <= Reports' + failures'
                                           /\ ~overlapped' => value'[SharedKey][1] >= Reports'
      <4>1. CASE m \notin Overwrites
        BY <2>1, <2>2, <2>3, <3>1, <4>1
      <4>2. CASE m \in Overwrites
        <5>1. /\ value'[SharedKey] = m.put /\ m.put \in Counters /\ m.put[1] \in Nat
              /\ m.put[1] <= Reports + failures /\ m.put # Absent
          BY <2>3, <3>1, <3>2, <4>2
        <5>2. ASSUME ~overlapped' PROVE m.put[1] >= Reports
          <6>1. ~overlapped /\ (value[SharedKey] # Absent => m.put = <<value[SharedKey][1] + 1>>)
            BY <2>3, <4>2, <5>2
          <6>2. CASE value[SharedKey] = Absent
            BY <3>1, <5>1, <6>2
          <6>3. CASE value[SharedKey] # Absent
            <7>1. m.put[1] = value[SharedKey][1] + 1 /\ value[SharedKey][1] >= Reports
                  /\ value[SharedKey][1] \in Nat
              BY <1>5, <3>1, <6>1, <6>3
            <7> QED
              BY <1>5, <7>1
          <6> QED
            BY <6>2, <6>3
        <5> QED
          BY <2>1, <2>2, <5>1, <5>2
      <4> QED
        BY <4>1, <4>2
    <3>4. phase = "join" =>
            /\ value'[SharedKey] = Absent =>
                 \A t \in Writers : pc'[t] \notin {"lock", "apply", "unlock"}
            /\ \A t \in Writers : pc'[t] \in {"lock", "apply"} =>
                 put'[t][1] <= Reports' + failures' + 1
      BY <1>4, <2>1, <2>2, <2>3, <3>2 DEF CounterInv
    <3> QED
      BY <2>1, <2>2, <2>6, <3>1, <3>3, <3>4 DEF CounterInv, CounterCountsWrites, Reports
  <2>7. CASE phase \notin {"init", "spawn", "join", "check"}
    BY <2>1, <2>7 DEF CounterInv, CounterCountsWrites
  <2> QED
    BY <2>4, <2>5, <2>6, <2>7
<1> QED
  BY <1>7, <1>9, <1>10, <1>11, <1>12, <1>13, <1>14, <1>15, <1>16, <1>17 DEF Next, MainStep

(* The counter is never ahead of the writes reported but by commands that  *)
(* failed, and behind them only when a writer replaced what it had not     *)
(* read, however the threads interleave.                                   *)
THEOREM CounterCorrect == Spec => []CounterCountsWrites
<1> DEFINE Inv == TypeInv /\ PlaceInv /\ ItemsInv /\ CounterInv
<1>1. Init => Inv
  <2> SUFFICES ASSUME Init PROVE Inv
    OBVIOUS
  <2>1. TypeInv /\ PlaceInv /\ ItemsInv
    BY InitPlaced, InitItems
  <2> QED
    BY <2>1 DEF Init, CounterInv, CounterCountsWrites
<1>2. Inv /\ [Next]_vars => Inv'
  BY PlaceStep, ItemsStep, CounterStep
<1>3. Inv => CounterCountsWrites
  BY DEF CounterInv, CounterCountsWrites
<1> QED
  BY <1>1, <1>2, <1>3, PTL DEF Spec

-----------------------------------------------------------------------------
(* In the second demonstration somebody succeeds.                          *)

(* What SuccessInv says in the phase where the threads run. *)
SuccessRuns ==
  /\ value[SharedKey] # Absent
  /\ SharedKey \in locked => \E t \in Writers : Trying(t)
  /\ \A t \in Writers : pc[t] = "unlock" => ok[t]
  /\ \/ count.writes > 0 \/ \E t \in Writers : Trying(t)
     \/ \A t \in Writers : Undone(t) = Rounds.shared

(* A worker's command, when no command fails. *)
LEMMA SuccessCommand ==
  ASSUME TypeInv, PlaceInv, SuccessRuns, NEW t \in Workers, Commands(t), demo = "shared",
         UNCHANGED failures
  PROVE  SuccessRuns'
<1> USE DemoAssumption
<1>1. /\ t \in Threads /\ t # Main /\ Others(t) /\ Busy(t) /\ UNCHANGED <<demo, phase, left>>
      /\ phase = "join" /\ failures \in Nat /\ count \in CountTypes
  BY CommandTyped, BusyKey DEF Threads, program, TypeInv, CountTypes
<1>2. key[t] = SharedKey /\ (pc[t] # "get" => t \in Writers /\ put[t] \in Counters)
  BY <1>1 DEF PlaceInv, WorkerInv
<1>3. \A u \in Writers \ {t} : /\ pc'[u] = pc[u] /\ ok'[u] = ok[u] /\ Trying(u)' = Trying(u)
                               /\ Undone(u)' = Undone(u)
  BY <1>1, OtherWorkers DEF Others, Threads, Workers, Trying
<1>4. failures' # failures + 1
  BY <1>1
<1>5. CASE TryLock(t)
  <2>1. /\ pc[t] = "lock" /\ UNCHANGED value
        /\ \/ /\ pc'[t] = "apply" /\ UNCHANGED count
           \/ /\ pc'[t] = "between" /\ key[t] \in locked /\ UNCHANGED locked
              /\ Adds("writeErrors")
    BY <1>1, <1>4, <1>5, LockEffect
  <2>2. CASE pc'[t] = "apply"
    BY <1>2, <1>3, <2>1, <2>2 DEF SuccessRuns, Trying
  <2>3. CASE pc'[t] = "between" /\ key[t] \in locked /\ UNCHANGED locked
    <3>1. PICK u \in Writers : Trying(u)
      BY <1>2, <2>3 DEF SuccessRuns
    <3>2. Trying(u)'
      BY <1>3, <2>1, <3>1 DEF Trying
    <3> QED
      BY <1>3, <2>1, <2>3, <3>2 DEF SuccessRuns
  <2> QED
    BY <2>1, <2>2, <2>3
<1>6. CASE Apply(t)
  <2>1. /\ pc[t] = "apply" /\ pc'[t] = "unlock" /\ Executes(key[t], put[t])
        /\ put[t] # Absent => ok'[t]
    BY <1>1, <1>4, <1>6, ApplyEffect
  <2>2. t \in Writers /\ put[t] # Absent /\ Trying(t)'
    BY <1>2, <2>1, CounterNumbers DEF Trying
  <2>3. value'[SharedKey] # Absent
    BY <1>2, <2>1, <2>2, KeysThere DEF Executes, TypeInv
  <2> QED
    BY <1>3, <2>1, <2>2, <2>3 DEF SuccessRuns
<1>7. CASE Unlock(t)
  <2>1. /\ pc[t] = "unlock" /\ pc'[t] = "between" /\ UNCHANGED value
        /\ locked' = locked \ {key[t]} /\ Adds(IF ok[t] THEN "writes" ELSE "writeErrors")
    BY <1>1, <1>4, <1>7, UnlockEffect
  <2>2. t \in Writers /\ ok[t]
    BY <1>2, <2>1 DEF SuccessRuns
  <2>3. Adds("writes") /\ count.writes \in Nat
    BY <2>1, <2>2 DEF TypeInv
  <2>4. count'["writes"] = count["writes"] + 1
    BY <1>1, <2>3, AddsTyped
  <2> QED
    BY <1>2, <1>3, <2>1, <2>3, <2>4 DEF SuccessRuns
<1>8. CASE Get(t)
  <2>1. /\ pc[t] = "get" /\ UNCHANGED <<value, locked>>
        /\ \/ pc'[t] = "lock" /\ UNCHANGED count
           \/ pc'[t] = "between" /\ (Adds("reads") \/ Adds("readErrors"))
    BY <1>1, <1>8, GetEffect
  <2>2. t \in Writers => pc'[t] = "lock"
    <3>1. value[key[t]] # Absent /\ ~Fails
      BY <1>2, <1>4 DEF SuccessRuns, Fails
    <3>2. t \in Writers => Goes(t, "lock")
      BY <1>1, <1>8, <3>1 DEF Get
    <3> QED
      BY <1>1, <3>2 DEF Goes, TypeInv
  <2>3. count'["writes"] = count["writes"]
    BY <1>1, <2>1, AddsTyped
  <2>4. t \in Writers => Undone(t)' = Undone(t)
    BY <1>1, <2>1, <2>2 DEF Undone, Busy, Sending
  <2>5. \A u \in Writers : /\ Trying(u)' = Trying(u) /\ Undone(u)' = Undone(u)
                           /\ pc'[u] = "unlock" => pc[u] = "unlock" /\ ok'[u] = ok[u]
    BY <1>3, <2>1, <2>2, <2>4 DEF Trying
  <2> QED
    BY <2>1, <2>3, <2>5 DEF SuccessRuns
<1> QED
  BY <1>5, <1>6, <1>7, <1>8 DEF Commands

LEMMA SuccessStep ==
  ASSUME TypeInv, PlaceInv, CounterInv, SuccessInv, [Next]_vars
  PROVE  SuccessInv'
<1> USE DemoAssumption
<1>1. CASE UNCHANGED vars
  BY <1>1 DEF vars, program, store, request, work, SuccessInv, Trying, Undone, Busy, Reported
<1>2. CASE ~(demo' = "shared" /\ failures' = 0)
  BY <1>2 DEF SuccessInv
<1>3. CASE NextDemo
  BY <1>3 DEF NextDemo, SuccessInv, Reported
<1> SUFFICES ASSUME demo' = "shared", failures' = 0, Next, ~NextDemo PROVE SuccessInv'
  BY <1>1, <1>2, <1>3
<1>4. demo = "shared" /\ failures = 0
  <2>1. ASSUME NEW t \in Threads, Commands(t)
        PROVE  UNCHANGED demo /\ failures' \in {failures, failures + 1}
    <3>1. UNCHANGED demo
      BY <2>1, CommandTyped DEF program
    <3>2. failures' \in {failures, failures + 1}
      BY <2>1, CommandLate
    <3> QED
      BY <3>1, <3>2
  <2>2. ASSUME NEW t \in Workers, WorkerStep(t)
        PROVE  UNCHANGED demo /\ failures' \in {failures, failures + 1}
    BY <2>1, <2>2 DEF WorkerStep, Threads, WritesItem, UsesCounter, LoadsStore, Finishes,
       Round, program
  <2>3. UNCHANGED demo /\ failures' \in {failures, failures + 1}
    BY <2>1, <2>2 DEF Next, Monitor, MainStep, Initialize, Spawn, Join, Check, Clean,
       EraseNext, Enters, Over, vars, program, Threads, Lands
  <2> QED
    BY <2>3 DEF TypeInv
<1>5. phase = "join" => SuccessRuns
  BY <1>4 DEF SuccessInv, SuccessRuns
<1>6. SuccessRuns' /\ phase' = "join" => SuccessInv'
  BY DEF SuccessInv, SuccessRuns, Reported
<1>7. CASE phase \in {"check", "clean"} /\ phase' \in {"check", "clean"} /\ count' = count
  BY <1>4, <1>7 DEF SuccessInv, Reported
<1>8. CASE Monitor
  BY <1>8 DEF Monitor, store, work, SuccessInv, Trying, Undone, Busy, Reported
<1>9. ASSUME NEW t \in Workers, UsesCounter(t) \/ Finishes(t) PROVE SuccessInv'
  <2>1. /\ pc[t] = "between" /\ UNCHANGED <<demo, phase, value, locked, ok, failures>>
        /\ \/ pc'[t] = "get" /\ left'[t] = left[t] - 1
           \/ pc'[t] = "done" /\ left'[t] = left[t]
        /\ count' = count \/ count' = [count EXCEPT !.successful = @ + local[t]]
    BY <1>9 DEF UsesCounter, Finishes, Round, Begins, Goes, TypeInv, Threads, program, store
  <2>2. Others(t) /\ phase = "join"
    BY <1>9, <2>1, RoundPlaced, FinishPlaced DEF PlaceInv, WorkerInv
  <2>3. count'.writes = count.writes
    BY <2>1 DEF TypeInv
  <2>4. Undone(t)' = Undone(t)
    <3>1. left[t] \in Nat
      BY DEF TypeInv
    <3> QED
      BY <2>1, <3>1 DEF Undone, Busy, Sending
  <2>5. \A u \in Writers : /\ Undone(u)' = Undone(u) /\ Trying(u)' = Trying(u)
                           /\ pc'[u] = "unlock" => pc[u] = "unlock"
    BY <2>1, <2>2, <2>4, OtherWorkers DEF Others, Threads, Workers, Trying
  <2>6. SuccessRuns'
    BY <1>5, <2>1, <2>2, <2>3, <2>5 DEF SuccessRuns
  <2> QED
    BY <1>6, <2>1, <2>2, <2>6
<1>10. ASSUME NEW t \in Workers, Commands(t) PROVE SuccessInv'
  <2>1. phase = "join" /\ phase' = "join"
    BY <1>10, CommandTyped, BusyKey DEF Threads, program
  <2> QED
    BY <1>4, <1>5, <1>6, <1>10, <2>1, SuccessCommand
<1>11. ASSUME NEW t \in Workers, WorkerStep(t) PROVE SuccessInv'
  BY <1>4, <1>9, <1>10, <1>11 DEF WorkerStep, WritesItem, LoadsStore
<1>12. CASE Commands(Main)
  <2>1. /\ Main \in Threads /\ Busy(Main) /\ UNCHANGED <<phase, count>>
        /\ failures' # failures + 1
    BY <1>4, <1>12, CommandTyped, MainCounts DEF Threads, program
  <2>2. CASE phase = "spawn" /\ pc[Main] # "get" /\ key[Main] = SharedKey /\ put[Main] = <<0>>
    <3>1. /\ pc[Main] = "unlock" => value[SharedKey] = <<0>>
          /\ ~Trying(Main) => SharedKey \notin locked
      BY <1>4, <2>2 DEF SuccessInv
    <3>2. TryLock(Main) => pc'[Main] = "apply"
      BY <2>1, <2>2, <3>1, LockEffect DEF Trying
    <3>3. Apply(Main) => pc'[Main] = "unlock" /\ value'[SharedKey] = <<0>>
      BY <2>1, <2>2, ApplyEffect, KeysThere DEF Executes, TypeInv
    <3>4. Unlock(Main) => /\ pc'[Main] = "between" /\ SharedKey \notin locked'
                          /\ value'[SharedKey] = <<0>>
      BY <2>1, <2>2, <3>1, UnlockEffect
    <3> QED
      BY <1>12, <2>1, <2>2, <3>2, <3>3, <3>4 DEF Commands, Get, SuccessInv, Trying, Reported
  <2>3. CASE phase \in {"check", "clean"}
    BY <1>7, <2>1, <2>3
  <2> QED
    BY <2>1, <2>2, <2>3 DEF PlaceInv, MainInv
<1>13. CASE Initialize
  <2>1. phase = "init" /\ phase' = "spawn" /\ UNCHANGED locked /\ pc'[Main] = "lock"
    BY <1>13 DEF Initialize, MainAt, Enters, store, Begins, Goes, TypeInv, Threads
  <2> QED
    BY <1>4, <2>1 DEF CounterInv, SuccessInv, Trying, Reported
<1>14. CASE Spawn
  <2>1. /\ phase = "spawn" /\ phase' = "join" /\ pc[Main] = "between"
        /\ UNCHANGED <<value, locked>>
    BY <1>14 DEF Spawn, MainAt, Enters, store
  <2>2. value[SharedKey] = <<0>> /\ SharedKey \notin locked
    BY <1>4, <2>1 DEF SuccessInv, Trying
  <2>3. \A u \in Writers : pc'[u] = "between" /\ Undone(u)' = Rounds.shared
    BY <1>4, <1>14, SpawnPlaced DEF Workers
  <2>4. SuccessRuns'
    BY <2>1, <2>2, <2>3 DEF SuccessRuns, Absent
  <2> QED
    BY <1>6, <2>1, <2>4
<1>15. CASE Join
  <2>1. /\ phase = "join" /\ phase' = "check" /\ count' = count
        /\ \A u \in Writers : pc[u] = "done" /\ u \in Workers
    BY <1>15 DEF Join, MainAt, Enters, work, Joined, Workers
  <2>2. \A u \in Writers : ~Trying(u) /\ Undone(u) = 0
    BY <2>1 DEF PlaceInv, WorkerInv, Undone, Busy, Sending, Trying
  <2>3. Writers # {} /\ Rounds.shared > 0 => count.writes > 0
    BY <1>5, <2>1, <2>2 DEF SuccessRuns
  <2> QED
    BY <2>1, <2>3 DEF SuccessInv, Reported
<1>16. CASE Check \/ Clean \/ EraseNext
  BY <1>7, <1>16 DEF Check, Clean, EraseNext, MainAt, Enters, work
<1>17. ~Over
  BY <1>4 DEF Over
<1>18. ASSUME NEW m \in late, Lands(m) PROVE SuccessInv'
  BY <1>4, <1>18, LandsPlaced
<1> QED
  BY <1>8, <1>11, <1>12, <1>13, <1>14, <1>15, <1>16, <1>17, <1>18 DEF Next, MainStep

(* Where there is a writer with something to write, the writers of the     *)
(* counter, who give up at once when they find it locked, cannot all fail: *)
(* without a failed command some write succeeds.                           *)
THEOREM SuccessCorrect ==
  ASSUME Writers # {}, Rounds.shared > 0
  PROVE  Spec => []SomebodySucceeds
<1> DEFINE Inv == TypeInv /\ PlaceInv /\ ItemsInv /\ CounterInv /\ SuccessInv
<1>1. Init => Inv
  <2> SUFFICES ASSUME Init PROVE Inv
    OBVIOUS
  <2>1. TypeInv /\ PlaceInv /\ ItemsInv
    BY InitPlaced, InitItems
  <2> QED
    BY <2>1 DEF Init, CounterInv, CounterCountsWrites, SuccessInv
<1>2. Inv /\ [Next]_vars => Inv'
  BY PlaceStep, ItemsStep, CounterStep, SuccessStep
<1>3. Inv => SomebodySucceeds
  BY DEF SuccessInv, SomebodySucceeds
<1> QED
  BY <1>1, <1>2, <1>3, PTL DEF Spec

=============================================================================
