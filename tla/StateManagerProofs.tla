-------------------------- MODULE StateManagerProofs --------------------------
(***************************************************************************)
(* Proofs about the one connection and the operations that go over it, for *)
(* any sets of threads, servers and keys, and any numbers of attempts,     *)
(* calls and failures.                                                     *)
(***************************************************************************)
EXTENDS StateManagerProperties, TLAPS

(* A step, by what it does to the client. *)
ClientCall(t) ==
  \/ \E s \in Servers : SetConfig(t, s)
  \/ GetClient(t) \/ LockClient(t)
Used(t) == Uses(t) /\ (UNCHANGED failures \/ Fails)
BreakAll ==
  /\ at' = [t \in Threads |-> "broken"]
  /\ UNCHANGED <<connection, mutexes, attempt, ref, target, counters>>

LEMMA ClientSteps ==
  ASSUME [Next]_vars
  PROVE  \/ UNCHANGED client
         \/ BreakAll
         \/ \E t \in Threads : ClientCall(t) \/ Inside(t) \/ Used(t)
<1>1. ASSUME NEW t \in Threads, Calls(t)
      PROVE  UNCHANGED client \/ ClientCall(t)
  BY <1>1 DEF Calls, Construct, Change, Read, Publish, Begin, ClientCall
<1>2. ASSUME NEW t \in Threads, Proceeds(t)
      PROVE  ClientCall(t) \/ Inside(t) \/ Used(t)
  BY <1>2 DEF Proceeds, Asks, Waits, TryLock, Apply, Unlock, Queries, Sends,
     ClientCall, Used
<1>3. Breaks => BreakAll
  BY DEF Breaks, BreakAll
<1> QED
  BY <1>1, <1>2, <1>3 DEF Next, vars

-----------------------------------------------------------------------------
(* Type correctness, of the client and of the operations apart.            *)
ClientType ==
  /\ config \in Servers /\ made \in Seq(Servers) /\ redis \in 0 .. Len(made)
  /\ instanceMutex \in Threads \cup {NoThread}
  /\ redisMutex \in Threads \cup {NoThread}
  /\ attempt \in 0 .. Attempts
  /\ at \in [Threads -> Places] /\ ref \in [Threads -> 0 .. Len(made)]
  /\ target \in [Threads -> Servers \cup {NoServer}]
  /\ (\A t \in Threads : at[t] = "configure" => target[t] \in Servers)
  /\ switches \in 0 .. MaxSwitches /\ failures \in 0 .. MaxFailures
OperationType ==
  /\ lock \in [Servers -> SUBSET Keys]
  /\ step \in [Threads -> Commands]
  /\ key \in [Threads -> Keys \cup {NoKey}]
  /\ \A t \in Threads : step[t] \in {"setnx", "apply", "unlock"} => key[t] \in Keys
  /\ home \in [Threads -> Servers \cup {NoServer}]
  /\ moved \subseteq Threads /\ calls \in 0 .. MaxCalls

(* How connect ends, with the old connection or a new one.                 *)
LEMMA ReturnsTyped ==
  ASSUME ClientType, NEW t \in Threads, Returns(t),
         UNCHANGED <<config, switches>>, failures' \in 0 .. MaxFailures,
         made' \in Seq(Servers), redis' \in 0 .. Len(made'), Len(made) <= Len(made')
  PROVE  ClientType'
<1> USE RedisClientAssumption DEF ClientType, Moves
<1>1. at' \in [Threads -> Places]
  BY DEF Returns, Places
<1>2. \A u \in Threads : ref[u] \in 0 .. Len(made')
  OBVIOUS
<1>3. ref' \in [Threads -> 0 .. Len(made')]
  BY <1>2 DEF Returns
<1>4. /\ target' \in [Threads -> Servers \cup {NoServer}]
      /\ \A u \in Threads : at'[u] = "configure" => target'[u] \in Servers
  BY DEF Returns
<1>5. instanceMutex' = NoThread /\ redisMutex' = NoThread /\ attempt' = 0
  BY DEF Returns
<1> QED
  BY <1>1, <1>3, <1>4, <1>5

LEMMA ClientTyped ==
  ASSUME ClientType, [Next]_vars
  PROVE  ClientType'
<1> USE RedisClientAssumption DEF ClientType, Moves, Takes, connection, mutexes,
    counters, Places
<1>1. CASE UNCHANGED client
  BY <1>1 DEF client
<1>2. CASE BreakAll
  BY <1>2 DEF BreakAll
<1>3. ASSUME NEW t \in Threads, ClientCall(t) PROVE ClientType'
  <2>1. ASSUME NEW s \in Servers, SetConfig(t, s) PROVE ClientType'
    BY <2>1, SMTT(40) DEF SetConfig
  <2>2. CASE GetClient(t)
    BY <2>2 DEF GetClient
  <2>3. CASE LockClient(t)
    BY <2>3 DEF LockClient
  <2> QED
    BY <1>3, <2>1, <2>2, <2>3 DEF ClientCall
<1>4. ASSUME NEW t \in Threads, Used(t) PROVE ClientType'
  BY <1>4 DEF Used, Uses, Fails
<1>5. ASSUME NEW t \in Threads, Configure(t) PROVE ClientType'
  BY <1>5 DEF Configure
<1>6. ASSUME NEW t \in Threads, Ping(t) PROVE ClientType'
  <2>1. CASE redis # 0 /\ Moves(t, "ping", "has")
    <3>1. /\ ref' = [ref EXCEPT ![t] = redis] \/ UNCHANGED ref
          /\ failures' \in 0 .. MaxFailures
          /\ instanceMutex' \in Threads \cup {NoThread}
      BY <1>6, <2>1 DEF Ping, Fails
    <3> QED
      BY <1>6, <2>1, <3>1 DEF Ping
  <2>2. CASE Moves(t, "ping", "connect")
    <3>1. failures' \in 0 .. MaxFailures /\ UNCHANGED <<ref, instanceMutex>>
      BY <1>6, <2>2 DEF Ping, Fails
    <3> QED
      BY <1>6, <2>2, <3>1 DEF Ping
  <2> QED
    BY <1>6, <2>1, <2>2 DEF Ping
<1>7. ASSUME NEW t \in Threads, Connect(t) PROVE ClientType'
  BY <1>7 DEF Connect
<1>8. ASSUME NEW t \in Threads, AttemptFails(t) PROVE ClientType'
  <2>1. failures' \in 0 .. MaxFailures /\ UNCHANGED <<connection, switches>>
    BY <1>8 DEF AttemptFails, Fails
  <2>2. CASE /\ attempt < Attempts /\ attempt' = attempt + 1
             /\ UNCHANGED <<mutexes, at, ref, target>>
    BY <2>1, <2>2
  <2>3. CASE attempt = Attempts /\ UNCHANGED redis /\ Returns(t)
    <3>1. made' = made /\ redis' = redis
      BY <2>1
    <3> QED
      BY <2>1, <2>3, <3>1, ReturnsTyped
  <2> QED
    BY <1>8, <2>2, <2>3 DEF AttemptFails
<1>9. ASSUME NEW t \in Threads, Connects(t) PROVE ClientType'
  <2>1. made' \in Seq(Servers) /\ Len(made') = Len(made) + 1
    BY <1>9 DEF Connects
  <2>2. redis' = Len(made) + 1 /\ Len(made) \in Nat
    BY <1>9 DEF Connects
  <2>3. Returns(t) /\ at[t] = "attempt" /\ UNCHANGED <<config, switches, failures>>
    BY <1>9 DEF Connects
  <2> QED
    BY <2>1, <2>2, <2>3, ReturnsTyped
<1>10. ASSUME NEW t \in Threads, Locks(t) PROVE ClientType'
  BY <1>10 DEF Locks
<1> QED
  BY <1>1, <1>2, <1>3, <1>4, <1>5, <1>6, <1>7, <1>8, <1>9, <1>10, ClientSteps
  DEF Inside

(* The server a command goes to. *)
LEMMA ServerTyped ==
  ASSUME ClientType, NEW t \in Threads, Uses(t)
  PROVE  Server(t) \in Servers
BY DEF ClientType, Uses, Server

LEMMA OperationTyped ==
  ASSUME ClientType, OperationType, [Next]_vars
  PROVE  OperationType'
<1> USE StateManagerAssumption DEF OperationType, Goes, Ends, Commands
<1>1. CASE UNCHANGED <<lock, operation>>
  BY <1>1 DEF operation
<1>2. ASSUME NEW t \in Threads, Calls(t) PROVE OperationType'
  <2>1. \/ UNCHANGED <<lock, operation>>
        \/ \E k \in Keys, first \in {"setnx", "get"} : Begin(t, k, first)
        \/ Begin(t, NoKey, "publish")
    BY <1>2 DEF Calls, Construct, Change, Read, Publish
  <2> QED
    BY <1>1, <2>1 DEF Begin
<1>3. ASSUME NEW t \in Threads, TryLock(t) PROVE OperationType'
  <2>1. Server(t) \in Servers
    BY <1>3, ServerTyped DEF TryLock, Sends
  <2> QED
    BY <1>3, <2>1 DEF TryLock, Sends
<1>4. ASSUME NEW t \in Threads, Apply(t) PROVE OperationType'
  BY <1>4 DEF Apply, Sends, Strays
<1>5. ASSUME NEW t \in Threads, Unlock(t) PROVE OperationType'
  <2>1. Server(t) \in Servers
    BY <1>5, ServerTyped DEF Unlock, Sends
  <2> QED
    BY <1>5, <2>1 DEF Unlock, Sends, Strays
<1>6. ASSUME NEW t \in Threads, Queries(t) PROVE OperationType'
  BY <1>6 DEF Queries
<1>7. CASE Breaks
  BY <1>7 DEF Breaks
<1> QED
  BY <1>1, <1>2, <1>3, <1>4, <1>5, <1>6, <1>7
  DEF Next, Proceeds, Asks, Waits, vars

(* The state keeps its types in every run. *)
THEOREM TypeCorrect == Spec => []TypeOK
<1> DEFINE Typed == ClientType /\ OperationType
<1>1. Init => Typed
  BY RedisClientAssumption, StateManagerAssumption
  DEF Init, ClientInit, ClientType, OperationType, Places, Commands
<1>2. Typed /\ [Next]_vars => Typed'
  BY ClientTyped, OperationTyped
<1>3. Typed => TypeOK
  BY DEF ClientType, OperationType, TypeOK
<1> QED
  BY <1>1, <1>2, <1>3, PTL DEF Spec

-----------------------------------------------------------------------------
(* The connection.  instance_mutex_ makes one thread at a time decide what *)
(* becomes of it: at these places a thread has the mutex.                  *)
Deciding(t) == at[t] \in {"ping", "connect", "attempt", "lock"}
MutexInv == \A t \in Threads : Deciding(t) => instanceMutex = t

(* A connect that has come to its n-th attempt has seen n - 1 fail.        *)
NullInv ==
  /\ NullNeedsAllAttempts
  /\ attempt > 0 => failures + 1 >= attempt

(* Who makes a connection, when nothing has been configured or has failed, *)
(* found none; so nobody has a reference that it could invalidate.         *)
FreshInv ==
  switches = 0 /\ failures = 0 =>
    \A t \in Threads :
      /\ at[t] # "configure"
      /\ at[t] \in {"connect", "attempt"} => redis = 0
      /\ ~Dangles(t)

(* Who finds a connection, and makes no other, finds the one configured.   *)
ConfigInv ==
  /\ redis # 0 /\ failures < Attempts
  /\ instanceMutex = NoThread \/ \E t \in Threads : at[t] \in {"ping", "lock"}
  => made[redis] = config

LEMMA MutexStep ==
  ASSUME ClientType, MutexInv, [Next]_vars
  PROVE  MutexInv'
<1> USE RedisClientAssumption DEF ClientType, MutexInv, Deciding, Moves, Takes
<1>1. CASE UNCHANGED client
  BY <1>1 DEF client, mutexes
<1>2. CASE BreakAll
  BY <1>2 DEF BreakAll
<1>3. ASSUME NEW t \in Threads, ClientCall(t) PROVE MutexInv'
  BY <1>3 DEF ClientCall, SetConfig, GetClient, LockClient, mutexes
<1>4. ASSUME NEW t \in Threads, Used(t) PROVE MutexInv'
  BY <1>4 DEF Used, Uses
<1>5. ASSUME NEW t \in Threads, Inside(t) PROVE MutexInv'
  BY <1>5 DEF Inside, Configure, Ping, Connect, AttemptFails, Connects, Locks,
     Returns, mutexes
<1> QED
  BY <1>1, <1>2, <1>3, <1>4, <1>5, ClientSteps

LEMMA NullStep ==
  ASSUME ClientType, NullInv, [Next]_vars
  PROVE  NullInv'
<1> USE RedisClientAssumption
    DEF ClientType, NullInv, NullNeedsAllAttempts, Null, Using, Moves, Takes,
        connection, counters, Fails
<1>1. CASE UNCHANGED client
  BY <1>1 DEF client
<1>2. CASE BreakAll
  BY <1>2 DEF BreakAll
<1>3. ASSUME NEW t \in Threads, ClientCall(t) PROVE NullInv'
  BY <1>3 DEF ClientCall, SetConfig, GetClient, LockClient
<1>4. ASSUME NEW t \in Threads, Used(t) PROVE NullInv'
  BY <1>4 DEF Used, Uses
<1>5. ASSUME NEW t \in Threads, Configure(t) \/ Connect(t) \/ Locks(t)
      PROVE  NullInv'
  BY <1>5 DEF Configure, Connect, Locks
<1>6. ASSUME NEW t \in Threads, Ping(t) PROVE NullInv'
  BY <1>6 DEF Ping
<1>7. ASSUME NEW t \in Threads, AttemptFails(t) PROVE NullInv'
  BY <1>7 DEF AttemptFails, Returns
<1>8. ASSUME NEW t \in Threads, Connects(t) PROVE NullInv'
  BY <1>8 DEF Connects, Returns
<1> QED
  BY <1>1, <1>2, <1>3, <1>4, <1>5, <1>6, <1>7, <1>8, ClientSteps DEF Inside

LEMMA FreshStep ==
  ASSUME ClientType, MutexInv, FreshInv, [Next]_vars
  PROVE  FreshInv'
<1> USE RedisClientAssumption
    DEF ClientType, FreshInv, Dangles, Using, Moves, Takes, connection, counters,
        Fails
<1>1. CASE UNCHANGED client
  BY <1>1 DEF client
<1>2. CASE BreakAll
  BY <1>2 DEF BreakAll
<1>3. ASSUME NEW t \in Threads, ClientCall(t) PROVE FreshInv'
  BY <1>3 DEF ClientCall, SetConfig, GetClient, LockClient
<1>4. ASSUME NEW t \in Threads, Used(t) PROVE FreshInv'
  BY <1>4 DEF Used, Uses
<1>5. ASSUME NEW t \in Threads, Configure(t) \/ Connect(t) \/ Locks(t)
      PROVE  FreshInv'
  BY <1>5 DEF Configure, Connect, Locks
<1>6. ASSUME NEW t \in Threads, Ping(t) PROVE FreshInv'
  BY <1>6 DEF Ping
<1>7. ASSUME NEW t \in Threads, AttemptFails(t) PROVE FreshInv'
  BY <1>7 DEF AttemptFails
<1>8. ASSUME NEW t \in Threads, Connects(t) PROVE FreshInv'
  BY <1>8 DEF Connects, Returns, MutexInv, Deciding
<1> QED
  BY <1>1, <1>2, <1>3, <1>4, <1>5, <1>6, <1>7, <1>8, ClientSteps DEF Inside

LEMMA ConfigStep ==
  ASSUME ClientType, MutexInv, NullInv, ConfigInv, [Next]_vars
  PROVE  ConfigInv'
<1> USE RedisClientAssumption
    DEF ClientType, ConfigInv, MutexInv, Deciding, Moves, Takes, connection,
        mutexes, counters, Fails
<1>1. CASE UNCHANGED client
  BY <1>1 DEF client
<1>2. CASE BreakAll
  BY <1>2 DEF BreakAll
<1>3. ASSUME NEW t \in Threads, ClientCall(t) PROVE ConfigInv'
  BY <1>3 DEF ClientCall, SetConfig, GetClient, LockClient
<1>4. ASSUME NEW t \in Threads, Used(t) PROVE ConfigInv'
  BY <1>4 DEF Used, Uses
<1>5. ASSUME NEW t \in Threads, Configure(t) \/ Connect(t) \/ Locks(t)
      PROVE  ConfigInv'
  BY <1>5 DEF Configure, Connect, Locks
<1>6. ASSUME NEW t \in Threads, Ping(t) PROVE ConfigInv'
  BY <1>6 DEF Ping
<1>7. ASSUME NEW t \in Threads, AttemptFails(t) PROVE ConfigInv'
  BY <1>7 DEF AttemptFails, Returns, NullInv
<1>8. ASSUME NEW t \in Threads, Connects(t) PROVE ConfigInv'
  BY <1>8 DEF Connects, Returns
<1> QED
  BY <1>1, <1>2, <1>3, <1>4, <1>5, <1>6, <1>7, <1>8, ClientSteps DEF Inside

-----------------------------------------------------------------------------
(* All of it together is inductive.                                        *)
ClientInv == ClientType /\ MutexInv /\ NullInv /\ FreshInv /\ ConfigInv

LEMMA ClientCorrect == Spec => []ClientInv
<1>1. Init => ClientInv
  BY RedisClientAssumption
  DEF Init, ClientInit, ClientInv, ClientType, MutexInv, NullInv, FreshInv,
      ConfigInv, NullNeedsAllAttempts, Null, Dangles, Using, Deciding, Places
<1>2. ClientInv /\ [Next]_vars => ClientInv'
  BY ClientTyped, MutexStep, NullStep, FreshStep, ConfigStep DEF ClientInv
<1> QED
  BY <1>1, <1>2, PTL DEF Spec

(* References stay good while nothing is configured and nothing fails.     *)
THEOREM ReferencesCorrect == Spec => []ReferencesHold
<1>1. ClientInv => ReferencesHold
  BY DEF ClientInv, FreshInv, ReferencesHold
<1> QED
  BY <1>1, ClientCorrect, PTL

(* A null redis_ takes a whole round of failed attempts.                   *)
THEOREM NullCorrect == Spec => []NullNeedsAllAttempts
<1>1. ClientInv => NullNeedsAllAttempts
  BY DEF ClientInv, NullInv
<1> QED
  BY <1>1, ClientCorrect, PTL

(* The connection leads where the last setConfig said.                     *)
THEOREM ConfiguredCorrect == Spec => []ConnectedAsConfigured
<1>1. ClientInv => ConnectedAsConfigured
  BY DEF ClientInv, ConfigInv, ConnectedAsConfigured
<1> QED
  BY <1>1, ClientCorrect, PTL

-----------------------------------------------------------------------------
(* The locks.  While nobody has strayed, a thread between its SETNX and    *)
(* its DEL is the one who owns the lock it took.                           *)
Holding(t) == home[t] # NoServer
LockInv ==
  /\ \A t \in Threads :
       /\ step[t] \in {"apply", "unlock"} => Holding(t)
       /\ step[t] \in {"idle", "setnx", "get", "publish"} => ~Holding(t)
  /\ moved = {} =>
       /\ \A t \in Threads : Holding(t) => key[t] \in lock[home[t]]
       /\ LocksHaveOneOwner

(* Failures are only ever counted up. *)
LEMMA FailuresGrow ==
  ASSUME ClientType, [Next]_vars
  PROVE  failures' = 0 => failures = 0
<1>1. CASE UNCHANGED client
  BY <1>1 DEF client, counters
<1>2. CASE BreakAll
  BY <1>2 DEF BreakAll, counters
<1>3. ASSUME NEW t \in Threads, ClientCall(t) PROVE failures' = 0 => failures = 0
  BY <1>3 DEF ClientCall, SetConfig, GetClient, LockClient, counters
<1>4. ASSUME NEW t \in Threads, Used(t) PROVE failures' = 0 => failures = 0
  BY <1>4 DEF Used, Fails, ClientType
<1>5. ASSUME NEW t \in Threads, Inside(t) PROVE failures' = 0 => failures = 0
  BY <1>5 DEF Inside, Configure, Ping, Connect, AttemptFails, Connects, Locks,
     Fails, counters, ClientType
<1> QED
  BY <1>1, <1>2, <1>3, <1>4, <1>5, ClientSteps

LEMMA LockStep ==
  ASSUME ClientType, OperationType, LockInv, [Next]_vars
  PROVE  LockInv'
<1> USE RedisClientAssumption, StateManagerAssumption
    DEF OperationType, LockInv, LocksHaveOneOwner, Holding, Goes, Ends, Commands
<1>1. CASE UNCHANGED <<lock, operation>>
  <2>1. failures' = 0 => failures = 0
    BY FailuresGrow
  <2> QED
    BY <1>1, <2>1 DEF operation
<1>2. ASSUME NEW t \in Threads, NEW k \in Keys \cup {NoKey},
             NEW first \in {"setnx", "get", "publish"}, Begin(t, k, first)
      PROVE  LockInv'
  <2>1. UNCHANGED failures /\ ~Holding(t) /\ UNCHANGED <<lock, home, moved>>
    BY <1>2 DEF Begin, Idle, client, counters
  <2> QED
    BY <1>2, <2>1 DEF Begin, Idle
<1>3. ASSUME NEW t \in Threads, TryLock(t) PROVE LockInv'
  <2> DEFINE s == Server(t)
  <2>1. s \in Servers /\ step[t] = "setnx" /\ key[t] \in Keys
    BY <1>3, ServerTyped DEF TryLock, Sends
  <2>2. CASE /\ key[t] \notin lock[s] /\ Goes(t, "apply")
             /\ lock' = [lock EXCEPT ![s] = @ \cup {key[t]}]
             /\ home' = [home EXCEPT ![t] = s]
             /\ UNCHANGED <<failures, key, moved>>
    BY <2>1, <2>2
  <2>3. CASE /\ Ends(t) /\ UNCHANGED <<lock, home, moved>>
             /\ UNCHANGED failures \/ Fails
    <3>1. failures' = 0 => failures = 0
      BY FailuresGrow
    <3> QED
      BY <2>1, <2>3, <3>1
  <2> QED
    BY <1>3, <2>2, <2>3 DEF TryLock
<1>4. ASSUME NEW t \in Threads, Apply(t) PROVE LockInv'
  <2>1. failures' = 0 => failures = 0
    BY FailuresGrow
  <2>2. moved' = {} => moved = {}
    BY <1>4 DEF Apply, Strays
  <2> QED
    BY <1>4, <2>1, <2>2 DEF Apply, Sends
<1>5. ASSUME NEW t \in Threads, Unlock(t) PROVE LockInv'
  <2> DEFINE s == Server(t)
  <2>1. s \in Servers /\ step[t] = "unlock" /\ key[t] \in Keys /\ Holding(t)
    BY <1>5, ServerTyped DEF Unlock, Sends
  <2>2. moved' = {} => moved = {} /\ s = home[t]
    BY <1>5 DEF Unlock, Strays
  <2>3. Ends(t) /\ home' = [home EXCEPT ![t] = NoServer]
    BY <1>5 DEF Unlock
  <2>4. CASE lock' = [lock EXCEPT ![s] = @ \ {key[t]}] /\ UNCHANGED failures
    BY <2>1, <2>2, <2>3, <2>4
  <2>5. CASE Fails /\ UNCHANGED lock
    <3>1. failures' # 0
      BY <2>5 DEF Fails, ClientType
    <3> QED
      BY <2>1, <2>2, <2>3, <2>5, <3>1
  <2> QED
    BY <1>5, <2>4, <2>5 DEF Unlock
<1>6. ASSUME NEW t \in Threads, Queries(t) PROVE LockInv'
  <2>1. failures' = 0 => failures = 0
    BY FailuresGrow
  <2> QED
    BY <1>6, <2>1 DEF Queries, Sends
<1>7. CASE Breaks
  BY <1>7 DEF Breaks, counters
<1>8. ASSUME NEW t \in Threads, Calls(t) PROVE LockInv'
  <2>1. \/ UNCHANGED <<lock, operation>>
        \/ \E k \in Keys \cup {NoKey}, first \in {"setnx", "get", "publish"} :
             Begin(t, k, first)
    BY <1>8 DEF Calls, Construct, Change, Read, Publish
  <2> QED
    BY <1>1, <1>2, <2>1
<1> QED
  BY <1>1, <1>3, <1>4, <1>5, <1>6, <1>7, <1>8
  DEF Next, Proceeds, Asks, Waits, vars

(* While no operation has been moved half-way to another server, a lock is *)
(* one thread's, and stays no longer than that thread needs it.            *)
THEOREM LocksCorrect == Spec => []LocksHaveOneOwner
<1> DEFINE Inv == ClientType /\ OperationType /\ LockInv
<1>1. Init => Inv
  BY RedisClientAssumption, StateManagerAssumption
  DEF Init, ClientInit, ClientType, OperationType, LockInv, LocksHaveOneOwner,
      Holding, Places, Commands
<1>2. Inv /\ [Next]_vars => Inv'
  BY ClientTyped, OperationTyped, LockStep
<1>3. LockInv => LocksHaveOneOwner
  BY DEF LockInv, LocksHaveOneOwner
<1> QED
  BY <1>1, <1>2, <1>3, PTL DEF Spec

-----------------------------------------------------------------------------
(* The two mutexes and who waits for them. *)

Blocked(t) ==
  \/ /\ instanceMutex # NoThread
     /\ \/ at[t] = "configure"
        \/ at[t] = "out" /\ step[t] # "idle"
        \/ at[t] = "has" /\ step[t] = "publish"
  \/ redisMutex # NoThread /\ at[t] \in {"ping", "connect", "lock"}

(* t has a mutex, and the one it needs for its next step is free.          *)
CanGo(t) ==
  \/ redisMutex = t /\ at[t] \in {"attempt", "locked"}
  \/ instanceMutex = t /\ redisMutex = NoThread /\ at[t] \in {"ping", "connect", "lock"}

NobodyIsStuck == \A t \in Threads : Blocked(t) => \E u \in Threads : CanGo(u)

(* Who has a mutex is where it needs it, unless the program is broken.     *)
HolderInv ==
  /\ instanceMutex # NoThread => Deciding(instanceMutex)
  /\ redisMutex # NoThread => at[redisMutex] \in {"attempt", "locked"}
  /\ \A t \in Threads : at[t] \in {"attempt", "locked"} => redisMutex = t
AllBroken == \A t \in Threads : at[t] = "broken"

LEMMA HolderStep ==
  ASSUME ClientType, MutexInv, AllBroken \/ HolderInv, [Next]_vars
  PROVE  AllBroken' \/ HolderInv'
<1> USE RedisClientAssumption
    DEF ClientType, HolderInv, MutexInv, Deciding, AllBroken, Moves, Takes
<1>1. CASE UNCHANGED client
  BY <1>1 DEF client, mutexes
<1>2. CASE BreakAll
  BY <1>2 DEF BreakAll
<1>3. ASSUME NEW t \in Threads, ClientCall(t) PROVE HolderInv'
  BY <1>3 DEF ClientCall, SetConfig, GetClient, LockClient, mutexes
<1>4. ASSUME NEW t \in Threads, Used(t) PROVE HolderInv'
  BY <1>4 DEF Used, Uses
<1>5. ASSUME NEW t \in Threads, Inside(t) PROVE HolderInv'
  BY <1>5 DEF Inside, Configure, Ping, Connect, AttemptFails, Connects, Locks,
     Returns, mutexes
<1> QED
  BY <1>1, <1>2, <1>3, <1>4, <1>5, ClientSteps

(* No deadlock: instance_mutex_ is always taken before redis_mutex_, and    *)
(* whoever has redis_mutex_ needs nothing more.  However many threads call, *)
(* whenever one of them waits a holder can go on.                          *)
THEOREM NoDeadlock == Spec => []NobodyIsStuck
<1> DEFINE Inv == ClientType /\ OperationType /\ MutexInv /\ (AllBroken \/ HolderInv)
<1>1. Init => Inv
  BY RedisClientAssumption, StateManagerAssumption
  DEF Init, ClientInit, ClientType, OperationType, Places, Commands, MutexInv,
      HolderInv, Deciding
<1>2. Inv /\ [Next]_vars => Inv'
  BY ClientTyped, OperationTyped, MutexStep, HolderStep
<1>3. Inv => NobodyIsStuck
  <2> SUFFICES ASSUME Inv, NEW t \in Threads, Blocked(t)
               PROVE  \E u \in Threads : CanGo(u)
    BY DEF NobodyIsStuck
  <2>1. HolderInv
    BY DEF AllBroken, Blocked
  <2>2. CASE redisMutex # NoThread
    BY <2>1, <2>2 DEF HolderInv, CanGo, ClientType
  <2>3. CASE redisMutex = NoThread
    <3>1. instanceMutex \in Threads /\ Deciding(instanceMutex)
      BY <2>1, <2>3 DEF HolderInv, Blocked, ClientType
    <3>2. at[instanceMutex] # "attempt"
      BY <2>1, <2>3, <3>1, RedisClientAssumption DEF HolderInv
    <3> QED
      BY <2>3, <3>1, <3>2 DEF Deciding, CanGo
  <2> QED
    BY <2>2, <2>3
<1> QED
  BY <1>1, <1>2, <1>3, PTL DEF Spec

=============================================================================
