------------------------- MODULE RedisStorageProofs -------------------------
(***************************************************************************)
(* Proofs about the storage's locking protocol, for any sets of clients,   *)
(* keys and values and any number of lost answers, late commands and       *)
(* crashes.  The one premise is that no key is the lock of another.        *)
(***************************************************************************)
EXTENDS RedisStorageProperties, TLAPS

(* What a client sends, by its place in the operation. *)
LEMMA CommandSent ==
  ASSUME NEW c \in Clients, Sending(c)
  PROVE  \/ pc[c] = "lock" /\ Command(c) = SetNx(LockOf(c))
         \/ pc[c] = "command" /\ Command(c) = Set(op[c].key, op[c].value)
         \/ pc[c] = "unlock" /\ Command(c) = Del(LockOf(c))
BY DEF Sending, Command

LEMMA CommandType ==
  ASSUME TypeOK, NEW c \in Clients, Sending(c)
  PROVE  Command(c) \in Commands
BY CommandSent, RedisStorageAssumption
DEF TypeOK, Operations, Commands, SetNx, Set, Del, LockOf

LEMMA ExecuteType ==
  ASSUME TypeOK, NEW m \in Commands, Execute(m)
  PROVE  store' \in [Names -> Values \cup {Locked, Absent}]
BY DEF TypeOK, Execute, Commands

LEMMA ContinueType ==
  ASSUME TypeOK, NEW c \in Clients, NEW ok \in BOOLEAN, Continues(c, ok)
  PROVE  pc' \in [Clients -> PCs] /\ answer' \in [Clients -> BOOLEAN]
BY DEF TypeOK, Continues, LockAnswered, CommandAnswered, UnlockAnswered, Goes,
   Answers, PCs

(* The state keeps its types in every run of the storage. *)
THEOREM TypeCorrect == Spec => []TypeOK
<1> USE RedisStorageAssumption
<1>1. Init => TypeOK
  BY DEF Init, TypeOK, Operations, PCs
<1>2. TypeOK /\ [Next]_vars => TypeOK'
  <2> SUFFICES ASSUME TypeOK, [Next]_vars PROVE TypeOK'
    OBVIOUS
  <2>1. ASSUME NEW c \in Clients, NEW k \in Keys,
               NEW kind \in {"set", "erase", "hold"},
               NEW v \in Values \cup {Absent}, Begin(c, kind, k, v)
        PROVE  TypeOK'
    BY <2>1 DEF Begin, Goes, Answers, TypeOK, Operations, PCs
  <2>2. ASSUME NEW c \in Clients, Unlock(c) PROVE TypeOK'
    BY <2>2 DEF Unlock, Goes, TypeOK, PCs
  <2>3. ASSUME NEW c \in Clients, Replied(c) PROVE TypeOK'
    <3>1. Succeeds(c) \in BOOLEAN
      BY DEF Succeeds
    <3> QED
      BY <2>3, <3>1, CommandType, ExecuteType, ContinueType DEF Replied, TypeOK
  <2>4. ASSUME NEW c \in Clients, ReplyLost(c) PROVE TypeOK'
    <3>1. timeouts' \in 0 .. MaxTimeouts
      BY <2>4 DEF ReplyLost, TypeOK
    <3> QED
      BY <2>4, <3>1, CommandType, ExecuteType, ContinueType
      DEF ReplyLost, TypeOK
  <2>5. ASSUME NEW c \in Clients, Delayed(c) PROVE TypeOK'
    <3>1. timeouts' \in 0 .. MaxTimeouts
      BY <2>5 DEF Delayed, TypeOK
    <3>2. late' \subseteq (0 .. MaxTimeouts) \X (0 .. MaxCrashes) \X Commands
      BY <2>5, CommandType DEF Delayed, Later, TypeOK
    <3> QED
      BY <2>5, <3>1, <3>2, ContinueType DEF Delayed, TypeOK
  <2>6. ASSUME NEW c \in Clients, Crash(c) PROVE TypeOK'
    <3>1. crashes' \in 0 .. MaxCrashes
      BY <2>6 DEF Crash, TypeOK
    <3>2. late' \subseteq (0 .. MaxTimeouts) \X (0 .. MaxCrashes) \X Commands
      BY <2>6, CommandType DEF Crash, Later, TypeOK
    <3> QED
      BY <2>6, <3>1, <3>2 DEF Crash, Goes, Answers, TypeOK, PCs
  <2>7. ASSUME NEW m \in late, Lands(m) PROVE TypeOK'
    <3>1. m[3] \in Commands
      BY DEF TypeOK
    <3> QED
      BY <2>7, <3>1, ExecuteType DEF Lands, TypeOK
  <2>8. CASE UNCHANGED vars
    BY <2>8 DEF vars, TypeOK
  <2> QED
    BY <2>1, <2>2, <2>3, <2>4, <2>5, <2>6, <2>7, <2>8
    DEF Next, ClientStep, Write, Update, Erase, TryLock
<1> QED
  BY <1>1, <1>2, PTL DEF Spec

-----------------------------------------------------------------------------
(* The lock.  On its own mutual exclusion is not inductive: a deletion of  *)
(* the lock that lands late must not find the lock of another client.  It  *)
(* does not, because the client that gave up on it left the lock in place, *)
(* so nobody could take it since: the clients inside and the late          *)
(* deletions are together at most one.                                     *)

(* The commands that may be on their way. *)
LateForm ==
  \A m \in late :
    \/ \E k \in Keys : m[3] = SetNx(LockName[k])
    \/ \E k \in Keys : m[3] = Del(LockName[k])
    \/ \E k \in Keys, v \in Values \cup {Absent} : m[3] = Set(k, v)

LockInv ==
  /\ LateForm
  /\ MutualExclusion
  /\ InsideMeansLocked
  /\ \A k \in Keys :
       LateUnlocks(k) # {} =>
         /\ store[LockName[k]] = Locked
         /\ \A c \in Clients : ~ Inside(c, k)
         /\ \A m, n \in LateUnlocks(k) : m = n

(* Which commands are deletions of k's lock, and what they do to it.       *)
LEMMA LockCommands ==
  ASSUME NoAliasing, NEW j \in Keys, NEW k \in Keys, NEW v \in Values \cup {Absent}
  PROVE  /\ SetNx(LockName[j]) # Del(LockName[k])
         /\ Set(j, v) # Del(LockName[k])
         /\ Del(LockName[j]) = Del(LockName[k]) => j = k
         /\ Set(j, v).name # LockName[k]
         /\ SetNx(LockName[j]).name = LockName[j]
         /\ Del(LockName[j]).name = LockName[j]
BY RedisStorageAssumption DEF NoAliasing, SetNx, Set, Del

LEMMA LockDeletions ==
  ASSUME NoAliasing, NEW j \in Keys, NEW k \in Keys
  PROVE  /\ SetNx(LockName[j]) # Del(LockName[k])
         /\ Del(LockName[j]) = Del(LockName[k]) => j = k
BY LockCommands

(* Executing a command changes no lock but the one it names. *)
LEMMA SetNxEffect ==
  ASSUME TypeOK, NEW j \in Keys, Execute(SetNx(LockName[j]))
  PROVE  /\ store'[LockName[j]] \in {Locked, store[LockName[j]]}
         /\ store[LockName[j]] = Absent => store'[LockName[j]] = Locked
         /\ store[LockName[j]] = Locked => store'[LockName[j]] = Locked
         /\ \A n \in Names \ {LockName[j]} : store'[n] = store[n]
BY RedisStorageAssumption DEF TypeOK, Execute, Takes, SetNx

LEMMA PutEffect ==
  ASSUME TypeOK, NEW n \in Names, NEW v \in Values \cup {Absent},
         Execute(Set(n, v))
  PROVE  /\ store'[n] = v
         /\ \A i \in Names \ {n} : store'[i] = store[i]
BY DEF TypeOK, Execute, Takes, Set

LEMMA DelIsPut ==
  ASSUME NEW n PROVE Del(n) = Set(n, Absent)
BY DEF Del, Set

(* What a step that gives up on command m does to the late deletions. *)
LEMMA LateGrows ==
  ASSUME NEW m, NEW t, NEW r, late' = late \cup {<<t, r, m>>}, NEW k \in Keys
  PROVE  /\ m # Del(LockName[k]) => LateUnlocks(k)' = LateUnlocks(k)
         /\ m = Del(LockName[k]) =>
              LateUnlocks(k)' = LateUnlocks(k) \cup {<<t, r, m>>}
BY DEF LateUnlocks

(* Steps in which no client enters, no lock is let go and no deletion of a *)
(* lock is given up on keep the invariant.                                 *)
LEMMA LockQuiet ==
  ASSUME LockInv, LateForm',
         \A k \in Keys, c \in Clients : Inside(c, k)' => Inside(c, k),
         \A k \in Keys : LateUnlocks(k)' \subseteq LateUnlocks(k),
         \A k \in Keys : store[LockName[k]] = Locked
                          => store'[LockName[k]] = Locked
  PROVE  LockInv'
BY DEF LockInv, MutualExclusion, InsideMeansLocked

(* A client leaves the operation on key j, and its deletion of the lock is *)
(* executed now or given up on.                                            *)
LEMMA LockReleased ==
  ASSUME NoAliasing, TypeOK, LockInv, LateForm',
         NEW c \in Clients, NEW j \in Keys, Inside(c, j),
         \A k \in Keys, d \in Clients :
            Inside(d, k)' <=> Inside(d, k) /\ d # c,
         \/ Execute(Del(LockName[j])) /\ late' = late
         \/ store' = store /\
              \E t, r : late' = late \cup {<<t, r, Del(LockName[j])>>}
  PROVE  LockInv'
<1> USE RedisStorageAssumption
<1>1. \A d \in Clients : ~ Inside(d, j)'
  BY DEF LockInv, MutualExclusion
<1>2. LateUnlocks(j) = {} /\ store[LockName[j]] = Locked
  BY DEF LockInv, InsideMeansLocked
<1>3. ASSUME NEW k \in Keys, k # j
      PROVE  /\ store'[LockName[k]] = store[LockName[k]]
             /\ LateUnlocks(k)' = LateUnlocks(k)
  <2>1. CASE Execute(Del(LockName[j])) /\ late' = late
    <3>1. LockName[k] \in Names \ {LockName[j]}
      BY <1>3
    <3>2. store'[LockName[k]] = store[LockName[k]]
      BY <2>1, <3>1, PutEffect, DelIsPut
    <3> QED
      BY <2>1, <3>2 DEF LateUnlocks
  <2>2. CASE store' = store /\
              \E t, r : late' = late \cup {<<t, r, Del(LockName[j])>>}
    <3>1. PICK t, r : late' = late \cup {<<t, r, Del(LockName[j])>>}
      BY <2>2
    <3>2. Del(LockName[j]) # Del(LockName[k])
      BY <1>3, LockDeletions
    <3>3. LateUnlocks(k)' = LateUnlocks(k)
      BY <3>1, <3>2, LateGrows
    <3> QED
      BY <2>2, <3>3
  <2> QED
    BY <2>1, <2>2
<1>4. \/ LateUnlocks(j)' = {}
      \/ /\ store'[LockName[j]] = Locked
         /\ \A m, n \in LateUnlocks(j)' : m = n
  <2>1. CASE late' = late
    BY <1>2, <2>1 DEF LateUnlocks
  <2>2. CASE store' = store /\
              \E t, r : late' = late \cup {<<t, r, Del(LockName[j])>>}
    BY <1>2, <2>2, LateGrows
  <2> QED
    BY <2>1, <2>2
<1> QED
  BY <1>1, <1>3, <1>4 DEF LockInv, MutualExclusion, InsideMeansLocked

(* A command answered or given up on, by where the client stood. *)
Executed(c) == Execute(Command(c)) /\ UNCHANGED late
GivenUp(c)  == Later(c) /\ UNCHANGED store

LEMMA LockPlace ==
  ASSUME NoAliasing, TypeOK, LockInv, NEW c \in Clients, pc[c] = "lock",
         UNCHANGED op,
         \/ Executed(c) /\ LockAnswered(c, Succeeds(c))
         \/ (Executed(c) \/ GivenUp(c)) /\ pc' = [pc EXCEPT ![c] = "idle"]
  PROVE  LockInv'
<1> USE RedisStorageAssumption
<1> DEFINE j == op[c].key
<1>1. j \in Keys /\ Command(c) = SetNx(LockName[j])
  BY DEF TypeOK, Operations, Command, LockOf
<1>2. CASE Executed(c) /\ LockAnswered(c, Succeeds(c)) /\ Succeeds(c)
  <2>1. store[LockName[j]] = Absent /\ store'[LockName[j]] = Locked
    BY <1>1, <1>2, SetNxEffect DEF Executed, Succeeds, LockOf
  <2>2. /\ \A d \in Clients : ~ Inside(d, j)
        /\ LateUnlocks(j) = {}
    BY <1>1, <2>1 DEF LockInv, InsideMeansLocked
  <2>3. \A k \in Keys, d \in Clients :
           Inside(d, k)' => Inside(d, k) \/ (d = c /\ k = j)
    <3>1. \E place : pc' = [pc EXCEPT ![c] = place]
      BY <1>2 DEF LockAnswered, Goes
    <3>2. \A d \in Clients \ {c} : pc'[d] = pc[d]
      BY <3>1 DEF TypeOK
    <3>3. \A k \in Keys, d \in Clients :
             Inside(d, k)' => op[d].key = k /\ (d # c => Inside(d, k))
      BY <3>2 DEF Inside
    <3> QED
      BY <3>3
  <2>4. ASSUME NEW k \in Keys
        PROVE  /\ LateUnlocks(k)' = LateUnlocks(k)
               /\ store[LockName[k]] = Locked => store'[LockName[k]] = Locked
    BY <1>1, <1>2, SetNxEffect DEF Executed, LateUnlocks
  <2>5. LateForm'
    BY <1>2 DEF LockInv, LateForm, Executed
  <2> QED
    BY <1>1, <2>1, <2>2, <2>3, <2>4, <2>5
    DEF LockInv, MutualExclusion, InsideMeansLocked
<1>3. CASE pc' = [pc EXCEPT ![c] = "idle"]
  <2>1. \A k \in Keys, d \in Clients : Inside(d, k)' => Inside(d, k)
    BY <1>3 DEF Inside, TypeOK
  <2>2. CASE Executed(c)
    <3>1. \A k \in Keys : /\ LateUnlocks(k)' = LateUnlocks(k)
                          /\ store[LockName[k]] = Locked
                               => store'[LockName[k]] = Locked
      BY <1>1, <2>2, SetNxEffect DEF Executed, LateUnlocks
    <3>2. LateForm'
      BY <2>2 DEF LockInv, LateForm, Executed
    <3> QED
      BY <2>1, <3>1, <3>2, LockQuiet
  <2>3. CASE GivenUp(c)
    <3>1. late' = late \cup {<<timeouts, crashes, SetNx(LockName[j])>>}
      BY <1>1, <2>3 DEF GivenUp, Later
    <3>2. ASSUME NEW k \in Keys PROVE LateUnlocks(k)' = LateUnlocks(k)
      <4>1. SetNx(LockName[j]) # Del(LockName[k])
        BY <1>1, LockDeletions
      <4> QED
        BY <3>1, <4>1, LateGrows
    <3>3. LateForm'
      BY <1>1, <3>1 DEF LockInv, LateForm
    <3> QED
      BY <2>1, <2>3, <3>2, <3>3, LockQuiet DEF GivenUp
  <2> QED
    BY <1>3, <2>2, <2>3 DEF LockAnswered, Goes
<1>4. CASE LockAnswered(c, Succeeds(c)) /\ ~ Succeeds(c)
  BY <1>3, <1>4 DEF LockAnswered, Goes
<1> QED
  BY <1>2, <1>3, <1>4

LEMMA CommandPlace ==
  ASSUME NoAliasing, TypeOK, LockInv, NEW c \in Clients, pc[c] = "command",
         UNCHANGED op, Executed(c) \/ GivenUp(c),
         \E place \in {"unlock", "idle"} : pc' = [pc EXCEPT ![c] = place]
  PROVE  LockInv'
<1> USE RedisStorageAssumption
<1> DEFINE j == op[c].key  v == op[c].value
<1>1. /\ j \in Keys /\ v \in Values \cup {Absent}
      /\ Command(c) = Set(j, v)
  BY DEF TypeOK, Operations, Command
<1>2. \A k \in Keys, d \in Clients : Inside(d, k)' => Inside(d, k)
  BY DEF Inside, TypeOK
<1>3. CASE Executed(c)
  <2>1. \A k \in Keys : store'[LockName[k]] = store[LockName[k]]
    BY <1>1, <1>3, PutEffect DEF Executed, NoAliasing
  <2>2. LateForm' /\ \A k \in Keys : LateUnlocks(k)' = LateUnlocks(k)
    BY <1>3 DEF LockInv, LateForm, LateUnlocks, Executed
  <2> QED
    BY <1>2, <2>1, <2>2, LockQuiet
<1>4. CASE GivenUp(c)
  <2>1. late' = late \cup {<<timeouts, crashes, Set(j, v)>>}
    BY <1>1, <1>4 DEF GivenUp, Later
  <2>2. \A k \in Keys : LateUnlocks(k)' = LateUnlocks(k)
    <3>1. \A k \in Keys : Set(j, v) # Del(LockName[k])
      BY <1>1, LockCommands
    <3> QED
      BY <2>1, <3>1, LateGrows
  <2>3. LateForm'
    BY <1>1, <2>1 DEF LockInv, LateForm
  <2> QED
    BY <1>2, <1>4, <2>2, <2>3, LockQuiet DEF GivenUp
<1> QED
  BY <1>3, <1>4

LEMMA UnlockPlace ==
  ASSUME NoAliasing, TypeOK, LockInv, NEW c \in Clients, pc[c] = "unlock",
         UNCHANGED op, Executed(c) \/ GivenUp(c),
         pc' = [pc EXCEPT ![c] = "idle"]
  PROVE  LockInv'
<1> DEFINE j == op[c].key
<1>1. j \in Keys /\ Command(c) = Del(LockName[j]) /\ Inside(c, j)
  BY DEF TypeOK, Operations, Command, LockOf, Inside
<1>2. \A k \in Keys, d \in Clients : Inside(d, k)' <=> Inside(d, k) /\ d # c
  BY DEF Inside, TypeOK
<1>3. CASE Executed(c)
  <2>1. LateForm' /\ Execute(Del(LockName[j])) /\ late' = late
    BY <1>1, <1>3 DEF Executed, LockInv, LateForm
  <2> QED
    BY <1>1, <1>2, <2>1, LockReleased
<1>4. CASE GivenUp(c)
  <2>1. late' = late \cup {<<timeouts, crashes, Del(LockName[j])>>}
    BY <1>1, <1>4 DEF GivenUp, Later
  <2>2. LateForm'
    BY <1>1, <2>1 DEF LockInv, LateForm
  <2> QED
    BY <1>1, <1>2, <1>4, <2>1, <2>2, LockReleased DEF GivenUp
<1> QED
  BY <1>3, <1>4

LEMMA LandingPlace ==
  ASSUME NoAliasing, TypeOK, LockInv, NEW m \in late, Lands(m)
  PROVE  LockInv'
<1> USE RedisStorageAssumption
<1>1. \A k \in Keys, d \in Clients : Inside(d, k)' <=> Inside(d, k)
  BY DEF Lands, Inside
<1>2. /\ LateForm' /\ Execute(m[3])
      /\ \A k \in Keys : LateUnlocks(k)' = LateUnlocks(k) \ {m}
  BY DEF Lands, LockInv, LateForm, LateUnlocks
<1>3. CASE \E j \in Keys : m[3] = SetNx(LockName[j])
  <2>1. \A k \in Keys : store[LockName[k]] = Locked
                         => store'[LockName[k]] = Locked
    BY <1>2, <1>3, SetNxEffect
  <2> QED
    BY <1>1, <1>2, <2>1, LockQuiet
<1>4. CASE \E j \in Keys, v \in Values \cup {Absent} : m[3] = Set(j, v)
  <2>1. \A k \in Keys : store'[LockName[k]] = store[LockName[k]]
    BY <1>2, <1>4, PutEffect DEF NoAliasing
  <2> QED
    BY <1>1, <1>2, <2>1, LockQuiet
<1>5. ASSUME NEW j \in Keys, m[3] = Del(LockName[j]) PROVE LockInv'
  <2>1. m \in LateUnlocks(j)
    BY <1>5 DEF LateUnlocks
  <2>2. LateUnlocks(j)' = {} /\ \A d \in Clients : ~ Inside(d, j)'
    BY <1>1, <1>2, <2>1 DEF LockInv
  <2>3. ASSUME NEW k \in Keys, k # j
        PROVE  store'[LockName[k]] = store[LockName[k]]
    <3>1. LockName[k] \in Names \ {LockName[j]}
      BY <2>3
    <3> QED
      BY <1>2, <1>5, <3>1, PutEffect, DelIsPut
  <2> QED
    BY <1>1, <1>2, <2>2, <2>3 DEF LockInv, MutualExclusion, InsideMeansLocked
<1> QED
  BY <1>3, <1>4, <1>5 DEF LockInv, LateForm

LEMMA LockInvariant == NoAliasing /\ Spec => []LockInv
<1>1. NoAliasing /\ Init => LockInv
  BY DEF Init, LockInv, LateForm, MutualExclusion, InsideMeansLocked, Inside,
     LateUnlocks
<1>2. NoAliasing /\ TypeOK /\ LockInv /\ [Next]_vars => LockInv'
  <2> SUFFICES ASSUME NoAliasing, TypeOK, LockInv, [Next]_vars PROVE LockInv'
    OBVIOUS
  <2>1. ASSUME NEW c \in Clients, NEW k \in Keys,
               NEW kind \in {"set", "erase", "hold"},
               NEW v \in Values \cup {Absent}, Begin(c, kind, k, v)
        PROVE  LockInv'
    <3>1. \A j \in Keys, d \in Clients : Inside(d, j)' => Inside(d, j)
      BY <2>1 DEF Begin, Goes, Inside, TypeOK
    <3>2. LateForm' /\ \A j \in Keys : LateUnlocks(j)' = LateUnlocks(j)
      BY <2>1 DEF Begin, LockInv, LateForm, LateUnlocks
    <3> QED
      BY <2>1, <3>1, <3>2, LockQuiet DEF Begin
  <2>2. ASSUME NEW c \in Clients, Unlock(c) PROVE LockInv'
    <3>1. \A j \in Keys, d \in Clients : Inside(d, j)' => Inside(d, j)
      BY <2>2 DEF Unlock, Goes, Inside, TypeOK
    <3>2. LateForm' /\ \A j \in Keys : LateUnlocks(j)' = LateUnlocks(j)
      BY <2>2 DEF Unlock, LockInv, LateForm, LateUnlocks
    <3> QED
      BY <2>2, <3>1, <3>2, LockQuiet DEF Unlock
  <2>3. ASSUME NEW c \in Clients, Replied(c) PROVE LockInv'
    <3>1. Executed(c) /\ UNCHANGED op /\ Continues(c, Succeeds(c))
      BY <2>3 DEF Replied, Executed
    <3>2. CASE LockAnswered(c, Succeeds(c))
      BY <3>1, <3>2, LockPlace DEF LockAnswered
    <3>3. CASE CommandAnswered(c, Succeeds(c))
      BY <3>1, <3>3, CommandPlace DEF CommandAnswered, Goes
    <3>4. CASE UnlockAnswered(c)
      BY <3>1, <3>4, UnlockPlace DEF UnlockAnswered, Goes
    <3> QED
      BY <3>1, <3>2, <3>3, <3>4 DEF Continues
  <2>4. ASSUME NEW c \in Clients, ReplyLost(c) \/ Delayed(c) PROVE LockInv'
    <3>1. /\ Executed(c) \/ GivenUp(c)
          /\ UNCHANGED op /\ Continues(c, FALSE)
      BY <2>4 DEF ReplyLost, Delayed, Executed, GivenUp
    <3>2. CASE LockAnswered(c, FALSE)
      BY <3>1, <3>2, LockPlace DEF LockAnswered, Goes
    <3>3. CASE CommandAnswered(c, FALSE)
      BY <3>1, <3>3, CommandPlace DEF CommandAnswered, Goes
    <3>4. CASE UnlockAnswered(c)
      BY <3>1, <3>4, UnlockPlace DEF UnlockAnswered, Goes
    <3> QED
      BY <3>1, <3>2, <3>3, <3>4 DEF Continues
  <2>5. ASSUME NEW c \in Clients, Crash(c) PROVE LockInv'
    <3>1. pc' = [pc EXCEPT ![c] = "idle"] /\ UNCHANGED <<op, store>>
      BY <2>5 DEF Crash, Goes
    <3>2. CASE UNCHANGED late
      <4>1. \A j \in Keys, d \in Clients : Inside(d, j)' => Inside(d, j)
        BY <3>1 DEF Inside, TypeOK
      <4>2. LateForm' /\ \A j \in Keys : LateUnlocks(j)' = LateUnlocks(j)
        BY <3>2 DEF LockInv, LateForm, LateUnlocks
      <4> QED
        BY <3>1, <4>1, <4>2, LockQuiet
    <3>3. CASE Sending(c) /\ Later(c)
      BY <3>1, <3>3, LockPlace, CommandPlace, UnlockPlace DEF GivenUp, Sending
    <3> QED
      BY <2>5, <3>2, <3>3 DEF Crash
  <2>6. ASSUME NEW m \in late, Lands(m) PROVE LockInv'
    BY <2>6, LandingPlace
  <2>7. CASE UNCHANGED vars
    BY <2>7 DEF vars, LockInv, LateForm, MutualExclusion, InsideMeansLocked,
       Inside, LateUnlocks
  <2> QED
    BY <2>1, <2>2, <2>3, <2>4, <2>5, <2>6, <2>7
    DEF Next, ClientStep, Write, Update, Erase, TryLock
<1>3. NoAliasing => NoAliasing'
  BY DEF NoAliasing
<1> QED
  BY <1>1, <1>2, <1>3, TypeCorrect, PTL DEF Spec

(* At most one client is inside an operation on a key.                     *)
THEOREM LocksExclude == NoAliasing /\ Spec => []MutualExclusion
BY LockInvariant, PTL DEF LockInv

(* Whoever is inside has its lock in the server.                           *)
THEOREM LocksAreVisible == NoAliasing /\ Spec => []InsideMeansLocked
BY LockInvariant, PTL DEF LockInv

-----------------------------------------------------------------------------
(* Orphaned locks.                                                         *)

(* Nothing but the deletion of k's own lock removes it. *)
LEMMA LocksRemain ==
  ASSUME NoAliasing, TypeOK, LockInv, [Next]_vars, NEW k \in Keys, Orphaned(k)
  PROVE  Orphaned(k)'
<1> USE RedisStorageAssumption
<1> DEFINE l == LockName[k]
<1>1. /\ l \in Names /\ store[l] = Locked /\ Locked # Absent
      /\ \A c \in Clients : ~ Inside(c, k)
      /\ LateUnlocks(k) = {}
  BY DEF Orphaned
<1>2. ASSUME NEW m, m # Del(l), Execute(m),
             \/ \E j \in Keys : m = SetNx(LockName[j])
             \/ \E j \in Keys : m = Del(LockName[j])
             \/ \E j \in Keys, v \in Values \cup {Absent} : m = Set(j, v)
      PROVE  store'[l] = Locked
  <2>1. CASE \E j \in Keys : m = SetNx(LockName[j])
    BY <1>1, <1>2, <2>1, SetNxEffect
  <2>2. ASSUME NEW j \in Keys, m = Del(LockName[j]) PROVE store'[l] = Locked
    BY <1>1, <1>2, <2>2, PutEffect, DelIsPut
  <2>3. CASE \E j \in Keys, v \in Values \cup {Absent} : m = Set(j, v)
    BY <1>1, <1>2, <2>3, PutEffect DEF NoAliasing
  <2> QED
    BY <1>2, <2>1, <2>2, <2>3
<1>3. ASSUME NEW c \in Clients, Sending(c)
      PROVE  /\ Command(c) # Del(l)
             /\ \/ \E j \in Keys : Command(c) = SetNx(LockName[j])
                \/ \E j \in Keys : Command(c) = Del(LockName[j])
                \/ \E j \in Keys, v \in Values \cup {Absent} :
                     Command(c) = Set(j, v)
             /\ pc[c] = "lock" /\ op[c].key = k => ~ Succeeds(c)
  <2>1. op[c].key \in Keys /\ op[c].value \in Values \cup {Absent}
    BY DEF TypeOK, Operations
  <2>2. pc[c] = "unlock" => op[c].key # k
    BY <1>1 DEF Inside
  <2>3. pc[c] = "lock" /\ op[c].key = k => ~ Succeeds(c)
    BY <1>1 DEF Succeeds, LockOf
  <2> QED
    BY <1>3, <2>1, <2>2, <2>3, CommandSent, LockCommands DEF LockOf
<1>4. ASSUME NEW c \in Clients, Later(c), Sending(c)
      PROVE  LateUnlocks(k)' = {}
  BY <1>1, <1>3, <1>4 DEF Later, LateUnlocks
<1>5. ASSUME NEW c \in Clients, NEW place, pc' = [pc EXCEPT ![c] = place],
             op' = op \/ place = "lock",
             place \in {"idle", "lock"} \/ pc[c] \in {"command", "holding"}
               \/ op[c].key # k,
             \A d \in Clients \ {c} : op'[d] = op[d]
      PROVE  \A d \in Clients : ~ Inside(d, k)'
  BY <1>1, <1>5 DEF Inside, TypeOK
<1>6. ASSUME NEW c \in Clients, Replied(c) \/ ReplyLost(c) PROVE Orphaned(k)'
  <2>1. /\ Sending(c) /\ Execute(Command(c)) /\ late' = late /\ op' = op
        /\ Continues(c, Succeeds(c)) \/ Continues(c, FALSE)
    BY <1>6 DEF Replied, ReplyLost
  <2>2. store'[l] = Locked
    BY <1>2, <1>3, <2>1
  <2>3. \A d \in Clients : ~ Inside(d, k)'
    <3>1. CASE pc[c] = "lock"
      <4>1. PICK place : /\ pc' = [pc EXCEPT ![c] = place]
                         /\ place = "idle" \/ op[c].key # k
        BY <1>3, <2>1, <3>1
        DEF Continues, LockAnswered, CommandAnswered, UnlockAnswered, Goes
      <4> QED
        BY <1>5, <2>1, <4>1
    <3>2. CASE pc[c] = "command"
      <4>1. pc' = [pc EXCEPT ![c] = "unlock"]
        BY <2>1, <3>2
        DEF Continues, LockAnswered, CommandAnswered, UnlockAnswered, Goes
      <4> QED
        BY <1>5, <2>1, <3>2, <4>1
    <3>3. CASE pc[c] = "unlock"
      <4>1. pc' = [pc EXCEPT ![c] = "idle"]
        BY <2>1, <3>3
        DEF Continues, LockAnswered, CommandAnswered, UnlockAnswered, Goes
      <4> QED
        BY <1>5, <2>1, <4>1
    <3> QED
      BY <2>1, <3>1, <3>2, <3>3 DEF Sending
  <2> QED
    BY <1>1, <2>1, <2>2, <2>3 DEF Orphaned, LateUnlocks
<1>7. ASSUME NEW c \in Clients, Delayed(c) \/ Crash(c) PROVE Orphaned(k)'
  <2>1. /\ op' = op /\ store' = store
        /\ \/ Delayed(c) /\ Sending(c) /\ Later(c) /\ Continues(c, FALSE)
           \/ /\ pc' = [pc EXCEPT ![c] = "idle"]
              /\ late' = late \/ (Sending(c) /\ Later(c))
    BY <1>7 DEF Delayed, Crash, Goes
  <2>2. LateUnlocks(k)' = {}
    BY <1>1, <1>4, <2>1 DEF LateUnlocks
  <2>3. PICK place : /\ pc' = [pc EXCEPT ![c] = place]
                     /\ place = "idle" \/ pc[c] = "command"
    BY <2>1
    DEF Continues, LockAnswered, CommandAnswered, UnlockAnswered, Goes
  <2>4. \A d \in Clients : ~ Inside(d, k)'
    BY <1>5, <2>1, <2>3
  <2> QED
    BY <1>1, <2>1, <2>2, <2>4 DEF Orphaned
<1>8. ASSUME NEW m \in late, Lands(m) PROVE Orphaned(k)'
  <2>1. /\ Execute(m[3]) /\ UNCHANGED <<pc, op>> /\ late' = late \ {m}
        /\ m[3] # Del(l)
    BY <1>1, <1>8 DEF Lands, LateUnlocks
  <2>2. store'[l] = Locked
    BY <1>2, <2>1 DEF LockInv, LateForm
  <2> QED
    BY <1>1, <2>1, <2>2 DEF Orphaned, LateUnlocks, Inside
<1>9. ASSUME NEW c \in Clients, NEW j \in Keys,
             NEW kind \in {"set", "erase", "hold"},
             NEW v \in Values \cup {Absent}, Begin(c, kind, j, v)
      PROVE  Orphaned(k)'
  <2>1. \A d \in Clients : ~ Inside(d, k)'
    <3>1. /\ pc' = [pc EXCEPT ![c] = "lock"]
          /\ \A d \in Clients \ {c} : op'[d] = op[d]
      BY <1>9 DEF Begin, Goes, TypeOK
    <3> QED
      BY <1>5, <3>1
  <2> QED
    BY <1>1, <1>9, <2>1 DEF Begin, Orphaned, LateUnlocks
<1>10. ASSUME NEW c \in Clients, Unlock(c) PROVE Orphaned(k)'
  <2>1. \A d \in Clients : ~ Inside(d, k)'
    BY <1>5, <1>10 DEF Unlock, Goes
  <2> QED
    BY <1>1, <1>10, <2>1 DEF Unlock, Orphaned, LateUnlocks
<1>11. CASE UNCHANGED vars
  BY <1>1, <1>11 DEF vars, Orphaned, LateUnlocks, Inside
<1> QED
  BY <1>6, <1>7, <1>8, <1>9, <1>10, <1>11
  DEF Next, ClientStep, Write, Update, Erase, TryLock

(* A lock left behind by a lost answer or a crash is there for ever.       *)
THEOREM OrphansAreForEver == NoAliasing /\ Spec => OrphansStay
<1>1. NoAliasing /\ TypeOK /\ LockInv /\ [Next]_vars
        => [\A k \in Keys : Orphaned(k) => Orphaned(k)']_vars
  BY LocksRemain
<1>2. NoAliasing => NoAliasing'
  BY DEF NoAliasing
<1> QED
  BY <1>1, <1>2, TypeCorrect, LockInvariant, PTL DEF Spec, OrphansStay

-----------------------------------------------------------------------------
(* The storage implements the locked store.                                *)
AbsValue     == [k \in Keys |-> store[k]]
AbsOwner     == [k \in Keys |-> Owner(k)]
AbsConfirmed == [c \in Clients |-> Confirmed(c)]
AbsLimbo     == {<<m[3].name, m[3].value>> : m \in {l \in late : l[3].name \in Keys}}

(* What a client's place says of the kind of its operation. *)
KindInv ==
  \A c \in Clients :
    /\ pc[c] = "holding" => op[c].kind = "hold"
    /\ pc[c] = "command" => op[c].kind # "hold"

LEMMA KindInvariant == Spec => []KindInv
<1>1. Init => KindInv
  BY DEF Init, KindInv
<1>2. TypeOK /\ KindInv /\ [Next]_vars => KindInv'
  <2> SUFFICES ASSUME TypeOK, KindInv, [Next]_vars PROVE KindInv'
    OBVIOUS
  <2> USE DEF TypeOK, KindInv, Goes
  <2>1. ASSUME NEW c \in Clients, NEW k \in Keys,
               NEW kind \in {"set", "erase", "hold"},
               NEW v \in Values \cup {Absent}, Begin(c, kind, k, v)
        PROVE  KindInv'
    BY <2>1 DEF Begin
  <2>2. ASSUME NEW c \in Clients, NEW ok, Continues(c, ok), UNCHANGED op
        PROVE  KindInv'
    BY <2>2 DEF Continues, LockAnswered, CommandAnswered, UnlockAnswered
  <2>3. ASSUME NEW c \in Clients, Unlock(c) \/ Crash(c) PROVE KindInv'
    BY <2>3 DEF Unlock, Crash
  <2>4. ASSUME NEW m \in late, Lands(m) PROVE KindInv'
    BY <2>4 DEF Lands
  <2>5. CASE UNCHANGED vars
    BY <2>5 DEF vars
  <2> QED
    BY <2>1, <2>2, <2>3, <2>4, <2>5
    DEF Next, ClientStep, Write, Update, Erase, TryLock, Replied, ReplyLost, Delayed
<1> QED
  BY <1>1, <1>2, TypeCorrect, PTL DEF Spec

(* The owner is whoever is inside. *)
LEMMA OwnerIs ==
  ASSUME MutualExclusion, NEW k \in Keys
  PROVE  /\ \A c \in Clients : Inside(c, k) => Owner(k) = c
         /\ (\A c \in Clients : ~ Inside(c, k)) => Owner(k) = Nobody
BY DEF MutualExclusion, Owner

LEMMA OwnerIsNext ==
  ASSUME MutualExclusion', NEW k \in Keys
  PROVE  /\ \A c \in Clients : Inside(c, k)' => Owner(k)' = c
         /\ (\A c \in Clients : ~ Inside(c, k)') => Owner(k)' = Nobody
BY DEF MutualExclusion, Owner

LEMMA OwnersStay ==
  ASSUME MutualExclusion, MutualExclusion',
         \A k \in Keys, d \in Clients : Inside(d, k)' <=> Inside(d, k)
  PROVE  AbsOwner' = AbsOwner
<1>1. \A k \in Keys : Owner(k)' = Owner(k)
  BY OwnerIs, OwnerIsNext
<1> QED
  BY <1>1 DEF AbsOwner

LEMMA OwnerEnters ==
  ASSUME MutualExclusion, MutualExclusion', NEW c \in Clients, NEW j \in Keys,
         \A d \in Clients : ~ Inside(d, j), Inside(c, j)',
         \A k \in Keys \ {j}, d \in Clients : Inside(d, k)' <=> Inside(d, k)
  PROVE  AbsOwner[j] = Nobody /\ AbsOwner' = [AbsOwner EXCEPT ![j] = c]
<1>1. \A k \in Keys \ {j} : Owner(k)' = Owner(k)
  BY OwnerIs, OwnerIsNext
<1>2. Owner(j) = Nobody /\ Owner(j)' = c
  BY OwnerIs, OwnerIsNext
<1> QED
  BY <1>1, <1>2 DEF AbsOwner

LEMMA OwnerLeaves ==
  ASSUME MutualExclusion, MutualExclusion', NEW c \in Clients, NEW j \in Keys,
         Inside(c, j),
         \A k \in Keys, d \in Clients : Inside(d, k)' <=> Inside(d, k) /\ d # c
  PROVE  AbsOwner[j] = c /\ AbsOwner' = [AbsOwner EXCEPT ![j] = Nobody]
<1>1. \A k \in Keys \ {j} : Owner(k)' = Owner(k)
  <2>1. \A k \in Keys \ {j} : ~ Inside(c, k)
    BY DEF Inside
  <2> QED
    BY <2>1, OwnerIs, OwnerIsNext
<1>2. \A d \in Clients : ~ Inside(d, j)'
  BY DEF MutualExclusion
<1>3. Owner(j) = c /\ Owner(j)' = Nobody
  BY <1>2, OwnerIs, OwnerIsNext
<1> QED
  BY <1>1, <1>3 DEF AbsOwner

LEMMA LimboGrows ==
  ASSUME NEW m, NEW t, NEW r, late' = late \cup {<<t, r, m>>}
  PROVE  /\ m.name \notin Keys => AbsLimbo' = AbsLimbo
         /\ m.name \in Keys => AbsLimbo' = AbsLimbo \cup {<<m.name, m.value>>}
<1> DEFINE n == <<t, r, m>>
<1>1. n[3] = m /\ late' = late \cup {n}
  OBVIOUS
<1> HIDE DEF n
<1>2. AbsLimbo \subseteq AbsLimbo'
  BY <1>1 DEF AbsLimbo
<1>3. \A e \in AbsLimbo' : e \in AbsLimbo \/ (m.name \in Keys /\ e = <<m.name, m.value>>)
  BY <1>1 DEF AbsLimbo
<1>4. m.name \in Keys => <<m.name, m.value>> \in AbsLimbo'
  BY <1>1 DEF AbsLimbo
<1> QED
  BY <1>2, <1>3, <1>4

LEMMA LimboStays ==
  ASSUME late' = late PROVE AbsLimbo' = AbsLimbo
BY DEF AbsLimbo

LEMMA LimboLoses ==
  ASSUME NEW m \in late, late' = late \ {m}
  PROVE  /\ m[3].name \notin Keys => AbsLimbo' = AbsLimbo
         /\ m[3].name \in Keys =>
              /\ <<m[3].name, m[3].value>> \in AbsLimbo
              /\ AbsLimbo' \in {AbsLimbo, AbsLimbo \ {<<m[3].name, m[3].value>>}}
<1> DEFINE x == <<m[3].name, m[3].value>>
<1>1. m[3].name \notin Keys => AbsLimbo' = AbsLimbo
  BY DEF AbsLimbo
<1>2. m[3].name \in Keys => x \in AbsLimbo
  BY DEF AbsLimbo
<1>3. \A e \in AbsLimbo' : e \in AbsLimbo
  BY DEF AbsLimbo
<1>4. \A e \in AbsLimbo : e # x => e \in AbsLimbo'
  <2>1. ASSUME NEW l \in late, l[3].name \in Keys, <<l[3].name, l[3].value>> # x
        PROVE  <<l[3].name, l[3].value>> \in AbsLimbo'
    <3>1. l \in late' /\ l[3].name \in Keys
      BY <2>1
    <3> QED
      BY <3>1 DEF AbsLimbo
  <2> QED
    BY <2>1 DEF AbsLimbo
<1>5. AbsLimbo' = AbsLimbo \/ AbsLimbo' = AbsLimbo \ {x}
  <2> HIDE DEF x
  <2>1. CASE x \in AbsLimbo'
    BY <1>3, <1>4, <2>1
  <2>2. CASE x \notin AbsLimbo'
    BY <1>3, <1>4, <2>2
  <2> QED
    BY <2>1, <2>2
<1> QED
  BY <1>1, <1>2, <1>5

(* A command about a lock changes no key's value. *)
LEMMA LocksAreNotKeys ==
  ASSUME NoAliasing, TypeOK, NEW j \in Keys,
         Execute(SetNx(LockName[j])) \/ Execute(Del(LockName[j]))
  PROVE  AbsValue' = AbsValue
<1>1. ASSUME NEW k \in Keys PROVE k \in Names \ {LockName[j]}
  BY RedisStorageAssumption DEF NoAliasing
<1>2. \A k \in Keys : store'[k] = store[k]
  BY <1>1, SetNxEffect, PutEffect, DelIsPut, RedisStorageAssumption
<1> QED
  BY <1>2 DEF AbsValue

(* A command about a key changes the value of that key. *)
LEMMA ValuePut ==
  ASSUME TypeOK, NEW j \in Keys, NEW v \in Values \cup {Absent}, Execute(Set(j, v))
  PROVE  AbsValue' = [AbsValue EXCEPT ![j] = v]
<1>1. j \in Names /\ Keys \subseteq Names
  BY RedisStorageAssumption
<1>2. store'[j] = v /\ \A k \in Keys \ {j} : store'[k] = store[k]
  BY <1>1, PutEffect
<1> QED
  BY <1>2 DEF AbsValue

(* What is confirmed. *)
LEMMA ConfirmedStays ==
  ASSUME \A d \in Clients : Confirmed(d)' = Confirmed(d)
  PROVE  AbsConfirmed' = AbsConfirmed
BY DEF AbsConfirmed

LEMMA ConfirmedIs ==
  ASSUME NEW c \in Clients, NEW b, Confirmed(c)' = b,
         \A d \in Clients \ {c} : Confirmed(d)' = Confirmed(d)
  PROVE  AbsConfirmed' = [AbsConfirmed EXCEPT ![c] = b]
BY DEF AbsConfirmed

(* The store's steps, in the words of these. *)
Abstract == <<AbsValue, AbsOwner, AbsConfirmed, AbsLimbo>>

LEMMA Stutters ==
  ASSUME UNCHANGED Abstract PROVE UNCHANGED Promise!vars
BY DEF Abstract, Promise!vars, AbsValue, AbsOwner, AbsConfirmed, AbsLimbo

LEMMA Acquires ==
  ASSUME NEW c \in Clients, NEW k \in Keys, AbsOwner[k] = Nobody,
         AbsOwner' = [AbsOwner EXCEPT ![k] = c],
         UNCHANGED <<AbsValue, AbsConfirmed, AbsLimbo>>
  PROVE  Promise!Next
<1>1. Promise!Acquire(c, k)
  BY DEF Promise!Acquire, AbsValue, AbsOwner, AbsConfirmed, AbsLimbo
<1> QED
  BY <1>1 DEF Promise!Next

LEMMA Applies ==
  ASSUME NEW c \in Clients, NEW k \in Keys, NEW v \in Values \cup {Absent},
         AbsOwner[k] = c, AbsValue' = [AbsValue EXCEPT ![k] = v],
         AbsConfirmed' \in {AbsConfirmed, [AbsConfirmed EXCEPT ![c] = TRUE]},
         UNCHANGED <<AbsOwner, AbsLimbo>>
  PROVE  Promise!Next
<1>1. Promise!Apply(c, k, v)
  BY DEF Promise!Apply, AbsValue, AbsOwner, AbsConfirmed, AbsLimbo
<1> QED
  BY <1>1 DEF Promise!Next

LEMMA GivesUp ==
  ASSUME NEW c \in Clients, NEW k \in Keys, NEW v \in Values \cup {Absent},
         AbsOwner[k] = c, AbsLimbo' = AbsLimbo \cup {<<k, v>>},
         UNCHANGED <<AbsValue, AbsOwner, AbsConfirmed>>
  PROVE  Promise!Next
<1>1. Promise!GiveUp(c, k, v)
  BY DEF Promise!GiveUp, AbsValue, AbsOwner, AbsConfirmed, AbsLimbo
<1> QED
  BY <1>1 DEF Promise!Next

LEMMA Releases ==
  ASSUME NEW c \in Clients, NEW k \in Keys, AbsOwner[k] = c,
         AbsOwner' = [AbsOwner EXCEPT ![k] = Nobody],
         AbsConfirmed' = [AbsConfirmed EXCEPT ![c] = FALSE],
         \/ UNCHANGED AbsLimbo
         \/ \E v \in Values \cup {Absent} : AbsLimbo' = AbsLimbo \cup {<<k, v>>},
         UNCHANGED AbsValue
  PROVE  Promise!Next
<1>1. Promise!Release(c, k)
  BY DEF Promise!Release, AbsValue, AbsOwner, AbsConfirmed, AbsLimbo
<1> QED
  BY <1>1 DEF Promise!Next

LEMMA LandsAbove ==
  ASSUME NEW k \in Keys, NEW v \in Values \cup {Absent}, <<k, v>> \in AbsLimbo,
         AbsValue' = [AbsValue EXCEPT ![k] = v],
         AbsLimbo' \in {AbsLimbo, AbsLimbo \ {<<k, v>>}},
         UNCHANGED <<AbsOwner, AbsConfirmed>>
  PROVE  Promise!Next
<1>1. Promise!Land(k, v)
  BY DEF Promise!Land, AbsValue, AbsOwner, AbsConfirmed, AbsLimbo
<1> QED
  BY <1>1 DEF Promise!Next

(* Each step of the storage is one of the locked store's, or changes none  *)
(* of what that has.                                                       *)
LEMMA StepImplements ==
  ASSUME NoAliasing, TypeOK, KindInv, MutualExclusion, MutualExclusion', LockInv,
         [Next]_vars
  PROVE  Promise!Next \/ UNCHANGED Abstract
<1> USE RedisStorageAssumption
<1> DEFINE Goal == Promise!Next \/ UNCHANGED Abstract
<1>1. ASSUME NEW c \in Clients, NEW k \in Keys,
             NEW kind \in {"set", "erase", "hold"},
             NEW v \in Values \cup {Absent}, Begin(c, kind, k, v)
      PROVE  Goal
  <2>1. AbsOwner' = AbsOwner
    <3>1. \A j \in Keys, d \in Clients : Inside(d, j)' <=> Inside(d, j)
      BY <1>1 DEF Begin, Goes, Inside, TypeOK
    <3> QED
      BY <3>1, OwnersStay
  <2>2. AbsConfirmed' = AbsConfirmed
    <3>1. \A d \in Clients : Confirmed(d)' = Confirmed(d)
      BY <1>1 DEF Begin, Goes, Answers, Confirmed, TypeOK
    <3> QED
      BY <3>1, ConfirmedStays
  <2> QED
    BY <1>1, <2>1, <2>2, LimboStays DEF Begin, Abstract, AbsValue
<1>2. ASSUME NEW c \in Clients, Unlock(c) PROVE Goal
  <2>1. AbsOwner' = AbsOwner
    <3>1. \A j \in Keys, d \in Clients : Inside(d, j)' <=> Inside(d, j)
      BY <1>2 DEF Unlock, Goes, Inside, TypeOK
    <3> QED
      BY <3>1, OwnersStay
  <2>2. AbsConfirmed' = AbsConfirmed
    <3>1. \A d \in Clients : Confirmed(d)' = Confirmed(d)
      BY <1>2 DEF Unlock, Goes, Confirmed, TypeOK, KindInv
    <3> QED
      BY <3>1, ConfirmedStays
  <2> QED
    BY <1>2, <2>1, <2>2, LimboStays DEF Unlock, Abstract, AbsValue
<1>3. ASSUME NEW c \in Clients, pc[c] = "lock", UNCHANGED op,
             Executed(c), LockAnswered(c, TRUE), Succeeds(c)
      PROVE  Goal
  <2>1. PICK j \in Keys : j = op[c].key /\ Command(c) = SetNx(LockName[j])
    BY <1>3 DEF TypeOK, Operations, Command, LockOf
  <2>2. UNCHANGED <<AbsValue, AbsLimbo>>
    BY <1>3, <2>1, LocksAreNotKeys, LimboStays DEF Executed
  <2>3. AbsConfirmed' = AbsConfirmed
    <3>1. \A d \in Clients : Confirmed(d)' = Confirmed(d)
      BY <1>3 DEF LockAnswered, Goes, Answers, Confirmed, TypeOK
    <3> QED
      BY <3>1, ConfirmedStays
  <2>4. AbsOwner[j] = Nobody /\ AbsOwner' = [AbsOwner EXCEPT ![j] = c]
    <3>1. \A d \in Clients : ~ Inside(d, j)
      BY <1>3, <2>1 DEF Succeeds, LockOf, LockInv, InsideMeansLocked
    <3>2. Inside(c, j)'
      BY <1>3, <2>1 DEF LockAnswered, Goes, Inside, TypeOK
    <3>3. \A k \in Keys \ {j}, d \in Clients : Inside(d, k)' <=> Inside(d, k)
      BY <1>3, <2>1 DEF LockAnswered, Goes, Inside, TypeOK
    <3> QED
      BY <2>1, <3>1, <3>2, <3>3, OwnerEnters
  <2> QED
    BY <2>1, <2>2, <2>3, <2>4, Acquires
<1>4. ASSUME NEW c \in Clients, pc[c] = "lock", UNCHANGED op,
             Executed(c) \/ GivenUp(c), pc' = [pc EXCEPT ![c] = "idle"],
             \A d \in Clients \ {c} : answer'[d] = answer[d]
      PROVE  Goal
  <2>1. PICK j \in Keys : Command(c) = SetNx(LockName[j])
    BY <1>4 DEF TypeOK, Operations, Command, LockOf
  <2>2. UNCHANGED AbsValue
    BY <1>4, <2>1, LocksAreNotKeys DEF Executed, GivenUp, AbsValue
  <2>3. UNCHANGED AbsLimbo
    <3>1. Command(c).name \notin Keys
      BY <2>1 DEF SetNx, NoAliasing
    <3> QED
      BY <1>4, <3>1, LimboGrows, LimboStays DEF Executed, GivenUp, Later
  <2>4. AbsOwner' = AbsOwner
    <3>1. \A k \in Keys, d \in Clients : Inside(d, k)' <=> Inside(d, k)
      BY <1>4 DEF Inside, TypeOK
    <3> QED
      BY <3>1, OwnersStay
  <2>5. AbsConfirmed' = AbsConfirmed
    <3>1. \A d \in Clients : Confirmed(d)' = Confirmed(d)
      BY <1>4 DEF Confirmed, TypeOK
    <3> QED
      BY <3>1, ConfirmedStays
  <2> QED
    BY <2>2, <2>3, <2>4, <2>5 DEF Abstract
<1>5. ASSUME NEW c \in Clients, pc[c] = "command", UNCHANGED op, NEW ok \in BOOLEAN,
             CommandAnswered(c, ok), Executed(c) \/ (GivenUp(c) /\ ok = FALSE)
      PROVE  Goal
  <2>1. PICK j \in Keys, v \in Values \cup {Absent} :
          j = op[c].key /\ v = op[c].value /\ Command(c) = Set(j, v)
    BY <1>5 DEF TypeOK, Operations, Command
  <2>2. AbsOwner[j] = c
    <3>1. Inside(c, j)
      BY <1>5, <2>1 DEF Inside
    <3> QED
      BY <3>1, OwnerIs DEF AbsOwner
  <2>3. AbsOwner' = AbsOwner
    <3>1. \A k \in Keys, d \in Clients : Inside(d, k)' <=> Inside(d, k)
      BY <1>5 DEF CommandAnswered, Goes, Inside, TypeOK
    <3> QED
      BY <3>1, OwnersStay
  <2>4. AbsConfirmed' = IF ok THEN [AbsConfirmed EXCEPT ![c] = TRUE] ELSE AbsConfirmed
    <3>1. /\ Confirmed(c)' = ok /\ Confirmed(c) = FALSE
          /\ \A d \in Clients \ {c} : Confirmed(d)' = Confirmed(d)
      BY <1>5 DEF CommandAnswered, Goes, Answers, Confirmed, TypeOK, KindInv
    <3>2. CASE ok
      BY <3>1, <3>2, ConfirmedIs
    <3>3. CASE ~ ok
      BY <3>1, <3>3, ConfirmedStays
    <3> QED
      BY <3>2, <3>3
  <2>5. CASE Executed(c)
    <3>1. AbsValue' = [AbsValue EXCEPT ![j] = v]
      BY <2>1, <2>5, ValuePut DEF Executed
    <3>2. UNCHANGED AbsLimbo
      BY <2>5, LimboStays DEF Executed
    <3> QED
      BY <2>2, <2>3, <2>4, <3>1, <3>2, Applies
  <2>6. CASE GivenUp(c) /\ ok = FALSE
    <3>1. UNCHANGED AbsValue
      BY <2>6 DEF GivenUp, AbsValue
    <3>2. AbsLimbo' = AbsLimbo \cup {<<j, v>>}
      <4>1. Set(j, v).name = j /\ Set(j, v).value = v
        BY DEF Set
      <4> QED
        BY <2>1, <2>6, <4>1, LimboGrows DEF GivenUp, Later
    <3> QED
      BY <2>2, <2>3, <2>4, <2>6, <3>1, <3>2, GivesUp
  <2> QED
    BY <1>5, <2>5, <2>6
<1>6. ASSUME NEW c \in Clients, pc[c] \in {"command", "holding", "unlock"},
             UNCHANGED op, pc' = [pc EXCEPT ![c] = "idle"],
             \A d \in Clients \ {c} : answer'[d] = answer[d],
             \/ Executed(c) /\ pc[c] = "unlock"
             \/ GivenUp(c) /\ Sending(c)
             \/ UNCHANGED <<store, late>>
      PROVE  Goal
  <2>1. PICK j \in Keys : j = op[c].key /\ Inside(c, j)
    BY <1>6 DEF TypeOK, Operations, Inside
  <2>2. AbsOwner[j] = c /\ AbsOwner' = [AbsOwner EXCEPT ![j] = Nobody]
    <3>1. \A k \in Keys, d \in Clients : Inside(d, k)' <=> Inside(d, k) /\ d # c
      BY <1>6 DEF Inside, TypeOK
    <3> QED
      BY <2>1, <3>1, OwnerLeaves
  <2>3. AbsConfirmed' = [AbsConfirmed EXCEPT ![c] = FALSE]
    <3>1. /\ Confirmed(c)' = FALSE
          /\ \A d \in Clients \ {c} : Confirmed(d)' = Confirmed(d)
      BY <1>6 DEF Confirmed, TypeOK
    <3> QED
      BY <3>1, ConfirmedIs
  <2>4. UNCHANGED AbsValue
    <3>1. pc[c] = "unlock" => Command(c) = Del(LockName[j])
      BY <2>1 DEF Command, LockOf
    <3> QED
      BY <1>6, <3>1, LocksAreNotKeys DEF Executed, GivenUp, AbsValue
  <2>5. \/ UNCHANGED AbsLimbo
        \/ \E v \in Values \cup {Absent} : AbsLimbo' = AbsLimbo \cup {<<j, v>>}
    <3>1. CASE UNCHANGED late
      BY <3>1, LimboStays
    <3>2. CASE GivenUp(c) /\ pc[c] = "unlock"
      <4>1. Command(c).name \notin Keys
        BY <2>1, <3>2 DEF Command, LockOf, Del, NoAliasing
      <4> QED
        BY <3>2, <4>1, LimboGrows DEF GivenUp, Later
    <3>3. CASE GivenUp(c) /\ pc[c] = "command"
      <4>1. PICK v \in Values \cup {Absent} :
              Command(c).name = j /\ Command(c).value = v
        BY <2>1, <3>3 DEF Command, Set, TypeOK, Operations
      <4> QED
        BY <3>3, <4>1, LimboGrows DEF GivenUp, Later
    <3> QED
      BY <1>6, <3>1, <3>2, <3>3 DEF Executed, Sending
  <2> QED
    BY <2>1, <2>2, <2>3, <2>4, <2>5, Releases
<1>7. ASSUME NEW m \in late, Lands(m) PROVE Goal
  <2>1. AbsOwner' = AbsOwner
    <3>1. \A k \in Keys, d \in Clients : Inside(d, k)' <=> Inside(d, k)
      BY <1>7 DEF Lands, Inside
    <3> QED
      BY <3>1, OwnersStay
  <2>2. AbsConfirmed' = AbsConfirmed
    <3>1. \A d \in Clients : Confirmed(d)' = Confirmed(d)
      BY <1>7 DEF Lands, Confirmed
    <3> QED
      BY <3>1, ConfirmedStays
  <2>3. ASSUME NEW j \in Keys, m[3] = SetNx(LockName[j]) \/ m[3] = Del(LockName[j])
        PROVE  Goal
    <3>1. UNCHANGED AbsValue
      BY <1>7, <2>3, LocksAreNotKeys DEF Lands
    <3>2. m[3].name \notin Keys
      BY <2>3 DEF SetNx, Del, NoAliasing
    <3>3. UNCHANGED AbsLimbo
      BY <1>7, <3>2, LimboLoses DEF Lands
    <3> QED
      BY <2>1, <2>2, <3>1, <3>3 DEF Abstract
  <2>4. ASSUME NEW j \in Keys, NEW v \in Values \cup {Absent}, m[3] = Set(j, v)
        PROVE  Goal
    <3>1. AbsValue' = [AbsValue EXCEPT ![j] = v]
      BY <1>7, <2>4, ValuePut DEF Lands
    <3>2. m[3].name = j /\ m[3].value = v
      BY <2>4 DEF Set
    <3>3. <<j, v>> \in AbsLimbo /\ AbsLimbo' \in {AbsLimbo, AbsLimbo \ {<<j, v>>}}
      BY <1>7, <3>2, LimboLoses DEF Lands
    <3> QED
      BY <2>1, <2>2, <3>1, <3>3, LandsAbove
  <2> QED
    BY <2>3, <2>4 DEF LockInv, LateForm
<1>8. ASSUME NEW c \in Clients, NEW ok \in BOOLEAN, Continues(c, ok), UNCHANGED op,
             \/ Executed(c) /\ ok = Succeeds(c)
             \/ (Executed(c) \/ GivenUp(c)) /\ ok = FALSE
      PROVE  Goal
  <2>1. CASE LockAnswered(c, ok) /\ ok
    BY <1>3, <1>8, <2>1 DEF LockAnswered
  <2>2. CASE LockAnswered(c, ok) /\ ~ ok
    BY <1>4, <1>8, <2>2 DEF LockAnswered, Goes, Answers, TypeOK
  <2>3. CASE CommandAnswered(c, ok)
    BY <1>5, <1>8, <2>3 DEF CommandAnswered
  <2>4. CASE UnlockAnswered(c)
    BY <1>6, <1>8, <2>4 DEF UnlockAnswered, Goes, Sending
  <2> QED
    BY <1>8, <2>1, <2>2, <2>3, <2>4 DEF Continues
<1>9. ASSUME NEW c \in Clients, Replied(c) \/ ReplyLost(c) \/ Delayed(c) PROVE Goal
  <2>1. Succeeds(c) \in BOOLEAN
    BY DEF Succeeds
  <2> QED
    BY <1>8, <1>9, <2>1 DEF Replied, ReplyLost, Delayed, Executed, GivenUp
<1>10. ASSUME NEW c \in Clients, Crash(c) PROVE Goal
  <2>1. /\ pc' = [pc EXCEPT ![c] = "idle"] /\ UNCHANGED <<op, store>>
        /\ \A d \in Clients \ {c} : answer'[d] = answer[d]
        /\ UNCHANGED late \/ (Sending(c) /\ GivenUp(c))
        /\ pc[c] \in {"lock", "command", "holding", "unlock"}
    BY <1>10 DEF Crash, Goes, Answers, GivenUp, TypeOK, PCs
  <2>2. CASE pc[c] = "lock" /\ UNCHANGED late
    <3>1. AbsOwner' = AbsOwner
      <4>1. \A k \in Keys, d \in Clients : Inside(d, k)' <=> Inside(d, k)
        BY <2>1, <2>2 DEF Inside, TypeOK
      <4> QED
        BY <4>1, OwnersStay
    <3>2. AbsConfirmed' = AbsConfirmed
      <4>1. \A d \in Clients : Confirmed(d)' = Confirmed(d)
        BY <2>1, <2>2 DEF Confirmed, TypeOK
      <4> QED
        BY <4>1, ConfirmedStays
    <3> QED
      BY <2>1, <2>2, <3>1, <3>2, LimboStays DEF Abstract, AbsValue
  <2>3. CASE pc[c] = "lock" /\ GivenUp(c)
    BY <1>4, <2>1, <2>3
  <2>4. CASE pc[c] \in {"command", "holding", "unlock"}
    BY <1>6, <2>1, <2>4
  <2> QED
    BY <2>1, <2>2, <2>3, <2>4
<1>11. CASE UNCHANGED vars
  BY <1>11 DEF vars, Abstract, AbsValue, AbsOwner, AbsConfirmed, AbsLimbo, Owner,
     Inside, Confirmed
<1> QED
  BY <1>1, <1>2, <1>7, <1>9, <1>10, <1>11
  DEF Next, ClientStep, Write, Update, Erase, TryLock

(* The locking protocol is a store whose keys change by their one owner or  *)
(* by an operation given up on, and where true means done.                 *)
THEOREM StorageImplementsStore == NoAliasing /\ Spec => ImplementsLockedStore
<1>1. Init => Promise!Init
  <2> SUFFICES ASSUME Init PROVE Promise!Init
    OBVIOUS
  <2>1. [k \in Keys |-> store[k]] = [k \in Keys |-> Absent]
    BY RedisStorageAssumption DEF Init
  <2>2. \A k \in Keys : Owner(k) = Nobody
    BY DEF Init, Owner, Inside
  <2>3. \A c \in Clients : Confirmed(c) = FALSE
    BY DEF Init, Confirmed
  <2>4. {<<m[3].name, m[3].value>> : m \in {l \in late : l[3].name \in Keys}} = {}
    BY DEF Init
  <2> QED
    BY <2>1, <2>2, <2>3, <2>4 DEF Promise!Init
<1>2. /\ NoAliasing /\ TypeOK /\ KindInv /\ LockInv /\ LockInv' /\ [Next]_vars
      => [Promise!Next]_Promise!vars
  BY StepImplements, Stutters DEF LockInv
<1>3. NoAliasing => NoAliasing'
  BY DEF NoAliasing
<1> QED
  BY <1>1, <1>2, <1>3, TypeCorrect, KindInvariant, LockInvariant, PTL
  DEF Spec, ImplementsLockedStore, Promise!Spec

=============================================================================
