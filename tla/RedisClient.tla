----------------------------- MODULE RedisClient -----------------------------
(***************************************************************************)
(* The one connection of the process, src/client/RedisClient.cpp.  Every   *)
(* user asks getClient for a reference to *redis_ and uses it after the    *)
(* mutexes are released; setConfig, and a getClient whose ping fails,      *)
(* replace the connection behind it.  lockClient keeps redis_mutex_, and   *)
(* so the connection, until its user is done.                              *)
(*                                                                         *)
(* Connections are numbered in the order they are made; the number of a    *)
(* reference that is not the current one names a connection already        *)
(* destroyed.  A connection may fail to be made whatever its server does.  *)
(* instance_ is created on demand with nothing in it, which is how Init    *)
(* has it.                                                                 *)
(***************************************************************************)
EXTENDS Naturals, Sequences

CONSTANTS
  Threads,      (* threads of the process                                  *)
  NoThread,     (* a mutex is free                                         *)
  Servers,      (* what a RedisConfig names                                *)
  Default,      (* the server of a default RedisConfig                     *)
  NoServer,     (* nothing: the thread is not inside setConfig             *)
  Attempts,     (* max_retries of connect                                  *)
  MaxSwitches,  (* bound: calls of setConfig                               *)
  MaxFailures   (* bound: pings, connections and commands that fail        *)

ASSUME RedisClientAssumption ==
  /\ NoThread \notin Threads /\ Default \in Servers /\ NoServer \notin Servers
  /\ Attempts \in Nat \ {0} /\ MaxSwitches \in Nat /\ MaxFailures \in Nat

VARIABLES
  config,         (* config_                                               *)
  made,           (* servers of the connections made, oldest first         *)
  redis,          (* redis_: number of its connection, 0 if null           *)
  instanceMutex,  (* holder of instance_mutex_                             *)
  redisMutex,     (* holder of redis_mutex_                                *)
  attempt,        (* the loop counter of connect                           *)
  at,             (* where each thread is                                  *)
  ref,            (* number of the connection each thread was given        *)
  target,         (* the server a caller of setConfig asks for             *)
  switches,       (* calls of setConfig so far                             *)
  failures        (* failures so far                                       *)

mutexes    == <<instanceMutex, redisMutex>>
connection == <<config, made, redis>>
counters   == <<switches, failures>>
client     == <<connection, mutexes, attempt, at, ref, target, counters>>

ClientInit ==
  /\ config = Default /\ made = <<>> /\ redis = 0
  /\ instanceMutex = NoThread /\ redisMutex = NoThread /\ attempt = 0
  /\ at = [t \in Threads |-> "out"] /\ ref = [t \in Threads |-> 0]
  /\ target = [t \in Threads |-> NoServer]
  /\ switches = 0 /\ failures = 0

Fails == failures < MaxFailures /\ failures' = failures + 1
Moves(t, from, to) == at[t] = from /\ at' = [at EXCEPT ![t] = to]
Takes(mutex, t) == mutex = NoThread /\ mutex' = t

-----------------------------------------------------------------------------
(* setConfig, which the constructor of StateManager calls too.             *)
SetConfig(t, s) ==
  /\ switches < MaxSwitches /\ switches' = switches + 1
  /\ Moves(t, "out", "configure")
  /\ target' = [target EXCEPT ![t] = s]
  /\ UNCHANGED <<connection, mutexes, attempt, ref, failures>>

(* Mutation: a connection that exists is kept. *)
KeepsConnection(t) ==
  /\ instanceMutex = NoThread
  /\ Moves(t, "configure", IF redis = 0 THEN "connect" ELSE "out")
  /\ IF redis = 0 THEN Takes(instanceMutex, t) ELSE UNCHANGED instanceMutex
  /\ config' = target[t]
  /\ target' = IF redis = 0 THEN target ELSE [target EXCEPT ![t] = NoServer]
  /\ UNCHANGED <<made, redis, redisMutex, attempt, ref, counters>>

Configure(t) ==
  /\ Takes(instanceMutex, t)
  /\ Moves(t, "configure", "connect")
  /\ config' = target[t]
  /\ UNCHANGED <<made, redis, redisMutex, attempt, ref, target, counters>>

-----------------------------------------------------------------------------
(* getClient, and in it isConnected.  instance_mutex_ is held throughout.   *)

(* Mutation: the connection is tested before instance_mutex_ is taken. *)
AsksUnlocked(t) ==
  /\ Moves(t, "out", "ping")
  /\ UNCHANGED <<connection, mutexes, attempt, ref, target, counters>>

GetClient(t) ==
  /\ Takes(instanceMutex, t)
  /\ Moves(t, "out", "ping")
  /\ UNCHANGED <<connection, redisMutex, attempt, ref, target, counters>>

Ping(t) ==
  /\ redisMutex = NoThread
  /\ \/ /\ redis # 0 /\ Moves(t, "ping", "has")
        /\ ref' = [ref EXCEPT ![t] = redis]
        /\ instanceMutex' = NoThread /\ UNCHANGED failures
     \/ /\ Moves(t, "ping", "connect")
        /\ IF redis = 0 THEN UNCHANGED failures ELSE Fails
        /\ UNCHANGED <<ref, instanceMutex>>
  /\ UNCHANGED <<connection, redisMutex, attempt, target, switches>>

-----------------------------------------------------------------------------
(* connect, called by both, with redis_mutex_ held through its sleeps.     *)
Connect(t) ==
  /\ Takes(redisMutex, t)
  /\ Moves(t, "connect", "attempt")
  /\ attempt' = 1
  /\ UNCHANGED <<connection, instanceMutex, ref, target, counters>>

(* connect returns: setConfig is done, and getClient hands out whatever    *)
(* redis_ is by now.                                                       *)
Returns(t) ==
  /\ IF target[t] # NoServer
     THEN Moves(t, "attempt", "out") /\ UNCHANGED ref
     ELSE Moves(t, "attempt", "has") /\ ref' = [ref EXCEPT ![t] = redis']
  /\ target' = [target EXCEPT ![t] = NoServer]
  /\ instanceMutex' = NoThread /\ redisMutex' = NoThread /\ attempt' = 0

(* Mutation: the last attempt is not made. *)
GivesUpEarly(t) ==
  /\ at[t] = "attempt" /\ Fails
  /\ \/ /\ attempt + 1 < Attempts /\ attempt' = attempt + 1
        /\ UNCHANGED <<mutexes, at, ref, target>>
     \/ attempt + 1 >= Attempts /\ UNCHANGED redis /\ Returns(t)
  /\ UNCHANGED <<connection, switches>>

AttemptFails(t) ==
  /\ at[t] = "attempt" /\ Fails
  /\ \/ /\ attempt < Attempts /\ attempt' = attempt + 1
        /\ UNCHANGED <<mutexes, at, ref, target>>
     \/ attempt = Attempts /\ UNCHANGED redis /\ Returns(t)
  /\ UNCHANGED <<connection, switches>>

(* The old connection is destroyed: references to it dangle. *)
Connects(t) ==
  /\ at[t] = "attempt"
  /\ made' = Append(made, config) /\ redis' = Len(made) + 1
  /\ Returns(t)
  /\ UNCHANGED <<config, counters>>

-----------------------------------------------------------------------------
(* lockClient.  instance_mutex_ is held while it waits for redis_mutex_.   *)
LockClient(t) ==
  /\ Takes(instanceMutex, t)
  /\ Moves(t, "has", "lock")
  /\ UNCHANGED <<connection, redisMutex, attempt, ref, target, counters>>
Locks(t) ==
  /\ Takes(redisMutex, t)
  /\ Moves(t, "lock", "locked") /\ instanceMutex' = NoThread
  /\ UNCHANGED <<connection, attempt, ref, target, counters>>

(* Mutation: the lock that lockClient returned is kept. *)
KeepsLock(t) ==
  /\ at[t] \in {"has", "locked"} /\ ref[t] # 0 /\ ref[t] = redis
  /\ at' = [at EXCEPT ![t] = "out"] /\ ref' = [ref EXCEPT ![t] = 0]
  /\ UNCHANGED <<connection, mutexes, attempt, target, switches>>

(* A command through the reference; the lock, if any, is released.         *)
Uses(t) ==
  /\ at[t] \in {"has", "locked"} /\ ref[t] # 0 /\ ref[t] = redis
  /\ at' = [at EXCEPT ![t] = "out"] /\ ref' = [ref EXCEPT ![t] = 0]
  /\ redisMutex' = IF at[t] = "locked" THEN NoThread ELSE redisMutex
  /\ UNCHANGED <<connection, instanceMutex, attempt, target, switches>>
Server(t) == made[ref[t]]

Inside(t) ==
  \/ Configure(t) \/ Ping(t) \/ Connect(t) \/ AttemptFails(t) \/ Connects(t)
  \/ Locks(t)

-----------------------------------------------------------------------------
(* Undefined behaviour: a reference is used that was made from a null      *)
(* redis_, or whose connection has been destroyed.                         *)
Using(t)   == at[t] \in {"has", "lock", "locked"}
Null(t)    == Using(t) /\ ref[t] = 0
Dangles(t) == Using(t) /\ ref[t] # 0 /\ ref[t] # redis

=============================================================================
