---------------------------- MODULE StateManager ----------------------------
(***************************************************************************)
(* Threads that share StateManagers: the operations of                     *)
(* src/core/StateManager.cpp, down to the commands that RedisStorage and   *)
(* RedisChannel send for them, over the one connection of RedisClient.     *)
(* Each command asks for the connection anew, so that an operation begun   *)
(* on one server may end on another.                                       *)
(*                                                                         *)
(* Only the locks of a server are kept: RedisStorage has the values, the   *)
(* late commands and the crashes.  A command that throws has not been      *)
(* executed here.  An operation whose object has no JSON form returns      *)
(* before it sends anything and is not modelled.  Subscriptions are        *)
(* PubSubDemo's.                                                           *)
(***************************************************************************)
EXTENDS RedisClient, FiniteSets

CONSTANTS
  Keys,         (* keys of the state                                       *)
  NoKey,        (* no key: the thread publishes                            *)
  MaxCalls      (* bound: operations begun                                 *)

ASSUME StateManagerAssumption == NoKey \notin Keys /\ MaxCalls \in Nat

VARIABLES
  lock,         (* the keys locked on each server                          *)
  step,         (* the command each thread's operation sends next          *)
  key,          (* the key each thread works on                            *)
  home,         (* history: the server each thread's lock is on            *)
  moved,        (* history: threads that went on at another server         *)
  calls         (* operations begun                                        *)

operation == <<step, key, home, moved, calls>>
vars == <<client, lock, operation>>

Init ==
  /\ ClientInit
  /\ lock = [s \in Servers |-> {}]
  /\ step = [t \in Threads |-> "idle"] /\ key = [t \in Threads |-> NoKey]
  /\ home = [t \in Threads |-> NoServer] /\ moved = {} /\ calls = 0

Idle(t) == step[t] = "idle" /\ at[t] = "out"

-----------------------------------------------------------------------------
(* StateManager::StateManager and setConfig: one client serves them all.   *)
Construct(t, s) ==
  Idle(t) /\ SetConfig(t, s) /\ UNCHANGED <<lock, operation>>

Begin(t, k, first) ==
  /\ Idle(t) /\ calls < MaxCalls /\ calls' = calls + 1
  /\ step' = [step EXCEPT ![t] = first] /\ key' = [key EXCEPT ![t] = k]
  /\ UNCHANGED <<client, lock, home, moved>>

Change(t, k) == Begin(t, k, "setnx")       (* write, erase                 *)
Read(t, k)   == Begin(t, k, "get")
Publish(t)   == Begin(t, NoKey, "publish")

(* Every command begins with getClient, and publish takes lockClient too.  *)
Asks(t) ==
  /\ step[t] # "idle" /\ GetClient(t) /\ UNCHANGED <<lock, operation>>
Waits(t) ==
  /\ step[t] = "publish" /\ LockClient(t) /\ UNCHANGED <<lock, operation>>

(* The command of this step, executed or failed, through the reference.    *)
Sends(t, command) ==
  /\ step[t] = command /\ Uses(t)
  /\ command = "publish" <=> at[t] = "locked"
Goes(t, command) == step' = [step EXCEPT ![t] = command]
Ends(t) == Goes(t, "idle") /\ key' = [key EXCEPT ![t] = NoKey]
Strays(t) ==
  moved' = IF Server(t) # home[t] THEN moved \cup {t} ELSE moved

(* Mutation: a lock another thread has is taken for one's own. *)
AlwaysLocks(t) ==
  /\ Sends(t, "setnx") /\ Goes(t, "apply")
  /\ lock' = [lock EXCEPT ![Server(t)] = @ \cup {key[t]}]
  /\ home' = [home EXCEPT ![t] = Server(t)]
  /\ UNCHANGED <<failures, key, moved, calls>>

(* RedisStorage::tryLock *)
TryLock(t) ==
  /\ Sends(t, "setnx")
  /\ \/ /\ key[t] \notin lock[Server(t)] /\ Goes(t, "apply")
        /\ lock' = [lock EXCEPT ![Server(t)] = @ \cup {key[t]}]
        /\ home' = [home EXCEPT ![t] = Server(t)]
        /\ UNCHANGED <<failures, key>>
     \/ /\ \/ key[t] \in lock[Server(t)] /\ UNCHANGED failures
           \/ Fails
        /\ Ends(t) /\ UNCHANGED <<lock, home>>
  /\ UNCHANGED <<moved, calls>>

(* Mutation: the early return of erase, for a key that is not there, comes *)
(* before its unlock.                                                      *)
ApplyReturns(t) ==
  /\ Sends(t, "apply") /\ Strays(t)
  /\ \/ Goes(t, "unlock") /\ UNCHANGED <<key, home>>
     \/ Ends(t) /\ home' = [home EXCEPT ![t] = NoServer]
  /\ UNCHANGED <<failures, lock, calls>>

(* SET or DEL.  Whatever comes of it, the lock is released next.           *)
Apply(t) ==
  /\ Sends(t, "apply") /\ Strays(t)
  /\ Goes(t, "unlock")
  /\ UNCHANGED failures \/ Fails
  /\ UNCHANGED <<lock, key, home, calls>>

(* RedisStorage::unlock: on whatever server the connection leads to.       *)
Unlock(t) ==
  /\ Sends(t, "unlock") /\ Strays(t)
  /\ Ends(t) /\ home' = [home EXCEPT ![t] = NoServer]
  /\ \/ lock' = [lock EXCEPT ![Server(t)] = @ \ {key[t]}] /\ UNCHANGED failures
     \/ Fails /\ UNCHANGED lock
  /\ UNCHANGED calls

(* RedisStorage::read and RedisChannel::publish change no state here.      *)
Queries(t) ==
  /\ Sends(t, "get") \/ Sends(t, "publish")
  /\ Ends(t)
  /\ UNCHANGED failures \/ Fails
  /\ UNCHANGED <<lock, home, moved, calls>>

-----------------------------------------------------------------------------
Broken == \E t \in Threads : step[t] = "broken"

(* Undefined behaviour ends the model's behaviour. *)
Undefined == \E t \in Threads : Null(t) \/ Dangles(t)
Breaks ==
  /\ Undefined
  /\ step' = [t \in Threads |-> "broken"]
  /\ at' = [t \in Threads |-> "broken"]
  /\ UNCHANGED <<connection, mutexes, attempt, ref, target, counters>>
  /\ UNCHANGED <<lock, key, home, moved, calls>>

Calls(t) ==
  \/ \E s \in Servers : Construct(t, s)
  \/ \E k \in Keys : Change(t, k) \/ Read(t, k)
  \/ Publish(t)
Proceeds(t) ==
  \/ Asks(t) \/ Waits(t)
  \/ Inside(t) /\ UNCHANGED <<lock, operation>>
  \/ TryLock(t) \/ Apply(t) \/ Unlock(t) \/ Queries(t)

Next == (\E t \in Threads : Calls(t) \/ Proceeds(t)) \/ Breaks

Spec == Init /\ [][Next]_vars

(* Threads run.  Nobody has to call, and no failure has to happen.         *)
Fairness == \A t \in Threads : WF_vars(Proceeds(t))
FairSpec == Spec /\ Fairness

=============================================================================
