----------------------- MODULE StateManagerProperties -----------------------
(***************************************************************************)
(* What should be true of the connection and of the operations that go     *)
(* over it.                                                                *)
(***************************************************************************)
EXTENDS StateManager

Places == {"out", "configure", "ping", "connect", "attempt", "has", "lock",
           "locked", "broken"}
Commands == {"idle", "setnx", "apply", "unlock", "get", "publish", "broken"}

(* Type correctness of the client's state and of the operations'.          *)
TypeOK ==
  /\ config \in Servers /\ made \in Seq(Servers) /\ redis \in 0 .. Len(made)
  /\ instanceMutex \in Threads \cup {NoThread}
  /\ redisMutex \in Threads \cup {NoThread}
  /\ attempt \in 0 .. Attempts
  /\ at \in [Threads -> Places] /\ ref \in [Threads -> 0 .. Len(made)]
  /\ target \in [Threads -> Servers \cup {NoServer}]
  /\ switches \in 0 .. MaxSwitches /\ failures \in 0 .. MaxFailures
  /\ lock \in [Servers -> SUBSET Keys]
  /\ step \in [Threads -> Commands]
  /\ key \in [Threads -> Keys \cup {NoKey}]
  /\ home \in [Threads -> Servers \cup {NoServer}]
  /\ moved \subseteq Threads /\ calls \in 0 .. MaxCalls

-----------------------------------------------------------------------------
(* A reference that getClient gave is good until its user is done with it,  *)
(* although the mutexes are released before: as long as nobody calls        *)
(* setConfig and no ping fails, the threads that find no connection yet     *)
(* make only one between them.  A setConfig, or a connect after a failed   *)
(* ping, destroys the connection under whoever still uses it.              *)
ReferencesHold ==
  switches = 0 /\ failures = 0 => \A t \in Threads : ~Dangles(t)

(* getClient dereferences a null redis_ only if all the attempts of a       *)
(* connect have failed, and then only before the first connection: connect *)
(* assigns redis_ a connection that was made, or nothing.  Whether a       *)
(* server that does not answer makes the constructor of the connection     *)
(* throw or only its first command is left open: both are behaviours here. *)
NullNeedsAllAttempts ==
  /\ (\E t \in Threads : Null(t)) => failures >= Attempts
  /\ redis = 0 => made = <<>>

(* The connection leads where the last setConfig said, whatever order two   *)
(* of them and the reconnections of getClient came in, unless a connect     *)
(* ran out of attempts: then redis_ is still the old connection, and as    *)
(* long as that one answers the pings nobody tries the new server again.   *)
ConnectedAsConfigured ==
  instanceMutex = NoThread /\ redis # 0 /\ failures < Attempts =>
    made[redis] = config

(* Every lock on a server is somebody's, and only one's: two threads that   *)
(* hold the lock of the same key on the same server, or a lock that nobody *)
(* will release, exist only after an operation has been moved half-way, by *)
(* a setConfig, to another server, where its unlock took another's lock     *)
(* away (or after an unlock that failed, for which the lock stays).        *)
LocksHaveOneOwner ==
  moved = {} =>
    /\ \A t, u \in Threads :
         t # u /\ home[t] = home[u] /\ home[t] # NoServer => key[t] # key[u]
    /\ failures = 0 =>
         \A s \in Servers : \A k \in lock[s] :
           \E t \in Threads : home[t] = s /\ key[t] = k

-----------------------------------------------------------------------------
(* Every call returns, or the program breaks.  setConfig and getClient      *)
(* sleep with both mutexes held, lockClient waits with one of them; their   *)
(* orders never make two threads wait for one another, and the attempts    *)
(* run out.                                                                *)
CallsReturn ==
  \A t \in Threads : ~Idle(t) ~> Idle(t) \/ Undefined \/ Broken

=============================================================================
