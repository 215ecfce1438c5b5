----------------------- MODULE RedisStorageProperties -----------------------
(***************************************************************************)
(* What should be true of the storage's locking protocol.                  *)
(***************************************************************************)
EXTENDS RedisStorage

CONSTANT Nobody    \* no client is inside an operation on the key

(* Type correctness of the server's and the clients' state. *)
TypeOK ==
  /\ store \in [Names -> Values \cup {Locked, Absent}]
  /\ pc \in [Clients -> PCs]
  /\ op \in [Clients -> Operations]
  /\ answer \in [Clients -> BOOLEAN]
  /\ late \subseteq (0 .. MaxTimeouts) \X (0 .. MaxCrashes) \X Commands
  /\ timeouts \in 0 .. MaxTimeouts /\ crashes \in 0 .. MaxCrashes

(* No key is the lock of another: "lock:foo" used as a key is the lock of  *)
(* foo, and writing or erasing it takes or breaks that lock.  The safety   *)
(* properties below need it; the code does not enforce it.                 *)
NoAliasing == \A j, k \in Keys : LockName[j] # k

-----------------------------------------------------------------------------
(* Safety *)

(* Client c is inside an operation on key k. *)
Inside(c, k) == pc[c] \in {"command", "holding", "unlock"} /\ op[c].key = k

(* Deletions of k's lock given up on, that may still be executed.          *)
LateUnlocks(k) == {m \in late : m[3] = Del(LockName[k])}

(* At most one client is inside an operation on a key, whatever commands   *)
(* are lost, executed late or cut off by a crash: a lock's deletion that   *)
(* arrives late finds the lock of the client that gave up on it, never one *)
(* taken by another client since.                                          *)
MutualExclusion ==
  \A k \in Keys, c, d \in Clients : Inside(c, k) /\ Inside(d, k) => c = d

(* While a client is inside, the lock is there for all to see (isLocked).  *)
InsideMeansLocked ==
  \A k \in Keys, c \in Clients : Inside(c, k) => store[LockName[k]] = Locked

(* A lock nobody is inside of, and nobody's late deletion will remove.     *)
Orphaned(k) ==
  /\ store[LockName[k]] = Locked
  /\ \A c \in Clients : ~ Inside(c, k)
  /\ LateUnlocks(k) = {}

(* The lock carries no owner and no time to live: once orphaned it stays,  *)
(* and every later write and erase of the key returns false.               *)
OrphansStay == [][\A k \in Keys : Orphaned(k) => Orphaned(k)']_vars

-----------------------------------------------------------------------------
(* Refinement *)

Owner(k) ==
  IF \E c \in Clients : Inside(c, k)
  THEN CHOOSE c \in Clients : Inside(c, k)
  ELSE Nobody

Confirmed(c) == pc[c] = "unlock" /\ op[c].kind # "hold" /\ answer[c]

Promise == INSTANCE LockedStore
             WITH value <- [k \in Keys |-> store[k]],
                  owner <- [k \in Keys |-> Owner(k)],
                  confirmed <- [c \in Clients |-> Confirmed(c)],
                  limbo <- {<<m[3].name, m[3].value>> :
                              m \in {l \in late : l[3].name \in Keys}}

(* The locking protocol implements a store whose keys change by their one  *)
(* owner, or by an operation given up on, and where true means done.       *)
ImplementsLockedStore == Promise!Spec

-----------------------------------------------------------------------------
(* What the documents say and the code does not do *)

(* docs/ARCHITECTURE.md, "Thread Safety Design": storage operations are    *)
(* protected by SETNX for atomicity.  From the time a client has acquired  *)
(* the lock of a key until it sends its command or lets the lock go, the   *)
(* key does not change.                                                    *)
Isolation ==
  [][\A c \in Clients :
       pc[c] \in {"command", "holding"} /\ store'[op[c].key] # store[op[c].key]
         => pc'[c] = "unlock"]_vars

=============================================================================
