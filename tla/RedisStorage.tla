---------------------------- MODULE RedisStorage ----------------------------
(***************************************************************************)
(* The storage of src/client/RedisStorage.cpp: write, update and erase     *)
(* take a lock by SETNX on "lock:" + key, send one command, and delete the *)
(* lock.  The server executes commands one at a time, so a command and its *)
(* answer are one step.  When no answer comes the client gets an exception *)
(* and goes on; the command may have been executed, or be executed later,  *)
(* or never.  A client's process may crash, and start again.               *)
(*                                                                         *)
(* read and isLocked send one query and change nothing; they have no       *)
(* action.  A caller of unlock is taken to hold the lock: the code does    *)
(* not record who does.                                                    *)
(***************************************************************************)
EXTENDS Naturals, FiniteSets

CONSTANTS
  Clients,       (* threads, of any number of processes                    *)
  Keys,          (* keys the callers use                                   *)
  Names,         (* names in the server's keyspace                         *)
  LockName,      (* the name "lock:" + k for each key k                    *)
  Values,        (* the strings callers write                              *)
  Locked,        (* the string "locked"                                    *)
  Absent,        (* the name does not exist                                *)
  MaxTimeouts,   (* bound: commands whose answer does not come             *)
  MaxCrashes     (* bound: crashes                                         *)

ASSUME RedisStorageAssumption ==
  /\ Keys \subseteq Names
  /\ LockName \in [Keys -> Names]
  /\ \A j, k \in Keys : LockName[j] = LockName[k] => j = k
  /\ Absent \notin Values \cup {Locked}
  /\ MaxTimeouts \in Nat /\ MaxCrashes \in Nat

VARIABLES
  store,       (* the server's keyspace                                    *)
  pc,          (* the command each client is about to have executed        *)
  op,          (* the operation each client is in                          *)
  answer,      (* what the operation returns, as far as it is known        *)
  late,        (* commands given up on that the server may still execute   *)
  timeouts,    (* commands given up on so far                              *)
  crashes      (* crashes so far                                           *)

vars == <<store, pc, op, answer, late, timeouts, crashes>>

PCs        == {"idle", "lock", "command", "holding", "unlock"}
Operations == [kind : {"set", "erase", "hold"}, key : Keys,
               value : Values \cup {Absent}]
Commands   == [cmd : {"setnx", "put"}, name : Names,
               value : Values \cup {Locked, Absent}]

-----------------------------------------------------------------------------
(* The server.  DEL puts Absent; SETNX puts only where nothing is. *)

SetNx(name)      == [cmd |-> "setnx", name |-> name, value |-> Locked]
Set(name, value) == [cmd |-> "put", name |-> name, value |-> value]
Del(name)        == [cmd |-> "put", name |-> name, value |-> Absent]

Takes(m) == m.cmd = "setnx" => store[m.name] = Absent
Execute(m) ==
  store' = IF Takes(m) THEN [store EXCEPT ![m.name] = m.value] ELSE store

(* The command client c sends at its place in the operation. *)
LockOf(c) == LockName[op[c].key]
Command(c) ==
  CASE pc[c] = "lock"    -> SetNx(LockOf(c))
    [] pc[c] = "command" -> Set(op[c].key, op[c].value)
    [] pc[c] = "unlock"  -> Del(LockOf(c))

(* Mutation: an answer to SETNX is taken for success whatever it says. *)
AnySucceeds(c) ==
  pc[c] = "command" /\ op[c].kind = "erase" => store[op[c].key] # Absent

(* What its answer says: SETNX that it set, SET that it is done, DEL that  *)
(* something was there.                                                    *)
Succeeds(c) ==
  CASE pc[c] = "lock"    -> store[LockOf(c)] = Absent
    [] pc[c] = "command" -> op[c].kind = "erase" => store[op[c].key] # Absent
    [] OTHER             -> TRUE

Sending(c) == pc[c] \in {"lock", "command", "unlock"}

Goes(c, place) == pc' = [pc EXCEPT ![c] = place]
Answers(c, b)  == answer' = [answer EXCEPT ![c] = b]

-----------------------------------------------------------------------------
(* The operations *)

Init ==
  /\ store = [n \in Names |-> Absent]
  /\ pc = [c \in Clients |-> "idle"]
  /\ op \in [Clients -> [kind : {"hold"}, key : Keys, value : {Absent}]]
  /\ answer = [c \in Clients |-> FALSE]
  /\ late = {} /\ timeouts = 0 /\ crashes = 0

Begin(c, kind, k, v) ==
  /\ pc[c] = "idle"
  /\ Goes(c, "lock")
  /\ op' = [op EXCEPT ![c] = [kind |-> kind, key |-> k, value |-> v]]
  /\ Answers(c, FALSE)
  /\ UNCHANGED <<store, late, timeouts, crashes>>

(* Mutation: a tombstone is set in place of a deletion. *)
EraseMarks(c, k) == Begin(c, "erase", k, Locked)

Write(c, k, v)  == Begin(c, "set", k, v)
Update(c, k, v) == Begin(c, "set", k, v)
Erase(c, k)     == Begin(c, "erase", k, Absent)
TryLock(c, k)   == Begin(c, "hold", k, Absent)

Unlock(c) ==
  /\ pc[c] = "holding"
  /\ Goes(c, "unlock")
  /\ UNCHANGED <<store, op, answer, late, timeouts, crashes>>

(* Mutations of the next two: the result of tryLock is ignored; a scope    *)
(* guard unlocks on every return; write returns true after an exception.   *)
LockIgnored(c, ok) ==
  /\ pc[c] = "lock"
  /\ Goes(c, IF op[c].kind = "hold" THEN "holding" ELSE "command")
  /\ Answers(c, ok)
LockUnwinds(c, ok) ==
  /\ pc[c] = "lock"
  /\ Goes(c, IF ~ok THEN "unlock"
             ELSE IF op[c].kind = "hold" THEN "holding" ELSE "command")
  /\ Answers(c, ok)
CommandAssumed(c, ok) ==
  pc[c] = "command" /\ Goes(c, "unlock") /\ Answers(c, TRUE)

(* A lock not acquired ends the operation; whatever the command's fate, the *)
(* lock is deleted next; whatever that deletion's fate, the operation ends. *)
LockAnswered(c, ok) ==
  /\ pc[c] = "lock"
  /\ Goes(c, IF ~ok THEN "idle"
             ELSE IF op[c].kind = "hold" THEN "holding" ELSE "command")
  /\ Answers(c, ok)
CommandAnswered(c, ok) ==
  pc[c] = "command" /\ Goes(c, "unlock") /\ Answers(c, ok)
UnlockAnswered(c) ==
  pc[c] = "unlock" /\ Goes(c, "idle") /\ UNCHANGED answer

Continues(c, ok) ==
  LockAnswered(c, ok) \/ CommandAnswered(c, ok) \/ UnlockAnswered(c)

Replied(c) ==
  /\ Sending(c)
  /\ Execute(Command(c))
  /\ Continues(c, Succeeds(c))
  /\ UNCHANGED <<op, late, timeouts, crashes>>

(* No answer: the exception is caught, and reads as a failure. *)
ReplyLost(c) ==
  /\ Sending(c) /\ timeouts < MaxTimeouts /\ timeouts' = timeouts + 1
  /\ Execute(Command(c))
  /\ Continues(c, FALSE)
  /\ UNCHANGED <<op, late, crashes>>

Later(c) == late' = late \cup {<<timeouts, crashes, Command(c)>>}

Delayed(c) ==
  /\ Sending(c) /\ timeouts < MaxTimeouts /\ timeouts' = timeouts + 1
  /\ Later(c)
  /\ Continues(c, FALSE)
  /\ UNCHANGED <<store, op, crashes>>

(* The server executes a command its client has given up on.  Nobody waits *)
(* for the answer.                                                         *)
Lands(m) ==
  /\ m \in late
  /\ Execute(m[3])
  /\ late' = late \ {m}
  /\ UNCHANGED <<pc, op, answer, timeouts, crashes>>

(* The process dies; what it was sending may be on its way. *)
Crash(c) ==
  /\ crashes < MaxCrashes /\ crashes' = crashes + 1
  /\ pc[c] # "idle" /\ Goes(c, "idle")
  /\ Answers(c, FALSE)
  /\ \/ UNCHANGED late
     \/ Sending(c) /\ Later(c)
  /\ UNCHANGED <<store, op, timeouts>>

ClientStep(c) ==
  \/ \E k \in Keys :
       \/ \E v \in Values : Write(c, k, v) \/ Update(c, k, v)
       \/ Erase(c, k) \/ TryLock(c, k)
  \/ Unlock(c) \/ Replied(c) \/ ReplyLost(c) \/ Delayed(c) \/ Crash(c)

Next ==
  \/ \E c \in Clients : ClientStep(c)
  \/ \E m \in late : Lands(m)

Spec == Init /\ [][Next]_vars

=============================================================================
