-------------------------- MODULE MultithreadedDemo --------------------------
(***************************************************************************)
(* examples/multithreaded_demo.cpp: threads that write keys of their own,  *)
(* that read, modify and write back one shared counter, and that mix       *)
(* writes, reads and erasures.  It is the one program of the repository in *)
(* which threads share a StateManager, and all that keeps them apart is    *)
(* the lock RedisStorage takes around each single write or erasure.        *)
(*                                                                         *)
(* A value is a sequence: <<n>> is a counter, <<t, n>> names the thread    *)
(* and the operation that wrote it, <<>> is the absent key.  A command     *)
(* that fails may be executed all the same, at once, later or never.       *)
(* Sleeps, printing and time-keeping are left out.                         *)
(***************************************************************************)
EXTENDS Naturals, FiniteSets

CONSTANTS
  Readers, Writers, (* threads, told apart in the second demonstration     *)
  Main,             (* the main thread                                     *)
  NoKey,            (* no key                                              *)
  Rounds,           (* operationsPerThread of each demonstration           *)
  LoadKeys,         (* numbers of the keys each thread has in the load test*)
  Checks,           (* verificationsToPerform                              *)
  MaxFailures       (* bound: commands that fail                           *)

Workers == Readers \cup Writers
Threads == Workers \cup {Main}

ASSUME DemoAssumption ==
  /\ IsFiniteSet(Workers) /\ Readers \cap Writers = {} /\ Main \notin Workers
  /\ Rounds \in [{"writes", "shared", "load"} -> Nat]
  /\ LoadKeys \subseteq Nat /\ Checks \in Nat /\ MaxFailures \in Nat

VARIABLES
  demo,       (* the demonstration main is in                              *)
  phase,      (* where main is in it                                       *)
  chores,     (* keys main has still to erase                              *)
  checks,     (* verifications main has still to make                      *)
  value,      (* what each key holds                                       *)
  locked,     (* the keys locked                                           *)
  late,       (* commands given up on that the server may still execute    *)
  pc,         (* the command each thread sends next, or between operations *)
  key, put,   (* the key it works on, and what it will write there         *)
  ok,         (* its command succeeded                                     *)
  left,       (* operations each thread has still to begin                 *)
  count,      (* the demonstration's atomic counters                       *)
  local,      (* localSuccessful                                           *)
  monitor,    (* the monitor thread runs                                   *)
  overlapped, (* history: what replaced the counter was not its successor  *)
  failures    (* commands that failed so far                               *)

program == <<demo, phase, chores, checks, monitor>>
store   == <<value, locked, late>>
request == <<key, put>>
work    == <<left, count, local>>
vars == <<program, store, pc, request, ok, work, overlapped, failures>>

(* Mutation: the key of an item does not name its thread. *)
ItemOfAll(t, n) == <<"thread", Main, n>>

Item(t, n) == <<"thread", t, n>>
Load(t, n) == <<"load_test", t, n>>
SharedKey  == <<"shared_counter", Main, 0>>
Items == {Item(t, n) : t \in Workers, n \in 1 .. Rounds.writes}
Loads == {Load(t, n) : t \in Workers, n \in LoadKeys}
Keys  == Items \cup Loads \cup {SharedKey}
Absent == <<>>

Zero == [reads |-> 0, readErrors |-> 0, writes |-> 0, writeErrors |-> 0,
         total |-> 0, successful |-> 0]
Adds(field) == count' = [count EXCEPT ![field] = @ + 1]
Fails == failures < MaxFailures /\ failures' = failures + 1
Goes(t, place) == pc' = [pc EXCEPT ![t] = place]

Init ==
  /\ demo = "writes" /\ phase = "spawn" /\ chores = {} /\ checks = 0
  /\ value = [k \in Keys |-> Absent] /\ locked = {}
  /\ late = {}
  /\ pc = [t \in Threads |-> IF t = Main THEN "between" ELSE "none"]
  /\ key = [t \in Threads |-> NoKey] /\ put = [t \in Threads |-> Absent]
  /\ ok = [t \in Threads |-> FALSE]
  /\ left = [t \in Workers |-> 0] /\ local = [t \in Workers |-> 0]
  /\ count = Zero /\ monitor = FALSE
  /\ overlapped = FALSE /\ failures = 0

-----------------------------------------------------------------------------
(* The end of a thread's operation, with what is counted after it.         *)

(* Mutation: a write that fails is not counted. *)
CountsSuccess(t, success) ==
  IF success /\ t \in Workers THEN Adds("writes") ELSE UNCHANGED count

(* In the load test a thread counts for itself.                            *)
Counts(t, success) ==
  IF t = Main \/ demo = "load" THEN UNCHANGED count
  ELSE Adds(IF success THEN "writes" ELSE "writeErrors")
CountsRead(t, success) ==
  IF t = Main \/ demo = "load" THEN UNCHANGED count
  ELSE Adds(IF success THEN "reads" ELSE "readErrors")

Ends(t, success) ==
  /\ Goes(t, "between")
  /\ key' = [key EXCEPT ![t] = NoKey] /\ put' = [put EXCEPT ![t] = Absent]
  /\ ok' = [ok EXCEPT ![t] = t = Main /\ success]
  /\ local' = IF demo = "load" /\ t # Main /\ success
              THEN [local EXCEPT ![t] = @ + 1] ELSE local
  /\ UNCHANGED <<program, left>>

(* The commands of StateManager::write and erase.                          *)

Command(t) == [number |-> failures, do |-> pc[t], key |-> key[t], put |-> put[t]]

(* No answer comes: the command has been sent, or not.                     *)
Lost(t) == Fails /\ late' \in {late, late \cup {Command(t)}}

TryLock(t) ==
  /\ pc[t] = "lock"
  /\ \/ /\ key[t] \notin locked /\ locked' = locked \cup {key[t]}
        /\ Goes(t, "apply")
        /\ UNCHANGED <<program, request, ok, work, late, failures>>
     \/ /\ \/ key[t] \in locked /\ UNCHANGED <<late, failures>>
           \/ Lost(t)
        /\ UNCHANGED locked /\ Ends(t, FALSE) /\ Counts(t, FALSE)
  /\ UNCHANGED <<value, overlapped>>

(* A counter is replaced by another than the next.                         *)
Overlaps(k, v) ==
  /\ demo = "shared" /\ k = SharedKey
  /\ value[k] # Absent /\ v # <<value[k][1] + 1>>

Executes(k, v) ==
  /\ value' = [value EXCEPT ![k] = v]
  /\ overlapped' = (overlapped \/ Overlaps(k, v))

(* Mutation: the answer to the command is not looked at. *)
ApplyAssumed(t) ==
  /\ pc[t] = "apply" /\ Goes(t, "unlock")
  /\ \/ Executes(key[t], put[t]) /\ UNCHANGED <<late, failures>>
     \/ Lost(t) /\ UNCHANGED <<value, overlapped>>
  /\ ok' = [ok EXCEPT ![t] = TRUE]
  /\ UNCHANGED <<program, locked, request, work>>

Apply(t) ==
  /\ pc[t] = "apply" /\ Goes(t, "unlock")
  /\ \/ /\ Executes(key[t], put[t]) /\ UNCHANGED <<late, failures>>
        /\ ok' = [ok EXCEPT ![t] = put[t] # Absent \/ value[key[t]] # Absent]
     \/ /\ Lost(t) /\ UNCHANGED <<value, overlapped>>
        /\ ok' = [ok EXCEPT ![t] = FALSE]
  /\ UNCHANGED <<program, locked, request, work>>

(* Mutation: the lock is left behind. *)
UnlockForgets(t) ==
  /\ pc[t] = "unlock" /\ Ends(t, ok[t]) /\ Counts(t, ok[t])
  /\ UNCHANGED <<store, overlapped, failures>>

Unlock(t) ==
  /\ pc[t] = "unlock"
  /\ \/ locked' = locked \ {key[t]} /\ UNCHANGED <<late, failures>>
     \/ Lost(t) /\ UNCHANGED locked
  /\ Ends(t, ok[t]) /\ Counts(t, ok[t])
  /\ UNCHANGED <<value, overlapped>>

(* StateManager::read: an error looks like an absent key.  A writer of the *)
(* counter goes on to write what it has read, plus one.                    *)
Get(t) ==
  /\ pc[t] = "get"
  /\ \/ /\ value[key[t]] # Absent /\ UNCHANGED failures
        /\ IF demo = "shared" /\ t \in Writers
           THEN /\ Goes(t, "lock")
                /\ put' = [put EXCEPT ![t] = <<value[key[t]][1] + 1>>]
                /\ UNCHANGED <<program, key, ok, work>>
           ELSE Ends(t, TRUE) /\ CountsRead(t, TRUE)
     \/ /\ \/ value[key[t]] = Absent /\ UNCHANGED failures
           \/ Fails
        /\ Ends(t, FALSE) /\ CountsRead(t, FALSE)
  /\ UNCHANGED <<store, overlapped>>

Commands(t) == TryLock(t) \/ Apply(t) \/ Unlock(t) \/ Get(t)

(* The server executes a command given up on; nobody waits for the answer. *)
Lands(m) ==
  /\ late' = late \ {m}
  /\ \/ /\ m.do = "lock" /\ locked' = locked \cup {m.key}
        /\ UNCHANGED <<value, overlapped>>
     \/ m.do = "apply" /\ Executes(m.key, m.put) /\ UNCHANGED locked
     \/ /\ m.do = "unlock" /\ locked' = locked \ {m.key}
        /\ UNCHANGED <<value, overlapped>>
  /\ UNCHANGED <<program, pc, request, ok, work, failures>>

-----------------------------------------------------------------------------
(* The threads.  Each begins its next operation as its demonstration says. *)

Begins(t, command, k, v) ==
  /\ Goes(t, command)
  /\ key' = [key EXCEPT ![t] = k] /\ put' = [put EXCEPT ![t] = v]

Round(t) ==
  /\ pc[t] = "between" /\ t \in Workers /\ left[t] > 0
  /\ left' = [left EXCEPT ![t] = @ - 1]
  /\ UNCHANGED <<program, store, ok, local, overlapped, failures>>

WritesItem(t) ==
  /\ demo = "writes" /\ Round(t)
  /\ Begins(t, "lock", Item(t, left[t]), <<t, left[t]>>)
  /\ UNCHANGED count
UsesCounter(t) ==
  /\ demo = "shared" /\ Round(t)
  /\ Begins(t, "get", SharedKey, Absent)
  /\ UNCHANGED count

(* Mutation: a read does not count as an operation begun. *)
LoadsUncounted(t) ==
  /\ demo = "load" /\ Round(t)
  /\ \E n \in LoadKeys :
       \/ Begins(t, "lock", Load(t, n), <<t, left[t]>>) /\ Adds("total")
       \/ Begins(t, "get", Load(t, n), Absent) /\ UNCHANGED count
       \/ Begins(t, "lock", Load(t, n), Absent) /\ Adds("total")

LoadsStore(t) ==
  /\ demo = "load" /\ Round(t)
  /\ \E n \in LoadKeys :
       \/ Begins(t, "lock", Load(t, n), <<t, left[t]>>)
       \/ Begins(t, "get", Load(t, n), Absent)
       \/ Begins(t, "lock", Load(t, n), Absent)
  /\ Adds("total")

(* Mutation: the threads overwrite, rather than add to, the shared sum. *)
FinishesAlone(t) ==
  /\ pc[t] = "between" /\ t \in Workers /\ left[t] = 0 /\ Goes(t, "done")
  /\ count' = [count EXCEPT !.successful = local[t]]
  /\ local' = [local EXCEPT ![t] = 0]
  /\ UNCHANGED <<program, store, request, ok, left, overlapped, failures>>

(* The last thing a thread does is to add its own count to the common one. *)
Finishes(t) ==
  /\ pc[t] = "between" /\ t \in Workers /\ left[t] = 0 /\ Goes(t, "done")
  /\ count' = [count EXCEPT !.successful = @ + local[t]]
  /\ local' = [local EXCEPT ![t] = 0]
  /\ UNCHANGED <<program, store, request, ok, left, overlapped, failures>>

WorkerStep(t) ==
  Commands(t) \/ WritesItem(t) \/ UsesCounter(t) \/ LoadsStore(t) \/ Finishes(t)

(* It looks at the count of operations begun, from time to time.           *)
Monitor ==
  /\ monitor /\ count.total >= Cardinality(Workers) * Rounds.load
  /\ monitor' = FALSE
  /\ UNCHANGED <<demo, phase, chores, checks, store, pc, request, ok, work>>
  /\ UNCHANGED <<overlapped, failures>>

-----------------------------------------------------------------------------
(* main *)

MainAt(place) == phase = place /\ pc[Main] = "between"
Joined == \A t \in Workers : pc[t] = "done"
Enters(place) == phase' = place /\ UNCHANGED <<demo, overlapped, failures, store>>

(* The counter is written at the start of the second demonstration.        *)
Initialize ==
  /\ MainAt("init") /\ Enters("spawn")
  /\ Begins(Main, "lock", SharedKey, <<0>>)
  /\ UNCHANGED <<chores, checks, monitor, ok, work>>

Spawn ==
  /\ MainAt("spawn") /\ Enters("join")
  /\ pc' = [t \in Threads |-> "between"]
  /\ left' = [t \in Workers |-> Rounds[demo]]
  /\ monitor' = (demo = "load")
  /\ UNCHANGED <<chores, checks, request, ok, count, local>>

Join ==
  /\ MainAt("join") /\ Joined /\ ~monitor /\ Enters("check")
  /\ checks' = CASE demo = "writes" -> Checks
                 [] demo = "shared" -> 1
                 [] demo = "load"   -> 0
  /\ ok' = [ok EXCEPT ![Main] = TRUE]
  /\ UNCHANGED <<chores, monitor, pc, request, work>>

(* Random entries are read back; the final counter is.                     *)
Check ==
  /\ MainAt("check") /\ checks > 0
  /\ checks' = checks - 1
  /\ \E k \in IF demo = "writes" THEN Items ELSE {SharedKey} :
       Begins(Main, "get", k, Absent)
  /\ UNCHANGED <<demo, phase, chores, monitor, store, ok, work>>
  /\ UNCHANGED <<overlapped, failures>>

Clean ==
  /\ MainAt("check") /\ checks = 0 /\ Enters("clean")
  /\ chores' = CASE demo = "writes" -> Items
                 [] demo = "shared" -> {SharedKey}
                 [] demo = "load"   -> Loads
  /\ UNCHANGED <<checks, monitor, pc, request, ok, work>>
EraseNext ==
  /\ MainAt("clean")
  /\ \E k \in chores : /\ chores' = chores \ {k}
                       /\ Begins(Main, "lock", k, Absent)
  /\ UNCHANGED <<demo, phase, checks, monitor, store, ok, work>>
  /\ UNCHANGED <<overlapped, failures>>

NextDemo ==
  /\ MainAt("clean") /\ chores = {}
  /\ \/ demo = "writes" /\ demo' = "shared" /\ phase' = "init"
     \/ demo = "shared" /\ demo' = "load"   /\ phase' = "spawn"
     \/ demo = "load"   /\ demo' = "over"   /\ phase' = "over"
  /\ count' = Zero /\ overlapped' = FALSE
  /\ UNCHANGED <<chores, checks, monitor, store, pc, request, ok>>
  /\ UNCHANGED <<left, local, failures>>

MainStep ==
  \/ Commands(Main) \/ Initialize \/ Spawn \/ Join \/ Check \/ Clean
  \/ EraseNext \/ NextDemo

-----------------------------------------------------------------------------
Over == demo = "over" /\ UNCHANGED vars

Next ==
  \/ (\E t \in Workers : WorkerStep(t)) \/ Monitor \/ MainStep \/ Over
  \/ \E m \in late : Lands(m)

Spec == Init /\ [][Next]_vars

(* Every thread runs; nothing has to fail. *)
FairSpec ==
  /\ Spec /\ WF_vars(MainStep) /\ WF_vars(Monitor)
  /\ \A t \in Workers : WF_vars(WorkerStep(t))

=============================================================================
