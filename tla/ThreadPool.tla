----------------------------- MODULE ThreadPool -----------------------------
(***************************************************************************)
(* The thread pool of src/thread/ThreadPool.cpp: a task queue behind       *)
(* taskMutex_, workers that sleep on taskCondition_, a management thread   *)
(* that adds workers and retires them through killThread, and a destructor *)
(* that stops everything.                                                  *)
(*                                                                         *)
(* A critical section whose intermediate states no other thread can see is *)
(* one step guarded by a free mutex.  taskMutex is a variable because two  *)
(* sections have visible middles: a worker that found its wait predicate   *)
(* false but is not asleep yet, and a worker that decided to leave but has *)
(* not stored its finished flag yet.  running_, killThread and the         *)
(* notifications are not protected by the mutex, and change in between.    *)
(***************************************************************************)
EXTENDS Integers, Sequences, FiniteSets

CONSTANTS
  Producers,      (* threads that call addTask, setScaleUp, setScaleDown    *)
  Workers,        (* identities of worker threads alive at the same time    *)
  Tasks,          (* the tasks ever submitted, each at most once            *)
  UpThreshold,    (* queued tasks per worker above which a worker is added  *)
  DownThreshold,  (* queued tasks per worker below which one is retired     *)
  MaxWorkers,     (* the default policy's limit on workerCount              *)
  UpPolicies,     (* the arguments given to setScaleUp                      *)
  DownPolicies,   (* the arguments given to setScaleDown                    *)
  NoThread,       (* taskMutex_ is free                                     *)
  NoTask          (* the worker runs no task                                *)

(* A scaling policy is the set of pairs <<queueSize, workerCount>> for which *)
(* its function returns true.                                              *)
Loads == (0 .. Cardinality(Tasks)) \X (0 .. Cardinality(Workers))

(* A policy that asks for more than Cardinality(Workers) workers is out of *)
(* the model's bounds.                                                     *)
ASSUME ThreadPoolAssumption ==
  /\ IsFiniteSet(Workers) /\ IsFiniteSet(Tasks)
  /\ UpThreshold \in Nat /\ DownThreshold \in Nat
  /\ MaxWorkers \in 1 .. Cardinality(Workers)
  /\ \A policy \in UpPolicies :
       policy \subseteq {l \in Loads : l[2] < Cardinality(Workers)}
  /\ \A policy \in DownPolicies : policy \subseteq Loads
  /\ NoThread \notin Workers /\ NoTask \notin Tasks

VARIABLES
  running,       (* running_                                               *)
  killThread,    (* killThread: retirement signals not yet taken           *)
  taskQueue,     (* taskQueue_                                             *)
  taskMutex,     (* holder of taskMutex_ across steps, or NoThread         *)
  scaleUp,       (* the policy stored in scaleUp                           *)
  scaleDown,     (* the policy stored in scaleDown                         *)
  mgr,           (* where managerFunction is                               *)
  queueSize,     (* its sample of the queue length                         *)
  workerCount,   (* its count of the workers in workerPool                 *)
  unvisited,     (* workers its join loop has still to look at             *)
  wpc,           (* where each worker is; "none": not in workerPool        *)
  task,          (* the task each worker runs                              *)
  ppc,           (* where each producer is in addTask                      *)
  owner,         (* where the thread that owns the pool is                 *)
  submitted,     (* history: the tasks addTask has taken                    *)
  done,          (* history: the tasks that have run to their end          *)
  retired        (* history: a worker has taken a retirement signal        *)

policies   == <<scaleUp, scaleDown>>
sharedVars == <<running, killThread, taskQueue, taskMutex, policies>>
mgrVars    == <<mgr, queueSize, workerCount, unvisited>>
callVars   == <<ppc, owner>>
history    == <<submitted, done, retired>>
vars == <<sharedVars, mgrVars, wpc, task, callVars, history>>

-----------------------------------------------------------------------------
(* Derived state *)

ManagerStates == {"test", "sleep", "scale", "shrink", "notify", "reap",
                  "wakeAll", "drain", "done"}
ServingStates == {"ready", "predicateFalse", "waiting", "working"}
LeftStates    == {"leaving", "finished"}

In(states) == {w \in Workers : wpc[w] \in states}

WorkerPool == {w \in Workers : wpc[w] # "none"}   \* entries of workerPool
Serving    == In(ServingStates)                   \* will look at the queue
Waiting    == In({"waiting"})                     \* asleep on taskCondition_

Queued    == {taskQueue[i] : i \in 1 .. Len(taskQueue)}
Executing == {task[w] : w \in In({"working"})}
Accounted == Queued \cup Executing \cup done

MutexFree == taskMutex = NoThread

(* Mutation: compares with the pool's size after growing. *)
LinearUpEager(threshold, limit) ==
  {l \in Loads : l[1] > threshold * (l[2] + 1) /\ l[2] < limit}

(* The default policies, and the ones RedisChannel installs: linear in the *)
(* number of workers, with an upper limit and a floor of one.              *)
LinearUp(threshold, limit) ==
  {l \in Loads : l[1] > threshold * l[2] /\ l[2] < limit}
LinearDown(threshold) ==
  {l \in Loads : l[1] < threshold * l[2] /\ l[2] > 1}
DefaultUp == LinearUp(UpThreshold, MaxWorkers)

(* Mutation: the call of notify_one is missing. *)
NotifyNobody == UNCHANGED wpc

(* taskCondition_.notify_one() and notify_all(): a notification with nobody *)
(* asleep is lost.  A woken worker must take the mutex again.              *)
NotifyOne ==
  \/ Waiting = {} /\ UNCHANGED wpc
  \/ \E w \in Waiting : wpc' = [wpc EXCEPT ![w] = "ready"]
NotifyAll ==
  wpc' = [w \in Workers |-> IF w \in Waiting THEN "ready" ELSE wpc[w]]

(* Mutations of the conditions below: leave without draining, && for ||,   *)
(* no test of the counter, off by one.                                     *)
LeaveAtOnce == ~running
LeaveOnBoth == ~running /\ taskQueue = <<>> /\ killThread > 0
AlwaysSignal == TRUE
OneUnjoined == workerCount <= 1

WaitPredicate == taskQueue # <<>> \/ ~running \/ killThread > 0
ShutdownReached == ~running /\ taskQueue = <<>>
NoSignalPending == killThread = 0
AllJoined == workerCount = 0

WorkerMoves(w, from, to) == wpc[w] = from /\ wpc' = [wpc EXCEPT ![w] = to]
ManagerMoves(from, to) == mgr = from /\ mgr' = to

-----------------------------------------------------------------------------
(* Construction: start() launches the management thread; no worker exists. *)

Init ==
  /\ running = TRUE
  /\ killThread = 0
  /\ taskQueue = <<>>
  /\ taskMutex = NoThread
  /\ scaleUp = DefaultUp
  /\ scaleDown = LinearDown(DownThreshold)
  /\ mgr = "test" /\ queueSize = 0 /\ workerCount = 0 /\ unvisited = {}
  /\ wpc = [w \in Workers |-> "none"]
  /\ task = [w \in Workers |-> NoTask]
  /\ ppc = [p \in Producers |-> "idle"]
  /\ owner = "open"
  /\ submitted = {} /\ done = {} /\ retired = FALSE

-----------------------------------------------------------------------------
(* Callers.  An object is not used while its destructor runs, so they act  *)
(* only while the pool is open.                                            *)

CallerEnters(p) == owner = "open" /\ ppc[p] = "idle" /\ MutexFree

AddTask(p, t) ==
  /\ CallerEnters(p)
  /\ t \notin submitted
  /\ submitted' = submitted \cup {t}
  /\ taskQueue' = Append(taskQueue, t)
  /\ ppc' = [ppc EXCEPT ![p] = "notify"]
  /\ UNCHANGED <<running, killThread, taskMutex, policies, mgrVars, wpc, task>>
  /\ UNCHANGED <<owner, done, retired>>

(* The notification of addTask, sent after the unlock. *)
AddTaskNotify(p) ==
  /\ ppc[p] = "notify"
  /\ NotifyOne
  /\ ppc' = [ppc EXCEPT ![p] = "idle"]
  /\ UNCHANGED <<sharedVars, mgrVars, task, owner, history>>

SetScaleUp(p, policy) ==
  /\ CallerEnters(p)
  /\ scaleUp' = policy
  /\ UNCHANGED <<running, killThread, taskQueue, taskMutex, scaleDown>>
  /\ UNCHANGED <<mgrVars, wpc, task, callVars, history>>

SetScaleDown(p, policy) ==
  /\ CallerEnters(p)
  /\ scaleDown' = policy
  /\ UNCHANGED <<running, killThread, taskQueue, taskMutex, scaleUp>>
  /\ UNCHANGED <<mgrVars, wpc, task, callVars, history>>

-----------------------------------------------------------------------------
(* shutdown(), called by the destructor once no caller is inside the pool. *)

Stop ==
  /\ owner = "open" /\ \A p \in Producers : ppc[p] = "idle"
  /\ running' = FALSE
  /\ owner' = "notify"
  /\ UNCHANGED <<killThread, taskQueue, taskMutex, policies>>
  /\ UNCHANGED <<mgrVars, wpc, task, ppc, history>>

StopNotify ==
  /\ owner = "notify"
  /\ NotifyAll
  /\ owner' = "join"
  /\ UNCHANGED <<sharedVars, mgrVars, task, ppc, history>>

(* Mutation: the management thread is detached, not joined. *)
StopDetach ==
  /\ owner = "join"
  /\ owner' = "destroyed"
  /\ UNCHANGED <<sharedVars, mgrVars, wpc, task, ppc, history>>

StopJoin ==
  /\ owner = "join" /\ mgr = "done"
  /\ owner' = "destroyed"
  /\ UNCHANGED <<sharedVars, mgrVars, wpc, task, ppc, history>>

-----------------------------------------------------------------------------
(* workerFunction.  compare_exchange_weak may fail though the counter is   *)
(* positive: taking a task and leaving on shutdown therefore do not ask    *)
(* for killThread = 0, and the "Empty queue" pass changes nothing.         *)

(* The worker will sleep, and still holds the mutex. *)
WorkerFindsNothing(w) ==
  /\ MutexFree /\ ~WaitPredicate
  /\ WorkerMoves(w, "ready", "predicateFalse")
  /\ taskMutex' = w
  /\ UNCHANGED <<running, killThread, taskQueue, policies>>
  /\ UNCHANGED <<mgrVars, task, callVars, history>>

WorkerSleeps(w) ==
  /\ WorkerMoves(w, "predicateFalse", "waiting")
  /\ taskMutex' = NoThread
  /\ UNCHANGED <<running, killThread, taskQueue, policies>>
  /\ UNCHANGED <<mgrVars, task, callVars, history>>

(* A condition variable may wake a sleeper that nobody notified. *)
SpuriousWakeup(w) ==
  /\ WorkerMoves(w, "waiting", "ready")
  /\ UNCHANGED <<sharedVars, mgrVars, task, callVars, history>>

(* Mutation: the front is moved out of the queue before the signal is      *)
(* tested for, and lost with the worker that leaves.                       *)
TakesKillAfterPop(w) ==
  /\ MutexFree /\ killThread > 0
  /\ WorkerMoves(w, "ready", "leaving")
  /\ killThread' = killThread - 1
  /\ taskMutex' = w
  /\ taskQueue' = SubSeq(taskQueue, 2, Len(taskQueue))
  /\ retired' = TRUE
  /\ UNCHANGED <<running, policies, mgrVars, task, callVars, submitted, done>>

WorkerTakesKill(w) ==
  /\ MutexFree /\ killThread > 0
  /\ WorkerMoves(w, "ready", "leaving")
  /\ killThread' = killThread - 1
  /\ taskMutex' = w
  /\ retired' = TRUE
  /\ UNCHANGED <<running, taskQueue, policies, mgrVars, task, callVars>>
  /\ UNCHANGED <<submitted, done>>

WorkerSeesShutdown(w) ==
  /\ MutexFree /\ ShutdownReached
  /\ WorkerMoves(w, "ready", "leaving")
  /\ taskMutex' = w
  /\ UNCHANGED <<running, killThread, taskQueue, policies>>
  /\ UNCHANGED <<mgrVars, task, callVars, history>>

(* finished.store(true), then the break releases the lock. *)
WorkerLeaves(w) ==
  /\ WorkerMoves(w, "leaving", "finished")
  /\ taskMutex' = NoThread
  /\ UNCHANGED <<running, killThread, taskQueue, policies>>
  /\ UNCHANGED <<mgrVars, task, callVars, history>>

WorkerTakesTask(w) ==
  /\ MutexFree /\ taskQueue # <<>>
  /\ WorkerMoves(w, "ready", "working")
  /\ task' = [task EXCEPT ![w] = Head(taskQueue)]
  /\ taskQueue' = Tail(taskQueue)
  /\ UNCHANGED <<running, killThread, taskMutex, policies>>
  /\ UNCHANGED <<mgrVars, callVars, history>>

(* The task returns or throws a std::exception; the worker goes on. *)
WorkerEndsTask(w) ==
  /\ WorkerMoves(w, "working", "ready")
  /\ done' = done \cup {task[w]}
  /\ task' = [task EXCEPT ![w] = NoTask]
  /\ UNCHANGED <<sharedVars, mgrVars, callVars, submitted, retired>>

WorkerStep(w) ==
  \/ WorkerFindsNothing(w) \/ WorkerSleeps(w)
  \/ WorkerTakesKill(w) \/ WorkerSeesShutdown(w) \/ WorkerLeaves(w)
  \/ WorkerTakesTask(w) \/ WorkerEndsTask(w)

-----------------------------------------------------------------------------
(* managerFunction.  workerPool's order is abstracted: the join loop looks *)
(* at its entries in any order, each once.                                 *)

ManagerTests ==
  /\ ManagerMoves("test", IF running THEN "sleep" ELSE "wakeAll")
  /\ UNCHANGED <<queueSize, workerCount, unvisited>>
  /\ UNCHANGED <<sharedVars, wpc, task, callVars, history>>

(* After the 100 ms sleep the queue length is read under the mutex. *)
ManagerSamples ==
  /\ ManagerMoves("sleep", "scale") /\ MutexFree
  /\ queueSize' = Len(taskQueue)
  /\ UNCHANGED <<sharedVars, workerCount, unvisited, wpc, task, callVars, history>>

(* The policies are called without the mutex setScaleUp writes them under, *)
(* one after the other: scaleDown may be replaced after scaleUp said no.   *)
Grow   == <<queueSize, workerCount>> \in scaleUp
Shrink == <<queueSize, workerCount>> \in scaleDown

ManagerAddsWorker(w) ==
  /\ ManagerMoves("scale", "test") /\ Grow
  /\ WorkerMoves(w, "none", "ready")
  /\ workerCount' = workerCount + 1
  /\ UNCHANGED <<sharedVars, queueSize, unvisited, task, callVars, history>>

ManagerDeclines ==
  /\ ManagerMoves("scale", "shrink") /\ ~Grow
  /\ UNCHANGED <<queueSize, workerCount, unvisited>>
  /\ UNCHANGED <<sharedVars, wpc, task, callVars, history>>

(* This weak compare-and-exchange may fail too; the notification goes out  *)
(* anyway.                                                                 *)
ManagerSendsKill ==
  /\ ManagerMoves("shrink", "notify") /\ Shrink /\ NoSignalPending
  /\ killThread' \in {killThread, killThread + 1}
  /\ UNCHANGED <<running, taskQueue, taskMutex, policies>>
  /\ UNCHANGED <<queueSize, workerCount, unvisited, wpc, task, callVars, history>>

ManagerNotifies ==
  /\ ManagerMoves("notify", "reap") /\ NotifyOne
  /\ unvisited' = WorkerPool
  /\ UNCHANGED <<sharedVars, queueSize, workerCount, task, callVars, history>>

ManagerSkipsKill ==
  /\ ManagerMoves("shrink", "reap") /\ Shrink /\ ~NoSignalPending
  /\ unvisited' = WorkerPool
  /\ UNCHANGED <<sharedVars, queueSize, workerCount, wpc, task, callVars, history>>

ManagerKeepsSize ==
  /\ ManagerMoves("shrink", "test") /\ ~Shrink
  /\ UNCHANGED <<queueSize, workerCount, unvisited>>
  /\ UNCHANGED <<sharedVars, wpc, task, callVars, history>>

(* Mutation: the entry is erased and not counted. *)
ReapUncounted(w) ==
  /\ WorkerMoves(w, "finished", "none")
  /\ UNCHANGED workerCount

(* Join a finished worker and erase its entry. *)
Reap(w) ==
  /\ WorkerMoves(w, "finished", "none")
  /\ workerCount' = workerCount - 1

(* One pass of the join loop body, over the entry of worker w. *)
ManagerVisits(w) ==
  /\ mgr = "reap" /\ w \in unvisited
  /\ \/ Reap(w)
     \/ wpc[w] # "finished" /\ UNCHANGED <<wpc, workerCount>>
  /\ unvisited' = unvisited \ {w}
  /\ UNCHANGED <<sharedVars, mgr, queueSize, task, callVars, history>>

ManagerEndsReap ==
  /\ ManagerMoves("reap", "test") /\ unvisited = {}
  /\ UNCHANGED <<queueSize, workerCount, unvisited>>
  /\ UNCHANGED <<sharedVars, wpc, task, callVars, history>>

ManagerWakesAll ==
  /\ ManagerMoves("wakeAll", "drain") /\ NotifyAll
  /\ UNCHANGED <<sharedVars, queueSize, workerCount, unvisited>>
  /\ UNCHANGED <<task, callVars, history>>

(* The final loop spins until every worker has finished and been joined. *)
ManagerDrains(w) ==
  /\ mgr = "drain" /\ Reap(w)
  /\ UNCHANGED <<sharedVars, mgr, queueSize, unvisited, task, callVars, history>>

ManagerEnds ==
  /\ ManagerMoves("drain", "done") /\ AllJoined
  /\ UNCHANGED <<queueSize, workerCount, unvisited>>
  /\ UNCHANGED <<sharedVars, wpc, task, callVars, history>>

ManagerStep ==
  \/ ManagerTests \/ ManagerSamples
  \/ \E w \in Workers :
       ManagerAddsWorker(w) \/ ManagerVisits(w) \/ ManagerDrains(w)
  \/ ManagerDeclines \/ ManagerSendsKill \/ ManagerNotifies
  \/ ManagerSkipsKill \/ ManagerKeepsSize \/ ManagerEndsReap
  \/ ManagerWakesAll \/ ManagerEnds

-----------------------------------------------------------------------------
(* The specification *)

(* The pool is gone; nothing happens any more. *)
Destroyed == owner = "destroyed" /\ UNCHANGED vars

CallerStep(p) ==
  \/ \E t \in Tasks : AddTask(p, t)
  \/ AddTaskNotify(p)
  \/ \E policy \in UpPolicies : SetScaleUp(p, policy)
  \/ \E policy \in DownPolicies : SetScaleDown(p, policy)

Next ==
  \/ \E p \in Producers : CallerStep(p)
  \/ Stop \/ StopNotify \/ StopJoin
  \/ \E w \in Workers : WorkerStep(w) \/ SpuriousWakeup(w)
  \/ ManagerStep
  \/ Destroyed

(* Threads run: the scheduler does not suspend a thread for ever, a task   *)
(* returns, a call of addTask or of the destructor, once begun, goes on.   *)
(* Nobody has to submit a task or destroy the pool, and a spurious wake-up *)
(* need not come.                                                          *)
Fairness ==
  /\ WF_vars(ManagerStep)
  /\ \A w \in Workers : WF_vars(WorkerStep(w))
  /\ \A p \in Producers : WF_vars(AddTaskNotify(p))
  /\ WF_vars(StopNotify) /\ WF_vars(StopJoin)

Spec == Init /\ [][Next]_vars
FairSpec == Spec /\ Fairness

=============================================================================
