-------------------------- MODULE ThreadPoolProofs --------------------------
(***************************************************************************)
(* Proofs of the thread pool's safety properties, for any numbers of       *)
(* producers, workers and tasks and any policies.                          *)
(***************************************************************************)
EXTENDS ThreadPoolProperties, FiniteSetTheorems, TLAPS

USE ThreadPoolAssumption

-----------------------------------------------------------------------------
(* Type correctness and worker accounting: each needs the other, since the *)
(* bound on workerCount is the bound on the size of workerPool.            *)

(* A worker holds a task exactly while it runs it. *)
Typed ==
  /\ TypeOK
  /\ \A w \in Workers : wpc[w] = "working" <=> task[w] # NoTask

BaseInv ==
  /\ Typed
  /\ WorkerAccounting
  /\ mgr # "reap" => unvisited = {}

(* A worker that enters or leaves workerPool changes its size by one. *)
LEMMA PoolGrows ==
  ASSUME BaseInv, NEW w \in Workers, wpc[w] = "none",
         wpc' = [wpc EXCEPT ![w] = "ready"]
  PROVE  /\ WorkerPool' = WorkerPool \cup {w}
         /\ Cardinality(WorkerPool') = workerCount + 1
         /\ workerCount + 1 \in 0 .. Cardinality(Workers)
<1>1. WorkerPool' = WorkerPool \cup {w} /\ w \notin WorkerPool
  BY DEF BaseInv, Typed, TypeOK, WorkerPool
<1>2. IsFiniteSet(WorkerPool)
  BY FS_Subset DEF WorkerPool
<1>3. Cardinality(WorkerPool') = workerCount + 1
  BY <1>1, <1>2, FS_AddElement DEF BaseInv, WorkerAccounting
<1>4. Cardinality(WorkerPool') <= Cardinality(Workers)
  BY <1>1, FS_Subset DEF WorkerPool
<1> QED
  BY <1>1, <1>3, <1>4, FS_CardinalityType DEF BaseInv, Typed, TypeOK

LEMMA PoolShrinks ==
  ASSUME BaseInv, NEW w \in Workers, Reap(w)
  PROVE  /\ WorkerPool' = WorkerPool \ {w}
         /\ Cardinality(WorkerPool') = workerCount'
         /\ workerCount' \in 0 .. Cardinality(Workers)
<1>1. WorkerPool' = WorkerPool \ {w} /\ w \in WorkerPool
  BY DEF BaseInv, Typed, TypeOK, WorkerPool, Reap, WorkerMoves
<1>2. IsFiniteSet(WorkerPool) /\ IsFiniteSet(WorkerPool')
  BY <1>1, FS_Subset DEF WorkerPool
<1>3. Cardinality(WorkerPool') = workerCount'
  BY <1>1, <1>2, FS_RemoveElement DEF BaseInv, WorkerAccounting, Reap
<1>4. Cardinality(WorkerPool') <= Cardinality(Workers)
  BY <1>1, FS_Subset DEF WorkerPool
<1> QED
  BY <1>1, <1>2, <1>3, <1>4, FS_CardinalityType

LEMMA PoolStays ==
  ASSUME BaseInv, NotifyOne \/ NotifyAll
  PROVE  WorkerPool' = WorkerPool
BY DEF BaseInv, Typed, TypeOK, NotifyOne, NotifyAll, Waiting, In, WorkerPool

(* Steps that leave the pool's membership and the manager's data alone.    *)
LEMMA BaseQuiet ==
  ASSUME BaseInv, Typed', WorkerPool' = WorkerPool,
         UNCHANGED <<workerCount, unvisited>>, mgr' = mgr \/ unvisited = {}
  PROVE  BaseInv'
BY DEF BaseInv, WorkerAccounting

THEOREM BaseInvariant == Spec => []BaseInv
<1>1. Init => BaseInv
  <2> SUFFICES ASSUME Init PROVE BaseInv
    OBVIOUS
  <2>1. Typed
    <3>1. scaleUp \in SUBSET Loads /\ scaleDown \in SUBSET Loads
      BY DEF Init, DefaultUp, LinearUp, LinearDown
    <3>2. retired \in BOOLEAN
      BY DEF Init
    <3> QED
      BY <3>1, <3>2, FS_CardinalityType DEF Init, Typed, TypeOK, ManagerStates
  <2>2. WorkerAccounting
    BY FS_EmptySet DEF Init, WorkerAccounting, WorkerPool
  <2> QED
    BY <2>1, <2>2 DEF BaseInv, Init
<1>2. BaseInv /\ [Next]_vars => BaseInv'
  <2> SUFFICES ASSUME BaseInv, [Next]_vars PROVE BaseInv'
    OBVIOUS
  <2> USE DEF WorkerMoves, ManagerMoves, ManagerStates, ServingStates,
              LeftStates, policies, sharedVars, mgrVars, callVars, history
  <2> Typed /\ IsFiniteSet(Workers)
    BY DEF BaseInv
  <2>1. ASSUME NEW p \in Producers, CallerStep(p) PROVE BaseInv'
    <3>1. CASE \E t \in Tasks : AddTask(p, t)
      <4>1. Typed' /\ WorkerPool' = WorkerPool
        BY <3>1 DEF AddTask, Typed, TypeOK, WorkerPool
      <4> QED
        BY <3>1, <4>1, BaseQuiet DEF AddTask
    <3>2. CASE AddTaskNotify(p)
      <4>1. Typed'
        BY <3>2 DEF AddTaskNotify, NotifyOne, Typed, TypeOK, Waiting, In
      <4> QED
        BY <3>2, <4>1, PoolStays, BaseQuiet DEF AddTaskNotify
    <3>3. CASE \E policy \in UpPolicies : SetScaleUp(p, policy)
      <4>1. Typed' /\ WorkerPool' = WorkerPool
        BY <3>3 DEF SetScaleUp, Typed, TypeOK, WorkerPool
      <4> QED
        BY <3>3, <4>1, BaseQuiet DEF SetScaleUp
    <3>4. CASE \E policy \in DownPolicies : SetScaleDown(p, policy)
      <4>1. Typed' /\ WorkerPool' = WorkerPool
        BY <3>4 DEF SetScaleDown, Typed, TypeOK, WorkerPool
      <4> QED
        BY <3>4, <4>1, BaseQuiet DEF SetScaleDown
    <3> QED
      BY <2>1, <3>1, <3>2, <3>3, <3>4 DEF CallerStep
  <2>2. CASE Stop \/ StopJoin \/ Destroyed \/ UNCHANGED vars
    <3>1. ASSUME Stop PROVE Typed' /\ WorkerPool' = WorkerPool
      BY <3>1 DEF Stop, Typed, TypeOK, WorkerPool
    <3>2. ASSUME StopJoin PROVE Typed' /\ WorkerPool' = WorkerPool
      BY <3>2 DEF StopJoin, Typed, TypeOK, WorkerPool
    <3>3. ASSUME Destroyed \/ UNCHANGED vars
          PROVE  Typed' /\ WorkerPool' = WorkerPool
      BY <3>3 DEF Destroyed, vars, Typed, TypeOK, WorkerPool
    <3>4. Typed' /\ WorkerPool' = WorkerPool
      BY <2>2, <3>1, <3>2, <3>3
    <3> QED
      BY <2>2, <3>4, BaseQuiet DEF Stop, StopJoin, Destroyed, vars
  <2>3. CASE StopNotify
    <3>1. Typed'
      BY <2>3 DEF StopNotify, NotifyAll, Typed, TypeOK, Waiting, In
    <3> QED
      BY <2>3, <3>1, PoolStays, BaseQuiet DEF StopNotify
  <2>4. ASSUME NEW w \in Workers, WorkerStep(w) \/ SpuriousWakeup(w)
        PROVE  BaseInv'
    <3>1. Typed'
      <4>1. CASE WorkerTakesTask(w)
        BY <4>1 DEF WorkerTakesTask, Typed, TypeOK
      <4>2. CASE WorkerEndsTask(w)
        <5>1. task[w] = NoTask \/ task[w] \in Tasks
          BY DEF Typed, TypeOK
        <5> QED
          BY <4>2, <5>1 DEF WorkerEndsTask, Typed, TypeOK
      <4>3. CASE WorkerTakesKill(w)
        BY <4>3 DEF WorkerTakesKill, Typed, TypeOK
      <4>4. CASE WorkerFindsNothing(w) \/ WorkerSleeps(w) \/ SpuriousWakeup(w)
        BY <4>4 DEF WorkerFindsNothing, WorkerSleeps, SpuriousWakeup, Typed, TypeOK
      <4>5. CASE WorkerSeesShutdown(w) \/ WorkerLeaves(w)
        BY <4>5 DEF WorkerSeesShutdown, WorkerLeaves, Typed, TypeOK
      <4> QED
        BY <2>4, <4>1, <4>2, <4>3, <4>4, <4>5 DEF WorkerStep
    <3>2. WorkerPool' = WorkerPool
      BY <2>4 DEF WorkerStep, WorkerFindsNothing, WorkerSleeps, SpuriousWakeup,
         WorkerTakesKill, WorkerSeesShutdown, WorkerLeaves, WorkerTakesTask,
         WorkerEndsTask, Typed, TypeOK, WorkerPool
    <3>3. UNCHANGED mgrVars
      BY <2>4 DEF WorkerStep, WorkerFindsNothing, WorkerSleeps, SpuriousWakeup,
         WorkerTakesKill, WorkerSeesShutdown, WorkerLeaves, WorkerTakesTask,
         WorkerEndsTask
    <3> QED
      BY <3>1, <3>2, <3>3, BaseQuiet
  <2>5. ASSUME ManagerStep PROVE BaseInv'
    <3>1. CASE ManagerTests \/ ManagerSamples \/ ManagerDeclines
            \/ ManagerKeepsSize
      <4>1. Typed' /\ WorkerPool' = WorkerPool
        BY <3>1 DEF ManagerTests, ManagerSamples, ManagerDeclines, ManagerKeepsSize,
           Typed, TypeOK, WorkerPool
      <4> QED
        BY <3>1, <4>1, BaseQuiet DEF ManagerTests, ManagerSamples,
           ManagerDeclines, ManagerKeepsSize, BaseInv
    <3>2. ASSUME NEW w \in Workers, ManagerAddsWorker(w) PROVE BaseInv'
      <4>1. /\ WorkerPool' = WorkerPool \cup {w}
            /\ Cardinality(WorkerPool') = workerCount'
            /\ workerCount' \in 0 .. Cardinality(Workers)
        BY <3>2, PoolGrows DEF ManagerAddsWorker
      <4>2. Typed'
        BY <3>2, <4>1 DEF ManagerAddsWorker, Typed, TypeOK
      <4> QED
        BY <3>2, <4>1, <4>2 DEF ManagerAddsWorker, BaseInv, WorkerAccounting
    <3>3. ASSUME NEW w \in Workers, ManagerVisits(w) PROVE BaseInv'
      <4>1. CASE Reap(w)
        <5>1. /\ WorkerPool' = WorkerPool \ {w}
              /\ Cardinality(WorkerPool') = workerCount'
              /\ workerCount' \in 0 .. Cardinality(Workers)
          BY <4>1, PoolShrinks
        <5>2. Typed'
          BY <3>3, <4>1, <5>1 DEF ManagerVisits, Reap, Typed, TypeOK
        <5> QED
          BY <3>3, <5>1, <5>2 DEF ManagerVisits, BaseInv, WorkerAccounting
      <4>2. CASE UNCHANGED <<wpc, workerCount>>
        <5>1. Typed' /\ WorkerPool' = WorkerPool
          BY <3>3, <4>2 DEF ManagerVisits, Typed, TypeOK, WorkerPool
        <5> QED
          BY <3>3, <4>2, <5>1 DEF ManagerVisits, BaseInv, WorkerAccounting
      <4> QED
        BY <3>3, <4>1, <4>2 DEF ManagerVisits
    <3>4. ASSUME NEW w \in Workers, ManagerDrains(w) PROVE BaseInv'
      <4>1. /\ WorkerPool' = WorkerPool \ {w}
            /\ Cardinality(WorkerPool') = workerCount'
            /\ workerCount' \in 0 .. Cardinality(Workers)
        BY <3>4, PoolShrinks DEF ManagerDrains
      <4>2. Typed'
        BY <3>4, <4>1 DEF ManagerDrains, Reap, Typed, TypeOK
      <4> QED
        BY <3>4, <4>1, <4>2 DEF ManagerDrains, BaseInv, WorkerAccounting
    <3>5. CASE ManagerSendsKill
      <4>1. Typed' /\ WorkerPool' = WorkerPool
        BY <3>5 DEF ManagerSendsKill, NoSignalPending, Typed, TypeOK, WorkerPool
      <4> QED
        BY <3>5, <4>1, BaseQuiet DEF ManagerSendsKill, BaseInv
    <3>6. CASE ManagerNotifies
      <4>1. Typed'
        BY <3>6 DEF ManagerNotifies, NotifyOne, Typed, TypeOK, Waiting, In, WorkerPool
      <4> QED
        BY <3>6, <4>1, PoolStays DEF ManagerNotifies, BaseInv, WorkerAccounting
    <3>7. CASE ManagerSkipsKill
      <4>1. Typed' /\ WorkerPool' = WorkerPool
        BY <3>7 DEF ManagerSkipsKill, Typed, TypeOK, WorkerPool
      <4> QED
        BY <3>7, <4>1 DEF ManagerSkipsKill, BaseInv, WorkerAccounting
    <3>8. CASE ManagerEndsReap \/ ManagerEnds
      <4>1. Typed' /\ WorkerPool' = WorkerPool
        BY <3>8 DEF ManagerEndsReap, ManagerEnds, Typed, TypeOK, WorkerPool
      <4> QED
        BY <3>8, <4>1, BaseQuiet DEF ManagerEndsReap, ManagerEnds, BaseInv
    <3>9. CASE ManagerWakesAll
      <4>1. Typed'
        BY <3>9 DEF ManagerWakesAll, NotifyAll, Typed, TypeOK, Waiting, In
      <4> QED
        BY <3>9, <4>1, PoolStays, BaseQuiet DEF ManagerWakesAll, BaseInv
    <3> QED
      BY <2>5, <3>1, <3>2, <3>3, <3>4, <3>5, <3>6, <3>7, <3>8, <3>9
      DEF ManagerStep
  <2> QED
    BY <2>1, <2>2, <2>3, <2>4, <2>5 DEF Next
<1> QED
  BY <1>1, <1>2, PTL DEF Spec

(* The state keeps its types in every run of the pool. *)
THEOREM TypeCorrect == Spec => []TypeOK
BY BaseInvariant, PTL DEF BaseInv, Typed

(* workerCount is the size of workerPool, always. *)
THEOREM WorkersAccounted == Spec => []WorkerAccounting
BY BaseInvariant, PTL DEF BaseInv

-----------------------------------------------------------------------------
(* The life of the pool and of its mutex.                                  *)

LifeInv ==
  /\ running <=> owner = "open"
  /\ mgr \in {"wakeAll", "drain", "done"} => ~running
  /\ mgr = "done" => workerCount = 0
  /\ owner = "destroyed" => mgr = "done"

(* taskMutex_ is held across steps exactly by the worker about to sleep or *)
(* to set its flag.                                                        *)
MutexInv ==
  \A w \in Workers : wpc[w] \in {"predicateFalse", "leaving"} <=> taskMutex = w

LEMMA LifeInvariant == Spec => []LifeInv
<1>1. Init => LifeInv
  BY DEF Init, LifeInv
<1>2. LifeInv /\ [Next]_vars => LifeInv'
  <2> SUFFICES ASSUME LifeInv, [Next]_vars PROVE LifeInv'
    OBVIOUS
  <2> USE DEF LifeInv, ManagerMoves, policies, sharedVars, mgrVars, callVars,
              history
  <2>1. ASSUME NEW p \in Producers, CallerStep(p) PROVE LifeInv'
    BY <2>1 DEF CallerStep, AddTask, AddTaskNotify, SetScaleUp, SetScaleDown
  <2>2. CASE Stop \/ StopNotify \/ StopJoin \/ Destroyed \/ UNCHANGED vars
    BY <2>2 DEF Stop, StopNotify, StopJoin, Destroyed, vars
  <2>3. ASSUME NEW w \in Workers, WorkerStep(w) \/ SpuriousWakeup(w)
        PROVE  LifeInv'
    BY <2>3 DEF WorkerStep, WorkerFindsNothing, WorkerSleeps, SpuriousWakeup,
       WorkerTakesKill, WorkerSeesShutdown, WorkerLeaves, WorkerTakesTask,
       WorkerEndsTask
  <2>4. CASE ManagerStep
    <3>1. ASSUME NEW w \in Workers,
                 ManagerAddsWorker(w) \/ ManagerVisits(w) \/ ManagerDrains(w)
          PROVE  LifeInv'
      BY <3>1 DEF ManagerAddsWorker, ManagerVisits, ManagerDrains
    <3>2. CASE ManagerTests \/ ManagerSamples \/ ManagerDeclines
            \/ ManagerKeepsSize
      BY <3>2 DEF ManagerTests, ManagerSamples, ManagerDeclines, ManagerKeepsSize
    <3>3. CASE ManagerSendsKill \/ ManagerNotifies \/ ManagerSkipsKill
      BY <3>3 DEF ManagerSendsKill, ManagerNotifies, ManagerSkipsKill
    <3>4. CASE ManagerEndsReap \/ ManagerWakesAll \/ ManagerEnds
      BY <3>4 DEF ManagerEndsReap, ManagerWakesAll, ManagerEnds, AllJoined
    <3> QED
      BY <2>4, <3>1, <3>2, <3>3, <3>4 DEF ManagerStep
  <2> QED
    BY <2>1, <2>2, <2>3, <2>4 DEF Next
<1> QED
  BY <1>1, <1>2, PTL DEF Spec

LEMMA MutexInvariant == Spec => []MutexInv
<1>1. Init => MutexInv
  BY DEF Init, MutexInv
<1>2. BaseInv /\ MutexInv /\ [Next]_vars => MutexInv'
  <2> SUFFICES ASSUME BaseInv, MutexInv, [Next]_vars PROVE MutexInv'
    OBVIOUS
  <2> TypeOK
    BY DEF BaseInv, Typed
  <2> USE DEF MutexInv, TypeOK, MutexFree, WorkerMoves, ManagerMoves, policies,
              sharedVars, mgrVars, callVars, history, NotifyOne, NotifyAll,
              Waiting, In
  <2>1. ASSUME NEW p \in Producers, CallerStep(p) PROVE MutexInv'
    BY <2>1 DEF CallerStep, AddTask, AddTaskNotify, SetScaleUp, SetScaleDown
  <2>2. CASE Stop \/ StopNotify \/ StopJoin \/ Destroyed \/ UNCHANGED vars
    BY <2>2 DEF Stop, StopNotify, StopJoin, Destroyed, vars
  <2>3. ASSUME NEW w \in Workers, WorkerStep(w) \/ SpuriousWakeup(w)
        PROVE  MutexInv'
    BY <2>3 DEF WorkerStep, WorkerFindsNothing, WorkerSleeps, SpuriousWakeup,
       WorkerTakesKill, WorkerSeesShutdown, WorkerLeaves, WorkerTakesTask,
       WorkerEndsTask
  <2>4. CASE ManagerStep
    <3>1. ASSUME NEW w \in Workers,
                 ManagerAddsWorker(w) \/ ManagerVisits(w) \/ ManagerDrains(w)
          PROVE  MutexInv'
      BY <3>1 DEF ManagerAddsWorker, ManagerVisits, ManagerDrains, Reap
    <3>2. CASE ManagerTests \/ ManagerSamples \/ ManagerDeclines
            \/ ManagerKeepsSize
      BY <3>2 DEF ManagerTests, ManagerSamples, ManagerDeclines, ManagerKeepsSize
    <3>3. CASE ManagerSendsKill \/ ManagerNotifies \/ ManagerSkipsKill
      BY <3>3 DEF ManagerSendsKill, ManagerNotifies, ManagerSkipsKill
    <3>4. CASE ManagerEndsReap \/ ManagerWakesAll \/ ManagerEnds
      BY <3>4 DEF ManagerEndsReap, ManagerWakesAll, ManagerEnds
    <3> QED
      BY <2>4, <3>1, <3>2, <3>3, <3>4 DEF ManagerStep
  <2> QED
    BY <2>1, <2>2, <2>3, <2>4 DEF Next
<1> QED
  BY <1>1, <1>2, BaseInvariant, PTL DEF Spec

LEMMA NobodyLeft ==
  ASSUME BaseInv, LifeInv, mgr = "done"
  PROVE  WorkerPool = {} /\ Executing = {}
<1>1. IsFiniteSet(WorkerPool) /\ Cardinality(WorkerPool) = 0
  BY FS_Subset DEF BaseInv, WorkerAccounting, LifeInv, WorkerPool
<1>2. WorkerPool = {}
  BY <1>1, FS_EmptySet
<1> QED
  BY <1>2 DEF WorkerPool, Executing, In

(* Once ~ThreadPool returned no worker thread is left, none holds the      *)
(* mutex, and no task runs.                                                *)
THEOREM NoGhosts == Spec => []NoGhostThreads
<1>1. BaseInv /\ LifeInv /\ MutexInv => NoGhostThreads
  <2> SUFFICES ASSUME BaseInv, LifeInv, MutexInv, owner = "destroyed"
               PROVE  WorkerPool = {} /\ MutexFree /\ Executing = {}
    BY DEF NoGhostThreads
  <2>1. WorkerPool = {} /\ Executing = {}
    BY NobodyLeft DEF LifeInv
  <2>2. MutexFree
    BY <2>1 DEF MutexInv, MutexFree, WorkerPool, BaseInv, Typed, TypeOK
  <2> QED
    BY <2>1, <2>2
<1> QED
  BY <1>1, BaseInvariant, LifeInvariant, MutexInvariant, PTL

-----------------------------------------------------------------------------
(* Tasks.  Three steps move a task; the others leave the queue, the tasks  *)
(* the workers hold and the set of workers at work as they are.            *)

TasksStay == UNCHANGED <<taskQueue, task, submitted, done, In({"working"})>>

LEMMA TaskSteps ==
  ASSUME BaseInv, [Next]_vars
  PROVE  \/ \E p \in Producers, t \in Tasks : AddTask(p, t)
         \/ \E w \in Workers : WorkerTakesTask(w) \/ WorkerEndsTask(w)
         \/ TasksStay
<1> TypeOK
  BY DEF BaseInv, Typed
<1> USE DEF TasksStay, In, TypeOK, WorkerMoves, ManagerMoves, policies,
            sharedVars, mgrVars, callVars, history, NotifyOne, NotifyAll, Waiting
<1>1. ASSUME NEW p \in Producers, CallerStep(p),
             ~ \E t \in Tasks : AddTask(p, t)
      PROVE  TasksStay
  BY <1>1 DEF CallerStep, AddTaskNotify, SetScaleUp, SetScaleDown
<1>2. CASE Stop \/ StopNotify \/ StopJoin \/ Destroyed \/ UNCHANGED vars
  BY <1>2 DEF Stop, StopNotify, StopJoin, Destroyed, vars
<1>3. ASSUME NEW w \in Workers, WorkerStep(w) \/ SpuriousWakeup(w),
             ~ WorkerTakesTask(w), ~ WorkerEndsTask(w)
      PROVE  TasksStay
  BY <1>3 DEF WorkerStep, WorkerFindsNothing, WorkerSleeps, SpuriousWakeup,
     WorkerTakesKill, WorkerSeesShutdown, WorkerLeaves
<1>4. ASSUME ManagerStep PROVE TasksStay
  <2>1. ASSUME NEW w \in Workers,
               ManagerAddsWorker(w) \/ ManagerVisits(w) \/ ManagerDrains(w)
        PROVE  TasksStay
    BY <2>1 DEF ManagerAddsWorker, ManagerVisits, ManagerDrains, Reap
  <2>2. CASE ManagerTests \/ ManagerSamples \/ ManagerDeclines
            \/ ManagerKeepsSize
    BY <2>2 DEF ManagerTests, ManagerSamples, ManagerDeclines, ManagerKeepsSize
  <2>3. CASE ManagerSendsKill \/ ManagerNotifies \/ ManagerSkipsKill
    BY <2>3 DEF ManagerSendsKill, ManagerNotifies, ManagerSkipsKill
  <2>4. CASE ManagerEndsReap \/ ManagerWakesAll \/ ManagerEnds
    BY <2>4 DEF ManagerEndsReap, ManagerWakesAll, ManagerEnds
  <2> QED
    BY <1>4, <2>1, <2>2, <2>3, <2>4 DEF ManagerStep
<1> QED
  BY <1>1, <1>2, <1>3, <1>4 DEF Next

(* The front of a sequence and the rest of it. *)
LEMMA HeadAndTail ==
  ASSUME NEW S, NEW s \in Seq(S), s # <<>>
  PROVE  /\ Tail(s) \in Seq(S) /\ Head(s) \in S
         /\ Len(s) \in Nat \ {0} /\ Len(Tail(s)) = Len(s) - 1
         /\ Head(s) = s[1]
         /\ \A i \in 1 .. Len(Tail(s)) : Tail(s)[i] = s[i + 1]
OBVIOUS

LEMMA AppendEffect ==
  ASSUME NEW S, NEW s \in Seq(S), NEW x \in S
  PROVE  /\ Append(s, x) \in Seq(S) /\ Len(Append(s, x)) = Len(s) + 1
         /\ \A i \in 1 .. Len(s) : Append(s, x)[i] = s[i]
         /\ Append(s, x)[Len(s) + 1] = x /\ Len(s) \in Nat
OBVIOUS

(* What queueing, taking and ending a task do to the sets of tasks. *)
LEMMA AddEffect ==
  ASSUME BaseInv, ExactlyOnce,
         NEW p \in Producers, NEW t \in Tasks, AddTask(p, t)
  PROVE  /\ Queued' = Queued \cup {t} /\ submitted' = submitted \cup {t}
         /\ t \notin Queued /\ t \notin Executing /\ t \notin done
         /\ Executing' = Executing /\ In({"working"})' = In({"working"})
         /\ UNCHANGED <<task, done>>
<1> taskQueue \in Seq(Tasks)
  BY DEF BaseInv, Typed, TypeOK
<1>1. /\ taskQueue' = Append(taskQueue, t) /\ UNCHANGED <<wpc, task, done>>
      /\ t \notin submitted /\ submitted' = submitted \cup {t}
  BY DEF AddTask
<1>2. Queued' = Queued \cup {t}
  BY <1>1, AppendEffect DEF Queued
<1> QED
  BY <1>1, <1>2 DEF ExactlyOnce, Accounted, Executing, In

LEMMA TakeEffect ==
  ASSUME BaseInv, ExactlyOnce, NEW w \in Workers, WorkerTakesTask(w)
  PROVE  /\ In({"working"})' = In({"working"}) \cup {w}
         /\ w \notin In({"working"})
         /\ Head(taskQueue) \in Queued
         /\ Queued' = Queued \ {Head(taskQueue)}
         /\ Executing' = Executing \cup {Head(taskQueue)}
         /\ \A v \in Workers \ {w} : task'[v] = task[v]
         /\ task'[w] = Head(taskQueue)
<1> TypeOK /\ taskQueue # <<>>
  BY DEF BaseInv, Typed, WorkerTakesTask
<1>1. /\ In({"working"})' = In({"working"}) \cup {w}
      /\ w \notin In({"working"})
  BY DEF WorkerTakesTask, WorkerMoves, In, TypeOK
<1>2. /\ \A v \in Workers \ {w} : task'[v] = task[v]
      /\ task'[w] = Head(taskQueue)
  BY DEF WorkerTakesTask, TypeOK
<1>3. Head(taskQueue) \in Queued
  BY HeadAndTail DEF Queued, TypeOK
<1>4. Queued' \subseteq Queued \ {Head(taskQueue)}
  <2> SUFFICES ASSUME NEW i \in 1 .. Len(Tail(taskQueue))
               PROVE  /\ Tail(taskQueue)[i] \in Queued
                      /\ Tail(taskQueue)[i] # Head(taskQueue)
    BY DEF Queued, WorkerTakesTask
  <2>1. /\ Tail(taskQueue)[i] = taskQueue[i + 1] /\ i + 1 # 1
        /\ i + 1 \in 1 .. Len(taskQueue) /\ 1 \in 1 .. Len(taskQueue)
        /\ Head(taskQueue) = taskQueue[1]
    BY HeadAndTail DEF TypeOK
  <2> QED
    BY <2>1 DEF ExactlyOnce, Queued
<1>6. Queued \ {Head(taskQueue)} \subseteq Queued'
  <2> SUFFICES ASSUME NEW i \in 1 .. Len(taskQueue),
                      taskQueue[i] # Head(taskQueue)
               PROVE  taskQueue[i] \in Queued'
    BY DEF Queued
  <2>1. /\ i - 1 \in 1 .. Len(Tail(taskQueue))
        /\ Tail(taskQueue)[i - 1] = taskQueue[i]
    BY HeadAndTail DEF TypeOK
  <2> QED
    BY <2>1 DEF Queued, WorkerTakesTask
<1>5. Executing' = Executing \cup {Head(taskQueue)}
  BY <1>1, <1>2 DEF Executing, In
<1> QED
  BY <1>1, <1>2, <1>3, <1>4, <1>5, <1>6

LEMMA EndEffect ==
  ASSUME BaseInv, ExactlyOnce, NEW w \in Workers, WorkerEndsTask(w)
  PROVE  /\ In({"working"})' = In({"working"}) \ {w}
         /\ w \in In({"working"})
         /\ Executing' = Executing \ {task[w]}
         /\ task[w] \in Executing /\ task[w] \in Tasks
         /\ \A v \in Workers \ {w} : task'[v] = task[v]
<1> TypeOK
  BY DEF BaseInv, Typed
<1>1. In({"working"})' = In({"working"}) \ {w} /\ w \in In({"working"})
  BY DEF WorkerEndsTask, WorkerMoves, In, TypeOK
<1>2. \A v \in Workers \ {w} : task'[v] = task[v]
  BY DEF WorkerEndsTask, TypeOK
<1>3. task[w] \in Executing /\ task[w] \in Tasks
  BY <1>1 DEF BaseInv, Typed, TypeOK, Executing, In
<1>4. Executing' = Executing \ {task[w]}
  BY <1>1, <1>2 DEF Executing, ExactlyOnce, In
<1> QED
  BY <1>1, <1>2, <1>3, <1>4

(* Every task addTask took is once in the queue, or with one worker, or    *)
(* ended: none is lost on the way, and none is run twice.                  *)
THEOREM TasksRunOnce == Spec => []ExactlyOnce
<1>1. Init => ExactlyOnce
  BY DEF Init, ExactlyOnce, Accounted, Queued, Executing, In
<1>2. BaseInv /\ ExactlyOnce /\ [Next]_vars => ExactlyOnce'
  <2> SUFFICES ASSUME BaseInv, ExactlyOnce, [Next]_vars PROVE ExactlyOnce'
    OBVIOUS
  <2> TypeOK
    BY DEF BaseInv, Typed
  <2>1. ASSUME NEW p \in Producers, NEW t \in Tasks, AddTask(p, t)
        PROVE  ExactlyOnce'
    <3>1. \A i, j \in 1 .. Len(taskQueue') :
             taskQueue'[i] = taskQueue'[j] => i = j
      <4>1. taskQueue' = Append(taskQueue, t)
        BY <2>1 DEF AddTask
      <4>2. \A i \in 1 .. Len(taskQueue) : taskQueue[i] # t
        BY <2>1, AddEffect DEF Queued
      <4> QED
        BY <4>1, <4>2, AppendEffect DEF ExactlyOnce, TypeOK
    <3> QED
      BY <2>1, <3>1, AddEffect DEF ExactlyOnce, Accounted
  <2>2. ASSUME NEW w \in Workers, WorkerTakesTask(w) PROVE ExactlyOnce'
    <3>1. /\ UNCHANGED history
          /\ taskQueue' = Tail(taskQueue) /\ taskQueue # <<>>
      BY <2>2 DEF WorkerTakesTask
    <3>2. \A i, j \in 1 .. Len(taskQueue') :
             taskQueue'[i] = taskQueue'[j] => i = j
      BY <3>1, HeadAndTail DEF ExactlyOnce, TypeOK
    <3>3. \A u, v \in In({"working"})' : task'[u] = task'[v] => u = v
      BY <2>2, TakeEffect DEF ExactlyOnce, Executing, In
    <3> QED
      BY <2>2, <3>1, <3>2, <3>3, TakeEffect DEF ExactlyOnce, Accounted, history
  <2>3. ASSUME NEW w \in Workers, WorkerEndsTask(w) PROVE ExactlyOnce'
    <3>1. /\ done' = done \cup {task[w]}
          /\ UNCHANGED <<taskQueue, submitted>>
      BY <2>3 DEF WorkerEndsTask, sharedVars
    <3>2. \A u, v \in In({"working"})' : task'[u] = task'[v] => u = v
      BY <2>3, EndEffect DEF ExactlyOnce, In
    <3>3. Queued' = Queued /\ done' = done \cup {task[w]}
      BY <3>1 DEF Queued
    <3>4. /\ Executing' = Executing \ {task[w]}
          /\ task[w] \in Executing
      BY <2>3, EndEffect
    <3>5. Queued' \cap (Executing' \cup done') = {} /\ Executing' \cap done' = {}
      BY <3>3, <3>4 DEF ExactlyOnce
    <3> QED
      BY <3>1, <3>2, <3>3, <3>4, <3>5 DEF ExactlyOnce, Accounted
  <2>4. CASE TasksStay
    BY <2>4 DEF TasksStay, ExactlyOnce, Accounted, Queued, Executing
  <2> QED
    BY <2>1, <2>2, <2>3, <2>4, TaskSteps
<1> QED
  BY <1>1, <1>2, BaseInvariant, PTL DEF Spec

-----------------------------------------------------------------------------
(* The pool implements the task service.                                   *)

(* Only the end of ~ThreadPool takes the pool away from its users. *)
LEMMA OnlyJoinDestroys ==
  ASSUME [Next]_vars, ~ StopJoin
  PROVE  owner' = "destroyed" <=> owner = "destroyed"
<1> USE DEF policies, sharedVars, mgrVars, callVars, history
<1>1. ASSUME NEW p \in Producers, CallerStep(p)
      PROVE  owner' = owner
  BY <1>1 DEF CallerStep, AddTask, AddTaskNotify, SetScaleUp, SetScaleDown
<1>2. CASE Stop \/ StopNotify \/ Destroyed \/ UNCHANGED vars
  BY <1>2 DEF Stop, StopNotify, Destroyed, vars
<1>3. ASSUME NEW w \in Workers, WorkerStep(w) \/ SpuriousWakeup(w)
      PROVE  owner' = owner
  BY <1>3 DEF WorkerStep, WorkerFindsNothing, WorkerSleeps, SpuriousWakeup,
     WorkerTakesKill, WorkerSeesShutdown, WorkerLeaves, WorkerTakesTask,
     WorkerEndsTask
<1>4. ASSUME ManagerStep PROVE owner' = owner
  BY <1>4 DEF ManagerStep, ManagerTests, ManagerSamples, ManagerAddsWorker,
     ManagerDeclines, ManagerVisits, ManagerDrains, ManagerSendsKill, ManagerNotifies,
     ManagerSkipsKill, ManagerKeepsSize, ManagerEndsReap, ManagerWakesAll,
     ManagerEnds
<1> QED
  BY <1>1, <1>2, <1>3, <1>4 DEF Next

(* Tasks begin in the order addTask queued them, run once, and none runs   *)
(* when ~ThreadPool has returned.                                          *)
THEOREM PoolImplementsService == Spec => ImplementsService
<1>1. Init => Service!Init
  BY DEF Init, Service!Init, Executing, In
<1>2. BaseInv /\ LifeInv /\ ExactlyOnce /\ [Next]_vars
        => [Service!Next]_Service!vars
  <2> SUFFICES ASSUME BaseInv, LifeInv, ExactlyOnce, [Next]_vars
               PROVE  [Service!Next]_Service!vars
    OBVIOUS
  <2>1. ASSUME NEW p \in Producers, NEW t \in Tasks, AddTask(p, t)
        PROVE  Service!Submit(t)
    <3>1. taskQueue' = Append(taskQueue, t) /\ owner = "open" /\ owner' = owner
      BY <2>1 DEF AddTask, CallerEnters
    <3>2. t \notin Service!Known
      BY <2>1, AddEffect DEF Service!Known, Queued
    <3> QED
      BY <2>1, <3>1, <3>2, AddEffect DEF Service!Submit
  <2>2. ASSUME NEW w \in Workers, WorkerTakesTask(w) PROVE Service!Begin
    <3>1. /\ taskQueue # <<>> /\ taskQueue' = Tail(taskQueue)
          /\ done' = done /\ owner' = owner /\ wpc[w] = "ready"
      BY <2>2 DEF WorkerTakesTask, WorkerMoves, callVars, history
    <3>2. owner # "destroyed"
      BY <3>1, NobodyLeft DEF LifeInv, WorkerPool
    <3> QED
      BY <2>2, <3>1, <3>2, TakeEffect DEF Service!Begin
  <2>3. ASSUME NEW w \in Workers, WorkerEndsTask(w)
        PROVE  Service!End(task[w]) /\ task[w] \in Tasks
    <3>1. /\ taskQueue' = taskQueue /\ done' = done \cup {task[w]}
          /\ owner' = owner /\ wpc[w] = "working"
      BY <2>3 DEF WorkerEndsTask, WorkerMoves, sharedVars, callVars
    <3>2. owner # "destroyed"
      BY <3>1, NobodyLeft DEF LifeInv, WorkerPool
    <3> QED
      BY <2>3, <3>1, <3>2, EndEffect DEF Service!End
  <2>4. CASE StopJoin
    <3>1. Executing = {}
      BY <2>4, NobodyLeft DEF StopJoin
    <3> QED
      BY <2>4, <3>1 DEF StopJoin, sharedVars, history, Executing, In, Service!Next,
         Service!Close
  <2>5. ASSUME TasksStay, ~ StopJoin PROVE UNCHANGED Service!vars
    <3>1. UNCHANGED <<taskQueue, done, Executing>>
      BY <2>5 DEF TasksStay, Executing
    <3> QED
      BY <2>5, <3>1, OnlyJoinDestroys DEF Service!vars
  <2> QED
    BY <2>1, <2>2, <2>3, <2>4, <2>5, TaskSteps DEF Service!Next
<1> QED
  BY <1>1, <1>2, BaseInvariant, LifeInvariant, TasksRunOnce, PTL
  DEF Spec, ImplementsService, Service!Spec

-----------------------------------------------------------------------------
(* As long as no worker has taken a retirement signal, the only way out of *)
(* the queue's service is a shutdown that found the queue empty.  The      *)
(* second part keeps the wait itself atomic: nothing is queued while a     *)
(* worker holds the mutex on its way to sleep.                             *)

NotifyPending == \E p \in Producers : ppc[p] = "notify"
Drained == ~running /\ taskQueue = <<>>

ServedInv ==
  ~retired =>
    /\ \A w \in Workers : wpc[w] \in LeftStates => Drained
    /\ \A w \in Workers : wpc[w] = "predicateFalse" => taskQueue = <<>>
    /\ taskQueue # <<>> /\ Serving # {} =>
         In({"ready", "working"}) # {} \/ NotifyPending
    /\ done # {} /\ Serving = {} => Drained

LEMMA ServedInvariant == Spec => []ServedInv
<1>1. Init => ServedInv
  BY DEF Init, ServedInv, Serving, ServingStates, LeftStates, In
<1>2. BaseInv /\ LifeInv /\ MutexInv /\ ServedInv /\ [Next]_vars => ServedInv'
  <2> SUFFICES ASSUME BaseInv, LifeInv, MutexInv, ServedInv, [Next]_vars, ~retired'
               PROVE  ServedInv'
    BY DEF ServedInv
  <2> TypeOK
    BY DEF BaseInv, Typed
  <2> USE DEF ServedInv, Drained, NotifyPending, TypeOK, MutexFree, WorkerMoves,
              ManagerMoves, policies, sharedVars, mgrVars, callVars, history, In,
              Serving, ServingStates, LeftStates
  <2>1. ASSUME NEW p \in Producers, CallerStep(p) PROVE ServedInv'
    <3>1. ASSUME NEW t \in Tasks, AddTask(p, t) PROVE ServedInv'
      BY <3>1 DEF AddTask, CallerEnters, LifeInv, MutexInv
    <3>2. CASE AddTaskNotify(p)
      BY <3>2 DEF AddTaskNotify, NotifyOne, Waiting
    <3>3. CASE \E policy \in UpPolicies : SetScaleUp(p, policy)
      BY <3>3 DEF SetScaleUp
    <3>4. CASE \E policy \in DownPolicies : SetScaleDown(p, policy)
      BY <3>4 DEF SetScaleDown
    <3> QED
      BY <2>1, <3>1, <3>2, <3>3, <3>4 DEF CallerStep
  <2>2. CASE Stop \/ StopJoin \/ Destroyed \/ UNCHANGED vars
    BY <2>2 DEF Stop, StopJoin, Destroyed, vars
  <2>3. CASE StopNotify
    BY <2>3 DEF StopNotify, NotifyAll, Waiting
  <2>4. ASSUME NEW w \in Workers, WorkerStep(w) \/ SpuriousWakeup(w)
        PROVE  ServedInv'
    <3>1. CASE WorkerFindsNothing(w)
      BY <3>1 DEF WorkerFindsNothing, WaitPredicate
    <3>2. CASE WorkerSleeps(w) \/ SpuriousWakeup(w)
      BY <3>2 DEF WorkerSleeps, SpuriousWakeup
    <3>3. CASE WorkerTakesKill(w)
      BY <3>3 DEF WorkerTakesKill
    <3>4. CASE WorkerSeesShutdown(w) \/ WorkerLeaves(w)
      BY <3>4 DEF WorkerSeesShutdown, WorkerLeaves, ShutdownReached
    <3>5. CASE WorkerTakesTask(w)
      BY <3>5 DEF WorkerTakesTask
    <3>6. CASE WorkerEndsTask(w)
      BY <3>6 DEF WorkerEndsTask
    <3> QED
      BY <2>4, <3>1, <3>2, <3>3, <3>4, <3>5, <3>6 DEF WorkerStep
  <2>5. CASE ManagerStep
    <3>1. ASSUME NEW w \in Workers, ManagerAddsWorker(w) PROVE ServedInv'
      BY <3>1 DEF ManagerAddsWorker
    <3>2. ASSUME NEW w \in Workers, ManagerVisits(w) \/ ManagerDrains(w)
          PROVE  ServedInv'
      BY <3>2 DEF ManagerVisits, ManagerDrains, Reap
    <3>3. CASE ManagerTests \/ ManagerSamples \/ ManagerDeclines
            \/ ManagerKeepsSize
      BY <3>3 DEF ManagerTests, ManagerSamples, ManagerDeclines, ManagerKeepsSize
    <3>4. CASE ManagerSendsKill \/ ManagerSkipsKill
      BY <3>4 DEF ManagerSendsKill, ManagerSkipsKill
    <3>5. CASE ManagerNotifies
      BY <3>5 DEF ManagerNotifies, NotifyOne, Waiting
    <3>6. CASE ManagerEndsReap \/ ManagerEnds
      BY <3>6 DEF ManagerEndsReap, ManagerEnds
    <3>7. CASE ManagerWakesAll
      BY <3>7 DEF ManagerWakesAll, NotifyAll, Waiting
    <3> QED
      BY <2>5, <3>1, <3>2, <3>3, <3>4, <3>5, <3>6, <3>7 DEF ManagerStep
  <2> QED
    BY <2>1, <2>2, <2>3, <2>4, <2>5 DEF Next
<1> QED
  BY <1>1, <1>2, BaseInvariant, LifeInvariant, MutexInvariant, PTL DEF Spec

(* Before a worker is retired no queued task is left to sleeping workers   *)
(* without a notification on its way.                                      *)
THEOREM WakeupsReachWorkers == Spec => []NoLostWakeup
<1>1. ServedInv => NoLostWakeup
  BY DEF ServedInv, NoLostWakeup, NotifyPending
<1> QED
  BY <1>1, ServedInvariant, PTL

(* Unless a worker was retired, the queue is drained before the pool is    *)
(* gone, as soon as one task has been run.                                 *)
THEOREM ServedPoolsDrain == Spec => []DrainedOnceServed
<1>1. BaseInv /\ LifeInv /\ ServedInv => DrainedOnceServed
  <2> SUFFICES ASSUME BaseInv, LifeInv, ServedInv, ~retired,
                      owner = "destroyed", done # {}
               PROVE  taskQueue = <<>>
    BY DEF DrainedOnceServed
  <2>1. WorkerPool = {}
    BY NobodyLeft DEF LifeInv
  <2>2. Serving = {}
    BY <2>1 DEF WorkerPool, Serving, ServingStates, In
  <2> QED
    BY <2>2 DEF ServedInv, Drained
<1> QED
  BY <1>1, BaseInvariant, LifeInvariant, ServedInvariant, PTL

-----------------------------------------------------------------------------
(* A thread of the pool, or the one that destroys it, that can take a step *)
(* after the stop.                                                         *)
WorkerCanGo(w) ==
  \/ wpc[w] \in {"predicateFalse", "leaving", "working"}
  \/ wpc[w] = "ready" /\ MutexFree /\ WaitPredicate
ManagerCanGo ==
  \/ mgr \in {"test", "scale", "shrink", "notify", "reap", "wakeAll"}
  \/ mgr = "sleep" /\ MutexFree
  \/ mgr = "drain" /\ (AllJoined \/ In({"finished"}) # {})

StuckOnlyAsleep ==
  owner = "join" =>
    \/ mgr = "done" \/ ManagerCanGo \/ AllAsleep
    \/ \E w \in Workers : WorkerCanGo(w)

(* The destructor's only deadlock: with any number of workers and policies *)
(* some thread can go on, or each worker that is left sleeps, the ones that *)
(* were awake having finished and been joined, and the final loop spins.   *)
THEOREM OneWayToHang == Spec => []StuckOnlyAsleep
<1>1. BaseInv /\ LifeInv /\ MutexInv => StuckOnlyAsleep
  <2> SUFFICES ASSUME BaseInv, LifeInv, MutexInv, owner = "join",
                      mgr # "done", ~ManagerCanGo,
                      \A w \in Workers : ~WorkerCanGo(w)
               PROVE  AllAsleep
    BY DEF StuckOnlyAsleep
  <2>1. TypeOK /\ WorkerAccounting
    BY DEF BaseInv, Typed
  <2>2. \A w \in Workers : wpc[w] \notin {"predicateFalse", "leaving", "working"}
    BY DEF WorkerCanGo
  <2>3. MutexFree
    BY <2>1, <2>2 DEF MutexInv, TypeOK, MutexFree
  <2>4. \A w \in Workers : wpc[w] # "ready"
    BY <2>3 DEF LifeInv, WorkerCanGo, WaitPredicate
  <2>5. mgr = "drain" /\ workerCount # 0 /\ In({"finished"}) = {}
    BY <2>1, <2>3 DEF TypeOK, ManagerStates, ManagerCanGo, AllJoined
  <2>6. WorkerPool = Waiting
    BY <2>1, <2>2, <2>4, <2>5
    DEF TypeOK, ServingStates, LeftStates, WorkerPool, Waiting, In
  <2>7. WorkerPool # {}
    BY <2>1, <2>5, FS_EmptySet DEF WorkerAccounting
  <2> QED
    BY <2>5, <2>6, <2>7 DEF AllAsleep
<1> QED
  BY <1>1, BaseInvariant, LifeInvariant, MutexInvariant, PTL

=============================================================================
