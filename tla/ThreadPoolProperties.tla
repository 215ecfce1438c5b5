------------------------ MODULE ThreadPoolProperties ------------------------
(***************************************************************************)
(* What should be true of the thread pool: type correctness, safety, the   *)
(* service it implements, liveness, and what its documents say of it.      *)
(***************************************************************************)
EXTENDS ThreadPool

(* Type correctness of the pool's state.  That killThread stays at most 1  *)
(* rests on the management thread being the only one that raises it.       *)
TypeOK ==
  /\ running \in BOOLEAN
  /\ killThread \in {0, 1}
  /\ taskQueue \in Seq(Tasks)
  /\ taskMutex \in Workers \cup {NoThread}
  /\ scaleUp \in SUBSET Loads /\ scaleDown \in SUBSET Loads
  /\ mgr \in ManagerStates
  /\ queueSize \in Nat /\ workerCount \in 0 .. Cardinality(Workers)
  /\ unvisited \subseteq Workers
  /\ wpc \in [Workers -> {"none"} \cup ServingStates \cup LeftStates]
  /\ task \in [Workers -> Tasks \cup {NoTask}]
  /\ ppc \in [Producers -> {"idle", "notify"}]
  /\ owner \in {"open", "notify", "join", "destroyed"}
  /\ submitted \subseteq Tasks /\ done \subseteq Tasks /\ retired \in BOOLEAN

-----------------------------------------------------------------------------
(* Safety *)

(* A task given to addTask is, for ever after, in exactly one place: once   *)
(* in taskQueue_, or moved out to one worker, or ended.  Workers race for   *)
(* the queue's front, are retired, and the pool may be stopped at any      *)
(* moment: none loses a task it took, takes one that another has, or runs  *)
(* one again.  What is still in taskQueue_ when ~ThreadPool returns is     *)
(* destroyed with it: how far tasks are run before is DrainedOnceServed's. *)
ExactlyOnce ==
  /\ submitted = Accounted
  /\ \A i, j \in 1 .. Len(taskQueue) : taskQueue[i] = taskQueue[j] => i = j
  /\ \A v, w \in In({"working"}) : task[v] = task[w] => v = w
  /\ Queued \cap (Executing \cup done) = {}
  /\ Executing \cap done = {}

(* managerFunction keeps workerCount by hand next to the vector workerPool, *)
(* and both policies and the final loop trust it: it is the vector's size,  *)
(* and the join loop holds no entry that was already erased.               *)
WorkerAccounting ==
  /\ workerCount = Cardinality(WorkerPool)
  /\ unvisited \subseteq WorkerPool

(* When ~ThreadPool returns the members die: no worker thread is left that  *)
(* would touch the queue, the mutex or the condition, none holds the mutex, *)
(* and no task is running.                                                 *)
NoGhostThreads ==
  owner = "destroyed" => WorkerPool = {} /\ MutexFree /\ Executing = {}

(* addTask notifies after it released the mutex, and notify_one reaches one *)
(* sleeper or nobody.  Until a woken worker leaves for a retirement signal *)
(* instead of taking the task, no notification is missed: while a task is  *)
(* queued, not all the workers there are sleep, unless the notification    *)
(* that wakes one is still to be sent.                                     *)
NoLostWakeup ==
  ~retired /\ taskQueue # <<>> /\ Serving # {} =>
    \/ In({"ready", "working"}) # {}
    \/ \E p \in Producers : ppc[p] = "notify"

(* The guaranteed execution the documents promise, as far as the code keeps *)
(* it: as long as no worker was retired, once one task has been run the    *)
(* queue is drained before the pool is gone.                               *)
DrainedOnceServed ==
  ~retired /\ owner = "destroyed" /\ done # {} => taskQueue = <<>>

-----------------------------------------------------------------------------
(* Refinement *)

Service == INSTANCE TaskService
             WITH pending <- taskQueue, executing <- Executing, done <- done,
                  open <- owner # "destroyed"

(* The pool implements the task service: first in, first out, each task    *)
(* once, and nothing runs after the destructor returned.                   *)
ImplementsService == Service!Spec

-----------------------------------------------------------------------------
(* Liveness *)

(* The tasks submitted are all run in the end: the manager sees the queue  *)
(* grow and adds the worker, unless the pool is stopped first, a caller    *)
(* replaced the policy that adds it, or a worker that might have served    *)
(* them was retired.                                                       *)
TaskServed ==
  LET Excused == owner # "open" \/ retired \/ scaleUp # DefaultUp
  IN  submitted # done ~> submitted = done \/ Excused

(* The final loop of the management thread spins, the workers it waits for *)
(* all sleep on taskCondition_, and nobody is left to wake them.           *)
AllAsleep == mgr = "drain" /\ WorkerPool = Waiting /\ Waiting # {}

(* ~ThreadPool returns or hangs in one way: every worker that does not     *)
(* sleep runs out of tasks, sets its flag and is joined by the final loop, *)
(* until the sleepers are all that is left.                                *)
ShutdownHangsOnlyAsleep ==
  owner = "join" ~> owner = "destroyed" \/ AllAsleep

-----------------------------------------------------------------------------
(* What the documents say and the code does not do *)

(* docs/ARCHITECTURE.md: atomic worker management with proper shutdown     *)
(* synchronization.  ~ThreadPool, once begun, returns.                     *)
ShutdownTerminates == owner = "notify" ~> owner = "destroyed"

=============================================================================
