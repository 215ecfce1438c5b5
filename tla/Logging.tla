------------------------------- MODULE Logging -------------------------------
(***************************************************************************)
(* The process-wide logger: src/logging/LoggerFactory.cpp, which hands it  *)
(* out and replaces it, src/logging/DefaultLogger.cpp, which filters and   *)
(* writes, and the AsyncLogger of the examples, whose own thread passes    *)
(* what it was given on to a DefaultLogger.  The last thread to let go of  *)
(* an AsyncLogger joins that thread: in setLogger, with logger_mutex_ held. *)
(*                                                                         *)
(* A logger stands for the DefaultLogger behind it too.  A message is      *)
(* <<number, level>>.  A write under log_mutex_ is one step; the level is  *)
(* read before it, without the mutex.  Left out are output files, a null   *)
(* logger given to setLogger, what setLevel itself logs, messages whose    *)
(* level is a string, which DefaultLogger does not filter, and wake-ups    *)
(* without cause, after which the worker looks again.                      *)
(***************************************************************************)
EXTENDS Naturals, Sequences, FiniteSets

CONSTANTS
  Threads,      (* threads that log                                        *)
  Worker,       (* worker_thread_ of the AsyncLogger                       *)
  NoThread,     (* a mutex is free                                         *)
  Plain,        (* DefaultLoggers an application may make and install      *)
  First,        (* the one getLogger makes                                 *)
  Async,        (* an AsyncLogger                                          *)
  NoLogger,     (* a null pointer                                          *)
  Levels,       (* levels of messages                                      *)
  MaxQueue,     (* max_queue_size_                                         *)
  MaxMessages,  (* bound: messages                                         *)
  MaxLevels     (* bound: calls of setLevel                                *)

Loggers == Plain \cup {First, Async}

ASSUME LoggingAssumption ==
  /\ Async \notin Plain \cup {First} /\ NoLogger \notin Loggers
  /\ Worker \notin Threads /\ NoThread \notin Threads \cup {Worker}
  /\ Levels \subseteq Nat /\ (\E l \in Levels : \A k \in Levels : l <= k)
  /\ MaxQueue \in Nat \ {0} /\ MaxMessages \in Nat /\ MaxLevels \in Nat

VARIABLES
  global,        (* global_logger_                                         *)
  factoryMutex,  (* holder of logger_mutex_                                *)
  fate,          (* of each logger: unborn, alive, dead                    *)
  level,         (* level_ of each logger                                  *)
  pc,            (* where each thread is, the worker too                   *)
  ref,           (* the pointer each thread has                            *)
  writing,       (* the message each thread is about to write              *)
  queueMutex,    (* holder of queue_mutex_                                 *)
  queue, batch,  (* message_queue_, messages_to_process                    *)
  stop,          (* stop_thread_                                           *)
  written,       (* what each logger has written                           *)
  logged,        (* messages so far                                        *)
  dropped,       (* history: messages a full queue dropped                 *)
  silenced,      (* history: messages that were below the level            *)
  overtaken,     (* history: messages being written when the level changed *)
  levels         (* calls of setLevel so far                               *)

factory == <<global, factoryMutex, fate, level, levels>>
async   == <<queueMutex, queue, batch, stop>>
history == <<written, logged, dropped, silenced, overtaken>>
vars == <<factory, pc, ref, writing, async, history>>

None == <<>>
Lowest == CHOOSE l \in Levels : \A k \in Levels : l <= k

Init ==
  /\ global = NoLogger /\ factoryMutex = NoThread
  /\ fate = [l \in Loggers |-> "unborn"]
  /\ level = [l \in Loggers |-> Lowest]
  /\ pc = [t \in Threads \cup {Worker} |-> IF t = Worker THEN "none" ELSE "idle"]
  /\ ref = [t \in Threads |-> NoLogger]
  /\ writing = [t \in Threads \cup {Worker} |-> None]
  /\ queueMutex = NoThread /\ queue = <<>> /\ batch = <<>> /\ stop = FALSE
  /\ written = [l \in Loggers |-> <<>>] /\ logged = 0
  /\ dropped = {} /\ silenced = {} /\ overtaken = {}
  /\ levels = 0

Goes(t, place) == pc' = [pc EXCEPT ![t] = place]
FactoryFree == factoryMutex = NoThread
QueueFree   == queueMutex = NoThread

(* Nobody but t, in its own pointer, has logger l any more. *)
Last(t, l) == global' # l /\ \A u \in Threads \ {t} : ref[u] # l

(* t lets go of logger l.  Its destructor runs if t was the last to have   *)
(* it; an AsyncLogger's takes time.                                        *)
LetsGo(t, l) ==
  /\ ref' = [ref EXCEPT ![t] = NoLogger]
  /\ IF Last(t, l) /\ l = Async
     THEN Goes(t, "stop") /\ UNCHANGED fate
     ELSE /\ Goes(t, "idle")
          /\ fate' = IF Last(t, l) THEN [fate EXCEPT ![l] = "dead"] ELSE fate

-----------------------------------------------------------------------------
(* LoggerFactory *)

GetLogger(t, place) ==
  /\ pc[t] = "idle" /\ FactoryFree
  /\ Goes(t, place)
  /\ IF global = NoLogger
     THEN global' = First /\ fate' = [fate EXCEPT ![First] = "alive"]
     ELSE UNCHANGED <<global, fate>>
  /\ ref' = [ref EXCEPT ![t] = global']
  /\ UNCHANGED <<factoryMutex, level, writing, async, history>>

Forget(t, place) ==
  /\ pc[t] = place /\ UNCHANGED global /\ LetsGo(t, ref[t])
  /\ UNCHANGED <<factoryMutex, level, levels, writing, async, history>>

(* The rest of LoggerFactory::setLevel, whose getLogger came before: the   *)
(* logger it got may have been replaced.                                   *)
SetLevel(t, v) ==
  /\ pc[t] = "level" /\ FactoryFree
  /\ level' = [level EXCEPT ![ref[t]] = v]
  /\ overtaken' = overtaken \cup
       {writing[u][1] : u \in {w \in DOMAIN writing : writing[w] # None}}
  /\ UNCHANGED global /\ LetsGo(t, ref[t])
  /\ UNCHANGED <<factoryMutex, levels, writing, async>>
  /\ UNCHANGED <<written, logged, dropped, silenced>>

(* Mutation: the factory takes its logger for its own alone. *)
EndsAlways == global # NoLogger

(* Nobody but the factory has the global logger. *)
Ends == global # NoLogger /\ \A u \in Threads : ref[u] # global

(* A logger becomes the global one: a new one, or one that the thread has. *)
(* The old one may end here.  The caller's pointer, a parameter, goes      *)
(* after logger_mutex_, unless the caller keeps another.                   *)
SetLogger(t, l) ==
  /\ FactoryFree
  /\ \/ pc[t] = "idle" /\ l \in Plain \cup {Async} /\ fate[l] = "unborn"
     \/ pc[t] = "has" /\ ref[t] = l
  /\ global' = l /\ ref' = [ref EXCEPT ![t] = l]
  /\ fate' = [k \in Loggers |->
                IF k = l THEN "alive"
                ELSE IF k = global /\ Ends /\ k # Async THEN "dead"
                ELSE fate[k]]
  /\ pc' = [pc EXCEPT ![t] = IF Ends /\ global = Async THEN "stop" ELSE "given",
                      ![Worker] = IF l = Async /\ fate[l] = "unborn" THEN "check" ELSE @]
  /\ factoryMutex' = IF Ends /\ global = Async THEN t ELSE NoThread
  /\ UNCHANGED <<level, levels, writing, async, history>>
Keeps(t) ==
  /\ pc[t] = "given" /\ Goes(t, "has")
  /\ UNCHANGED <<factory, ref, writing, async, history>>

-----------------------------------------------------------------------------
(* DefaultLogger::log: the level is read, then the message is written.     *)
Reads(t, l, m) == m[2] >= level[l] /\ writing' = [writing EXCEPT ![t] = m]

Log(t, v) ==
  /\ pc[t] = "has" /\ ref[t] # Async /\ logged < MaxMessages
  /\ logged' = logged + 1
  /\ \/ /\ Reads(t, ref[t], <<logged', v>>) /\ Goes(t, "write")
        /\ UNCHANGED silenced
     \/ /\ v < level[ref[t]] /\ silenced' = silenced \cup {logged'}
        /\ UNCHANGED <<pc, writing>>
  /\ UNCHANGED <<factory, ref, async, written, dropped, overtaken>>

Writes(t, l, place) ==
  /\ pc[t] = "write" /\ Goes(t, place)
  /\ written' = [written EXCEPT ![l] = Append(@, writing[t])]
  /\ writing' = [writing EXCEPT ![t] = None]
  /\ UNCHANGED <<factory, ref, logged, dropped, silenced, overtaken>>
Write(t) == Writes(t, ref[t], "has") /\ UNCHANGED async

-----------------------------------------------------------------------------
(* AsyncLogger *)

Wakes == IF pc[Worker] = "asleep" THEN Goes(Worker, "check") ELSE UNCHANGED pc

(* Mutation: the newest message waiting is dropped. *)
PushDropsNewest(m) ==
  /\ queue' = IF Len(queue) >= MaxQueue
              THEN Append(SubSeq(queue, 1, Len(queue) - 1), m)
              ELSE Append(queue, m)
  /\ dropped' = IF Len(queue) >= MaxQueue
                THEN dropped \cup {queue[Len(queue)][1]} ELSE dropped

(* A full queue drops its oldest message. *)
Push(m) ==
  IF Len(queue) >= MaxQueue
  THEN queue' = Append(Tail(queue), m) /\ dropped' = dropped \cup {Head(queue)[1]}
  ELSE queue' = Append(queue, m) /\ UNCHANGED dropped

LogAsync(t, v) ==
  /\ pc[t] = "has" /\ ref[t] = Async /\ QueueFree /\ logged < MaxMessages
  /\ logged' = logged + 1 /\ Push(<<logged', v>>) /\ Wakes
  /\ UNCHANGED <<factory, ref, writing, queueMutex, batch, stop>>
  /\ UNCHANGED <<written, silenced, overtaken>>

(* ~AsyncLogger.  Mutation: stop_thread_ is set without the mutex. *)
StopUnlocked(t) ==
  /\ pc[t] = "stop" /\ Goes(t, "notify")
  /\ stop' = TRUE
  /\ UNCHANGED <<factory, ref, writing, queueMutex, queue, batch, history>>
Stop(t) ==
  /\ pc[t] = "stop" /\ QueueFree /\ Goes(t, "notify")
  /\ stop' = TRUE
  /\ UNCHANGED <<factory, ref, writing, queueMutex, queue, batch, history>>
Notify(t) ==
  /\ pc[t] = "notify"
  /\ pc' = [pc EXCEPT ![t] = "join",
                      ![Worker] = IF @ = "asleep" THEN "check" ELSE @]
  /\ UNCHANGED <<factory, ref, writing, async, history>>
Join(t) ==
  /\ pc[t] = "join" /\ pc[Worker] = "done"
  /\ Goes(t, IF ref[t] = NoLogger THEN "idle" ELSE "given")
  /\ fate' = [fate EXCEPT ![Async] = "dead"]
  /\ factoryMutex' = IF factoryMutex = t THEN NoThread ELSE factoryMutex
  /\ UNCHANGED <<global, level, levels, ref, writing, async, history>>

(* Mutation: a worker told to stop leaves what is still queued. *)
CheckStops ==
  /\ pc[Worker] = "check" /\ QueueFree
  /\ \/ stop /\ Goes(Worker, "done") /\ UNCHANGED <<queueMutex, queue, batch>>
     \/ /\ ~stop /\ queue # <<>> /\ Goes(Worker, "process")
        /\ batch' = queue /\ queue' = <<>> /\ UNCHANGED queueMutex
     \/ /\ queue = <<>> /\ ~stop /\ Goes(Worker, "dozing")
        /\ queueMutex' = Worker /\ UNCHANGED <<queue, batch>>
  /\ UNCHANGED <<factory, ref, writing, stop, history>>

(* processLogs *)
Check ==
  /\ pc[Worker] = "check" /\ QueueFree
  /\ \/ /\ queue # <<>> /\ Goes(Worker, "process")
        /\ batch' = queue /\ queue' = <<>> /\ UNCHANGED queueMutex
     \/ /\ queue = <<>> /\ stop /\ Goes(Worker, "done")
        /\ UNCHANGED <<queueMutex, queue, batch>>
     \/ /\ queue = <<>> /\ ~stop /\ Goes(Worker, "dozing")
        /\ queueMutex' = Worker /\ UNCHANGED <<queue, batch>>
  /\ UNCHANGED <<factory, ref, writing, stop, history>>
Doze ==
  /\ pc[Worker] = "dozing" /\ Goes(Worker, "asleep") /\ queueMutex' = NoThread
  /\ UNCHANGED <<factory, ref, writing, queue, batch, stop, history>>

(* Mutations: a message goes to the overload that does not look at the     *)
(* level; the batch is processed from its end.                             *)
PassesAll ==
  /\ pc[Worker] = "process" /\ batch # <<>>
  /\ writing' = [writing EXCEPT ![Worker] = Head(batch)] /\ Goes(Worker, "write")
  /\ batch' = Tail(batch)
  /\ UNCHANGED <<factory, ref, queueMutex, queue, stop, history>>
PassesLast ==
  /\ pc[Worker] = "process" /\ batch # <<>>
  /\ batch' = SubSeq(batch, 1, Len(batch) - 1)
  /\ \/ Reads(Worker, Async, batch[Len(batch)]) /\ Goes(Worker, "write")
          /\ UNCHANGED silenced
     \/ /\ batch[Len(batch)][2] < level[Async]
        /\ silenced' = silenced \cup {batch[Len(batch)][1]}
        /\ UNCHANGED <<pc, writing>>
  /\ UNCHANGED <<factory, ref, queueMutex, queue, stop, written, logged>>
  /\ UNCHANGED <<dropped, overtaken>>

(* The level is that of the moment, not of the call that logged.           *)
Passes ==
  /\ pc[Worker] = "process" /\ batch # <<>> /\ batch' = Tail(batch)
  /\ \/ Reads(Worker, Async, Head(batch)) /\ Goes(Worker, "write")
          /\ UNCHANGED silenced
     \/ /\ Head(batch)[2] < level[Async]
        /\ silenced' = silenced \cup {Head(batch)[1]}
        /\ UNCHANGED <<pc, writing>>
  /\ UNCHANGED <<factory, ref, queueMutex, queue, stop, written, logged>>
  /\ UNCHANGED <<dropped, overtaken>>
PassedAll ==
  /\ pc[Worker] = "process" /\ batch = <<>> /\ Goes(Worker, "check")
  /\ UNCHANGED <<factory, ref, writing, async, history>>

-----------------------------------------------------------------------------
Call(t) ==
  \/ GetLogger(t, "has") /\ UNCHANGED levels
  \/ GetLogger(t, "level") /\ levels < MaxLevels /\ levels' = levels + 1
  \/ Forget(t, "has")
  \/ \E v \in Levels : Log(t, v) \/ LogAsync(t, v)
  \/ \E l \in Loggers : SetLogger(t, l)
Proceed(t) ==
  \/ \E v \in Levels : SetLevel(t, v)
  \/ Write(t) \/ Keeps(t) \/ Forget(t, "given") \/ Stop(t) \/ Notify(t) \/ Join(t)
WorkerStep ==
  \/ Check \/ Doze \/ Passes \/ PassedAll
  \/ Writes(Worker, Async, "process") /\ UNCHANGED async

Next == (\E t \in Threads : Call(t) \/ Proceed(t)) \/ WorkerStep

Spec == Init /\ [][Next]_vars

(* Threads run.  Nobody has to call. *)
FairSpec ==
  /\ Spec /\ WF_vars(WorkerStep) /\ \A t \in Threads : WF_vars(Proceed(t))

=============================================================================
