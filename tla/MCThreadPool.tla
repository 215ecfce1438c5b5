---------------------------- MODULE MCThreadPool ----------------------------
(* ThreadPool with small sets of threads and tasks. *)
EXTENDS ThreadPoolProperties

CONSTANTS p1, p2, w1, w2, t1, t2, t3

TwoProducers == {p1, p2}
TwoWorkers   == {w1, w2}
TwoTasks     == {t1, t2}
ThreeTasks   == {t1, t2, t3}

(* Policies of the tests and the documents: scale up only on a backlog,    *)
(* scale down only on an empty queue.                                      *)
Backlog == {l \in Loads : l[1] > 1 /\ l[2] < Cardinality(Workers)}
Idle    == {l \in Loads : l[1] = 0 /\ l[2] > 1}

NoPolicy     == {}
TestedUp     == {Backlog}
TestedDown   == {Idle}

=============================================================================
