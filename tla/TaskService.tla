---------------------------- MODULE TaskService ----------------------------
(***************************************************************************)
(* What the thread pool promises to those who call addTask: tasks begin in *)
(* the order they were queued, each runs exactly once, and none begins or  *)
(* is still running once the pool is gone.  The promise is deliberately    *)
(* silent on two points the code does not keep: closing need not wait for  *)
(* the pending tasks, and nothing here says a pending task must begin.     *)
(***************************************************************************)
EXTENDS Naturals, Sequences

CONSTANT Tasks

VARIABLES
  pending,     (* tasks submitted and not begun, oldest first              *)
  executing,   (* tasks that are running                                   *)
  done,        (* tasks that have ended                                    *)
  open         (* the service exists                                       *)

vars == <<pending, executing, done, open>>

Known == {pending[i] : i \in 1 .. Len(pending)} \cup executing \cup done

Init ==
  /\ pending = <<>> /\ executing = {} /\ done = {}
  /\ open = TRUE

Submit(t) ==
  /\ open /\ t \notin Known
  /\ pending' = Append(pending, t)
  /\ UNCHANGED <<executing, done, open>>

Begin ==
  /\ open /\ pending # <<>>
  /\ executing' = executing \cup {Head(pending)}
  /\ pending' = Tail(pending)
  /\ UNCHANGED <<done, open>>

End(t) ==
  /\ open /\ t \in executing
  /\ executing' = executing \ {t}
  /\ done' = done \cup {t}
  /\ UNCHANGED <<pending, open>>

Close ==
  /\ open /\ executing = {}
  /\ open' = FALSE
  /\ UNCHANGED <<pending, executing, done>>

Next ==
  \/ \E t \in Tasks : Submit(t) \/ End(t)
  \/ Begin \/ Close

Spec == Init /\ [][Next]_vars

=============================================================================
