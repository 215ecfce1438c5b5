---------------------------- MODULE LockedStore ----------------------------
(***************************************************************************)
(* What the storage promises: a key has at most one owner at a time; its   *)
(* value changes by its owner or not at all, except that an operation      *)
(* given up on, because its answer never came, may still land at any later *)
(* time; and an operation is confirmed only if it took effect.  Nothing    *)
(* here says that a key is ever released.                                  *)
(***************************************************************************)
CONSTANTS Clients, Keys, Values, Absent, Nobody

VARIABLES
  value,       (* what each key holds                                      *)
  owner,       (* who is inside an operation on each key                   *)
  confirmed,   (* the client's operation took effect, and it knows         *)
  limbo        (* the effects <<key, value>> of operations given up on     *)

vars == <<value, owner, confirmed, limbo>>

Init ==
  /\ value = [k \in Keys |-> Absent]
  /\ owner = [k \in Keys |-> Nobody]
  /\ confirmed = [c \in Clients |-> FALSE]
  /\ limbo = {}

Acquire(c, k) ==
  /\ owner[k] = Nobody
  /\ owner' = [owner EXCEPT ![k] = c]
  /\ UNCHANGED <<value, confirmed, limbo>>

Apply(c, k, v) ==
  /\ owner[k] = c
  /\ value' = [value EXCEPT ![k] = v]
  /\ confirmed' \in {confirmed, [confirmed EXCEPT ![c] = TRUE]}
  /\ UNCHANGED <<owner, limbo>>

GiveUp(c, k, v) ==
  /\ owner[k] = c
  /\ limbo' = limbo \cup {<<k, v>>}
  /\ UNCHANGED <<value, owner, confirmed>>

(* The end of an operation.  Its owner may vanish in the middle, with the  *)
(* effect still on its way.                                                *)
Release(c, k) ==
  /\ owner[k] = c
  /\ owner' = [owner EXCEPT ![k] = Nobody]
  /\ confirmed' = [confirmed EXCEPT ![c] = FALSE]
  /\ \/ UNCHANGED limbo
     \/ \E v \in Values \cup {Absent} : limbo' = limbo \cup {<<k, v>>}
  /\ UNCHANGED value

Land(k, v) ==
  /\ <<k, v>> \in limbo
  /\ value' = [value EXCEPT ![k] = v]
  /\ limbo' \in {limbo, limbo \ {<<k, v>>}}
  /\ UNCHANGED <<owner, confirmed>>

Next ==
  \E k \in Keys :
    \/ \E c \in Clients : Acquire(c, k) \/ Release(c, k)
    \/ \E v \in Values \cup {Absent} :
         \/ Land(k, v)
         \/ \E c \in Clients : Apply(c, k, v) \/ GiveUp(c, k, v)

Spec == Init /\ [][Next]_vars

=============================================================================
