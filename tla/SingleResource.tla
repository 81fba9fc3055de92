---------------------------- MODULE SingleResource ----------------------------
(***************************************************************************)
(* What the dispatcher promises the applications that share one resource   *)
(* (README.md:3, 31, 44, 151-159, 169), without queue order, approval,     *)
(* retries or the event loop: an operation is admitted once, dispatched    *)
(* only while nothing is active and the dispatcher is not paused, keeps    *)
(* the active slot until it is finished, and gets exactly one outcome.     *)
(* OperationDispatcher is shown to implement it.                           *)
(***************************************************************************)

CONSTANT Operation

VARIABLES
  phase,    \* where each operation is in its life
  outcome,  \* its terminal outcome, "NONE" until it has one
  paused    \* whether dispatching is blocked

vars == <<phase, outcome, paused>>

Phase == {"absent", "waiting", "active", "done"}

Final == {"SUCCESS", "FAILURE", "CANCELLED"}

Init ==
  /\ phase = [o \in Operation |-> "absent"]
  /\ outcome = [o \in Operation |-> "NONE"]
  /\ paused \in BOOLEAN

Admit(o) ==
  /\ phase[o] = "absent"
  /\ phase' = [phase EXCEPT ![o] = "waiting"]
  /\ UNCHANGED <<outcome, paused>>

Dispatch(o) ==
  /\ ~paused
  /\ phase[o] = "waiting"
  /\ \A p \in Operation : phase[p] # "active"
  /\ phase' = [phase EXCEPT ![o] = "active"]
  /\ UNCHANGED <<outcome, paused>>

Finish(o) ==
  /\ phase[o] = "active"
  /\ phase' = [phase EXCEPT ![o] = "done"]
  /\ \E result \in Final : outcome' = [outcome EXCEPT ![o] = result]
  /\ UNCHANGED paused

Withdraw(o) ==
  /\ phase[o] = "waiting"
  /\ phase' = [phase EXCEPT ![o] = "done"]
  /\ outcome' = [outcome EXCEPT ![o] = "CANCELLED"]
  /\ UNCHANGED paused

SetPaused ==
  /\ paused' \in BOOLEAN
  /\ UNCHANGED <<phase, outcome>>

Next ==
  \/ \E o \in Operation : Admit(o) \/ Dispatch(o) \/ Finish(o) \/ Withdraw(o)
  \/ SetPaused

Spec == Init /\ [][Next]_vars
=============================================================================
