-------------------------- MODULE SimulatedApplication --------------------------
(***************************************************************************)
(* The application of the examples: the dispatcher asks its callback for   *)
(* every request, the callback drives the runner, and the runner's worker  *)
(* reports back through complete_operation.                                *)
(*                                                                         *)
(* The dispatcher is reduced to what module SingleResource promises, with  *)
(* its requests made explicit: a start request is awaited while its loop   *)
(* goes on, any other one blocks the loop (blocked) until it is answered   *)
(* or times out. The thread of a request that timed out runs on. Nobody    *)
(* tells the runner when the dispatcher as a whole is paused or resumed.   *)
(***************************************************************************)
EXTENDS SimulatedRunner, FiniteSets

VARIABLES
  phase,     \* operation -> its bucket, as in SingleResource
  is_paused, \* the dispatcher is paused
  paused,    \* the active operation is paused
  asked,     \* the thread that answers the start request in flight
  blocked,   \* the thread the loop is blocked on
  disturbed  \* history: the dispatcher and the runner may disagree for good

dispatcher == <<phase, is_paused, paused, asked, blocked>>
vars == <<operation, worker, pause_event, stop_event, created, work, taken,
          call, pc, launched, answer, owed, phase, is_paused, paused,
          asked, blocked, disturbed>>

Init ==
  /\ RunnerInit
  /\ phase = [o \in Operation |-> "waiting"]
  /\ is_paused \in BOOLEAN
  /\ paused = FALSE
  /\ asked = 0
  /\ blocked = 0
  /\ disturbed = FALSE

Idle == \A o \in Operation : phase[o] # "active"

(* _pause_internal: the active operation is marked, whatever the runner    *)
(* does with it.                                                           *)
MarkPaused ==
  /\ is_paused' = TRUE
  /\ paused' = (paused \/ ~Idle)

(* A denial, a timeout included, may be the one too many that pauses the   *)
(* dispatcher: how many there were before is not counted here.             *)
Denied == MarkPaused \/ UNCHANGED <<is_paused, paused>>

PauseDispatcher ==
  /\ blocked = 0
  /\ MarkPaused
  /\ UNCHANGED <<runnerVars, phase, asked, blocked, disturbed>>

(* What was marked stays marked.                                           *)
ResumeDispatcher ==
  /\ blocked = 0
  /\ is_paused' = FALSE
  /\ UNCHANGED <<runnerVars, phase, paused, asked, blocked, disturbed>>
-----------------------------------------------------------------------------
(* The requests. _on_request calls the method of the same name, in a       *)
(* thread of its own: which one does not matter, so the lowest idle one.   *)

Fresh(t) ==
  /\ pc[t] = "idle"
  /\ \A u \in Thread : u < t => pc[u] # "idle"

(* The head of a queue that nobody reorders.                               *)
Head(o) ==
  /\ phase[o] = "waiting"
  /\ \A p \in Operation : p < o => phase[p] # "waiting"

(* Threads that are yet to create a worker: the bound on workers counts    *)
(* them, so that no start is held up by it.                                *)
Starting ==
  {t \in Thread : call[t][1] = "start" /\ pc[t] \in {"entered", "joining", "installing"}}

StartRequest(t, o) ==
  /\ Fresh(t)
  /\ blocked = 0
  /\ asked = 0
  /\ ~is_paused
  /\ Idle
  /\ Head(o)
  /\ created + Cardinality(Starting) < MaxWorkers
  /\ Enter(t, "start", o)
  /\ asked' = t
  /\ UNCHANGED <<phase, is_paused, paused, blocked, disturbed>>

(* The approved start dispatches what is at the head by now, and nothing   *)
(* when the dispatcher was paused meanwhile: the runner has begun for      *)
(* nothing.                                                                *)
StartAccepted(t) ==
  /\ blocked = 0
  /\ asked = t
  /\ Leave(t)
  /\ asked' = 0
  /\ \/ \E o \in Operation :
          /\ ~is_paused
          /\ Head(o)
          /\ phase' = [phase EXCEPT ![o] = "active"]
          /\ paused' = FALSE
          /\ disturbed' = (disturbed \/ o # call[t][2])
     \/ /\ is_paused \/ \A o \in Operation : phase[o] # "waiting"
        /\ disturbed' = TRUE
        /\ UNCHANGED <<phase, paused>>
  /\ UNCHANGED <<is_paused, blocked>>

(* wait_for gives up; the thread goes on. A behaviour has one timeout, the *)
(* bound of this model: the thread left over may last as long as it likes. *)
StartTimesOut(t) ==
  /\ blocked = 0
  /\ asked = t
  /\ pc[t] # "answered"
  /\ ~disturbed
  /\ asked' = 0
  /\ disturbed' = TRUE
  /\ Denied
  /\ UNCHANGED <<runnerVars, phase, blocked>>

(* Cancel is asked for any known operation, pause and resume for the       *)
(* active one in the right state.                                          *)
BlockingRequest(t, m, o) ==
  /\ Fresh(t)
  /\ blocked = 0
  /\ \/ m = "cancel"
     \/ m = "pause" /\ phase[o] = "active" /\ ~paused
     \/ m = "resume" /\ phase[o] = "active" /\ paused
  /\ Enter(t, m, o)
  /\ blocked' = t
  /\ UNCHANGED <<phase, is_paused, paused, asked, disturbed>>

BlockingAnswered(t) ==
  /\ blocked = t
  /\ Leave(t)
  /\ blocked' = 0
  /\ LET m == call[t][1]
         o == call[t][2]
     IN /\ phase' = IF answer[t] /\ m = "cancel"
                    THEN [phase EXCEPT ![o] = "done"] ELSE phase
        /\ \/ ~answer[t] /\ Denied
           \/ /\ answer[t]
              /\ paused' = IF m = "cancel" THEN paused /\ phase[o] # "active"
                                           ELSE m = "pause"
              /\ UNCHANGED is_paused
  /\ UNCHANGED <<asked, disturbed>>

BlockingTimesOut(t) ==
  /\ blocked = t
  /\ pc[t] # "answered"
  /\ ~disturbed
  /\ blocked' = 0
  /\ disturbed' = TRUE
  /\ Denied
  /\ UNCHANGED <<runnerVars, phase, asked>>

(* Nobody reads the answer of a request that has timed out.                *)
LateAnswer(t) ==
  /\ t \notin {asked, blocked}
  /\ Leave(t)
  /\ UNCHANGED <<dispatcher, disturbed>>

(* The worker's complete_operation runs on the loop. It is refused for an  *)
(* operation that is not active, and the report is lost.                   *)
Completes(w) ==
  /\ blocked = 0
  /\ Report(w)
  /\ IF phase[taken[w]] = "active"
     THEN /\ phase' = [phase EXCEPT ![taken[w]] = "done"]
          /\ paused' = FALSE
          /\ UNCHANGED disturbed
     ELSE /\ disturbed' = (disturbed \/ phase[taken[w]] = "waiting")
          /\ UNCHANGED <<phase, paused>>
  /\ UNCHANGED <<is_paused, asked, blocked>>
-----------------------------------------------------------------------------
RunnerStep ==
  /\ \/ \E t \in Thread : CallerStep(t)
     \/ \E w \in Worker : WorkerStep(w)
  /\ UNCHANGED <<dispatcher, disturbed>>

DispatcherReads(t) == StartAccepted(t) \/ BlockingAnswered(t) \/ LateAnswer(t)

Next ==
  \/ \E t \in Thread, o \in Operation :
       \/ StartRequest(t, o)
       \/ \E m \in {"cancel", "pause", "resume"} : BlockingRequest(t, m, o)
  \/ \E t \in Thread :
       \/ DispatcherReads(t)
       \/ StartTimesOut(t)
       \/ BlockingTimesOut(t)
  \/ \E w \in Worker : Completes(w)
  \/ PauseDispatcher
  \/ ResumeDispatcher
  \/ RunnerStep

Spec == Init /\ [][Next]_vars

(* Threads are scheduled, and the time of a simulated operation passes     *)
(* while a worker ticks again and again. The loop takes what is ready in   *)
(* the order it became so: endless requests that block it again and again  *)
(* do not keep it from reading an answer or a report (strong fairness).    *)
(* No request has to time out: its timeout is longer than any step here.   *)
Fairness ==
  /\ \A t \in Thread :
       SF_vars(\/ CallerStep(t) /\ UNCHANGED <<dispatcher, disturbed>>
               \/ DispatcherReads(t))
  /\ \A w \in Worker :
       /\ WF_vars(WorkerStep(w) /\ UNCHANGED <<dispatcher, disturbed>>)
       /\ SF_vars(\/ Take(w) /\ UNCHANGED <<dispatcher, disturbed>>
                  \/ Completes(w))

FairSpec == Spec /\ Fairness
-----------------------------------------------------------------------------
TypeOK ==
  /\ RunnerTypeOK
  /\ phase \in [Operation -> {"waiting", "active", "done"}]
  /\ is_paused \in BOOLEAN
  /\ paused \in BOOLEAN
  /\ asked \in Thread \cup {0}
  /\ blocked \in Thread \cup {0}
  /\ disturbed \in BOOLEAN

Calls(t, m, o) == pc[t] # "idle" /\ call[t] = <<m, o>>

(* An operation the dispatcher takes for active is simulated, is about to  *)
(* be reported, or is being cancelled - unless a request timed out, a      *)
(* report overtook the record of its start, or the approved start          *)
(* dispatched another operation or, the dispatcher being paused meanwhile, *)
(* none (examples/dispatcher_openapi.py:62-116).                           *)
ActiveIsSimulated ==
  \A o \in Operation :
    phase[o] = "active" /\ ~disturbed =>
      \/ operation = o
      \/ \E w \in Worker : taken[w] = o
      \/ \E t \in Thread : Calls(t, "cancel", o)

(* And the other way round: nothing is simulated that the dispatcher has   *)
(* not started, or has not asked to start, but for the same exceptions;    *)
(* the last one leaves an operation simulated that was never started       *)
(* (runtime_service.py:109-116).                                           *)
SimulatedIsActive ==
  \A o \in Operation :
    operation = o /\ ~disturbed =>
      \/ phase[o] = "active"
      \/ \E t \in Thread : asked = t /\ Calls(t, "start", o)

(* An active operation is done in the end, if the runner is not told to    *)
(* pause it: its worker is not stopped by what other callers do to the     *)
(* runner's events, nor by a pause of the dispatcher                       *)
(* (simulated_operation_runner.py:37-51, 79-95).                           *)
ActiveIsReported == ~Idle ~> Idle \/ ~pause_event \/ disturbed

(* Every callback returns without help of its request's timeout. A cancel  *)
(* joins the worker, whose report waits for the loop, which waits for the  *)
(* cancel: only the timeout of the join undoes it                          *)
(* (simulated_operation_runner.py:87-92, request_handler.py:371).          *)
CallbacksReturn == \A t \in Thread : pc[t] # "idle" ~> pc[t] = "idle"
=============================================================================
