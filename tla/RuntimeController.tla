--------------------------- MODULE RuntimeController ---------------------------
(***************************************************************************)
(* OperationDispatcherRuntimeController, which runs the dispatcher on a    *)
(* thread of its own, and DispatcherMutationService, through which the     *)
(* threads of callers change the dispatcher while its event loop runs.     *)
(*                                                                         *)
(* The loop itself is module OperationDispatcher; here it is only alive or *)
(* not, and leaves when it sees stop_requested. A runtime thread is known  *)
(* by its number, in the order of their creation.                          *)
(***************************************************************************)
EXTENDS Naturals

CONSTANTS
  Caller,     \* threads that call the controller
  None,
  MaxStarts   \* bound: runtime threads created in one behaviour

ASSUME ControllerAssumption ==
  /\ None \notin Caller
  /\ MaxStarts \in Nat

VARIABLES
  started,         \* the number of the thread in _runtime_thread, 0 for none
  life,            \* runtime thread -> where it is
  runtime_loop,    \* the thread whose loop is published, 0 for none
  stop_requested,
  is_paused,
  lock,            \* the holder of _runtime_lock
  call,            \* caller -> the request it makes
  pc,              \* caller -> where it is in it
  loop_read        \* caller -> the loop its execute found, 0 for none

vars == <<started, life, runtime_loop, stop_requested, is_paused, lock, call,
          pc, loop_read>>
shared == <<started, life, runtime_loop, stop_requested, is_paused>>

Thread == 1..MaxStarts

(* "starting": before run() has reset the stop flag; "resetting": before   *)
(* it has published its loop; "closing": run() has returned and asyncio.run*)
(* still turns the loop; "drained": the loop turns no more.                *)
Life == {"absent", "starting", "resetting", "running", "closing", "drained", "dead"}

Request == {"start", "stop", "pause", "resume"}

(* "polling": start waits for the loop; "execute" to "done": execute of the*)
(* mutation service; "joining": stop waits for the thread to end.          *)
Point == {"idle", "polling", "execute", "direct", "handing", "waiting", "done",
          "joining"}

Init ==
  /\ started = 0
  /\ life = [e \in Thread |-> "absent"]
  /\ runtime_loop = 0
  /\ stop_requested = FALSE
  /\ is_paused \in BOOLEAN
  /\ lock = None
  /\ call = [t \in Caller |-> "start"]
  /\ pc = [t \in Caller |-> "idle"]
  /\ loop_read = [t \in Caller |-> 0]

is_running == runtime_loop # 0

IsAlive(e) == life[e] \notin {"absent", "dead"}

RuntimeActive == started # 0 /\ IsAlive(started)

Goes(t, point) == pc' = [pc EXCEPT ![t] = point]
-----------------------------------------------------------------------------
(* The controller's methods.                                               *)

(* The thread is created under the lock, so no second one is while the     *)
(* first has not come up. The mutant looks at the loop only.               *)
StartUnlessRunning(t) ==
  /\ pc[t] = "idle"
  /\ lock = None
  /\ ~is_running
  /\ started < MaxStarts
  /\ started' = started + 1
  /\ life' = [life EXCEPT ![started + 1] = "starting"]
  /\ call' = [call EXCEPT ![t] = "start"]
  /\ Goes(t, "polling")
  /\ UNCHANGED <<runtime_loop, stop_requested, is_paused, lock, loop_read>>

Start(t) ==
  /\ pc[t] = "idle"
  /\ lock = None
  /\ ~is_running
  /\ ~RuntimeActive
  /\ started < MaxStarts
  /\ started' = started + 1
  /\ life' = [life EXCEPT ![started + 1] = "starting"]
  /\ call' = [call EXCEPT ![t] = "start"]
  /\ Goes(t, "polling")
  /\ UNCHANGED <<runtime_loop, stop_requested, is_paused, lock, loop_read>>

(* The loop is up, or the deadline has passed.                             *)
StartAnswers(t) ==
  /\ pc[t] = "polling"
  /\ Goes(t, "idle")
  /\ UNCHANGED <<shared, lock, call, loop_read>>

(* stop keeps the lock while its request is executed.                      *)
Stop(t) ==
  /\ pc[t] = "idle"
  /\ lock = None
  /\ is_running \/ RuntimeActive
  /\ lock' = t
  /\ call' = [call EXCEPT ![t] = "stop"]
  /\ Goes(t, "execute")
  /\ UNCHANGED <<shared, loop_read>>

Pause(t) ==
  /\ pc[t] = "idle"
  /\ ~is_paused
  /\ call' = [call EXCEPT ![t] = "pause"]
  /\ Goes(t, "execute")
  /\ UNCHANGED <<shared, lock, loop_read>>

Resume(t) ==
  /\ pc[t] = "idle"
  /\ is_paused
  /\ call' = [call EXCEPT ![t] = "resume"]
  /\ Goes(t, "execute")
  /\ UNCHANGED <<shared, lock, loop_read>>

(* execute has returned. stop drops the lock and joins the thread.         *)
Continue(t) ==
  /\ pc[t] = "done"
  /\ IF call[t] = "stop" THEN lock' = None /\ Goes(t, "joining")
                         ELSE UNCHANGED lock /\ Goes(t, "idle")
  /\ UNCHANGED <<shared, call, loop_read>>

(* The thread is dead, or the join timed out.                              *)
StopAnswers(t) ==
  /\ pc[t] = "joining"
  /\ Goes(t, "idle")
  /\ UNCHANGED <<shared, lock, call, loop_read>>
-----------------------------------------------------------------------------
(* DispatcherMutationService.execute.                                      *)

(* What the mutation of t does to the dispatcher.                          *)
Mutate(t) ==
  /\ stop_requested' = (stop_requested \/ call[t] = "stop")
  /\ is_paused' = CASE call[t] = "pause" -> TRUE
                    [] call[t] = "resume" -> FALSE
                    [] OTHER -> is_paused

ReadLoop(t) ==
  /\ pc[t] = "execute"
  /\ loop_read' = [loop_read EXCEPT ![t] = runtime_loop]
  /\ Goes(t, IF runtime_loop = 0 THEN "direct" ELSE "handing")
  /\ UNCHANGED <<shared, lock, call>>

RunDirectly(t) ==
  /\ pc[t] = "direct"
  /\ Mutate(t)
  /\ Goes(t, "done")
  /\ UNCHANGED <<started, life, runtime_loop, lock, call, loop_read>>

(* The run has returned since: the loop is looked at once more.            *)
FindsLoopStopped(t) ==
  /\ pc[t] = "handing"
  /\ life[loop_read[t]] # "running"
  /\ Goes(t, "direct")
  /\ UNCHANGED <<shared, lock, call, loop_read>>

(* call_soon_threadsafe. A loop takes callbacks until it is closed.        *)
HandOver(t) ==
  /\ pc[t] = "handing"
  /\ life[loop_read[t]] # "dead"
  /\ Goes(t, "waiting")
  /\ UNCHANGED <<shared, lock, call, loop_read>>

(* It raises once the loop is closed, and so does the caller's method.     *)
HandOverFails(t) ==
  /\ pc[t] = "handing"
  /\ life[loop_read[t]] = "dead"
  /\ lock' = IF call[t] = "stop" THEN None ELSE lock
  /\ Goes(t, "idle")
  /\ UNCHANGED <<shared, call, loop_read>>

(* The loop calls run_mutation. The mutant does not set done_event.        *)
LoopMutatesOnly(t) ==
  /\ pc[t] = "waiting"
  /\ life[loop_read[t]] \in {"running", "closing"}
  /\ Mutate(t)
  /\ UNCHANGED <<started, life, runtime_loop, lock, call, pc, loop_read>>

LoopMutates(t) ==
  /\ pc[t] = "waiting"
  /\ life[loop_read[t]] \in {"running", "closing"}
  /\ Mutate(t)
  /\ Goes(t, "done")
  /\ UNCHANGED <<started, life, runtime_loop, lock, call, loop_read>>
-----------------------------------------------------------------------------
(* The runtime thread: asyncio.run(dispatcher.run()).                      *)

RunResetsStop(e) ==
  /\ life[e] = "starting"
  /\ ~is_running
  /\ stop_requested' = FALSE
  /\ life' = [life EXCEPT ![e] = "resetting"]
  /\ UNCHANGED <<started, runtime_loop, is_paused, lock, call, pc, loop_read>>

(* The mutant resets the flag where the loop becomes visible.              *)
RunPublishesThenResets(e) ==
  /\ life[e] = "resetting"
  /\ runtime_loop' = e
  /\ stop_requested' = FALSE
  /\ life' = [life EXCEPT ![e] = "running"]
  /\ UNCHANGED <<started, is_paused, lock, call, pc, loop_read>>

RunPublishesLoop(e) ==
  /\ life[e] = "resetting"
  /\ runtime_loop' = e
  /\ life' = [life EXCEPT ![e] = "running"]
  /\ UNCHANGED <<started, stop_requested, is_paused, lock, call, pc, loop_read>>

(* The mutant leaves the loop published.                                   *)
RunReturnsOnly(e) ==
  /\ life[e] = "running"
  /\ stop_requested
  /\ life' = [life EXCEPT ![e] = "closing"]
  /\ UNCHANGED <<started, runtime_loop, stop_requested, is_paused, lock, call,
                 pc, loop_read>>

RunReturns(e) ==
  /\ life[e] = "running"
  /\ stop_requested
  /\ runtime_loop' = 0
  /\ life' = [life EXCEPT ![e] = "closing"]
  /\ UNCHANGED <<started, stop_requested, is_paused, lock, call, pc, loop_read>>

(* The last iteration runs every callback that was scheduled before it.    *)
LoopDrains(e) ==
  /\ life[e] = "closing"
  /\ \A t \in Caller : ~(pc[t] = "waiting" /\ loop_read[t] = e)
  /\ life' = [life EXCEPT ![e] = "drained"]
  /\ UNCHANGED <<started, runtime_loop, stop_requested, is_paused, lock, call,
                 pc, loop_read>>

LoopCloses(e) ==
  /\ life[e] = "drained"
  /\ life' = [life EXCEPT ![e] = "dead"]
  /\ UNCHANGED <<started, runtime_loop, stop_requested, is_paused, lock, call,
                 pc, loop_read>>
-----------------------------------------------------------------------------
(* The steps a caller takes by itself once it has made its request.        *)
CallerStep(t) ==
  \/ StartAnswers(t)
  \/ StopAnswers(t)
  \/ Continue(t)
  \/ ReadLoop(t)
  \/ RunDirectly(t)
  \/ FindsLoopStopped(t)
  \/ HandOver(t)
  \/ HandOverFails(t)

RuntimeStep(e) ==
  \/ RunResetsStop(e)
  \/ RunPublishesLoop(e)
  \/ RunReturns(e)
  \/ LoopDrains(e)
  \/ LoopCloses(e)

Next ==
  \/ \E t \in Caller :
       \/ Start(t)
       \/ Stop(t)
       \/ Pause(t)
       \/ Resume(t)
       \/ CallerStep(t)
       \/ LoopMutates(t)
  \/ \E e \in Thread : RuntimeStep(e)

Spec == Init /\ [][Next]_vars

(* Threads are scheduled, the timeouts of start and stop pass, and a loop  *)
(* runs its callbacks. Nobody has to make a request.                       *)
Fairness ==
  /\ \A t \in Caller : WF_vars(CallerStep(t)) /\ WF_vars(LoopMutates(t))
  /\ \A e \in Thread : WF_vars(RuntimeStep(e))

FairSpec == Spec /\ Fairness
-----------------------------------------------------------------------------
(* The variables keep their types, and a published loop is that of a living *)
(* thread: run's finally takes it back (runtime_service.py:164-168).       *)
TypeOK ==
  /\ started \in 0..MaxStarts
  /\ life \in [Thread -> Life]
  /\ runtime_loop \in {0} \cup {e \in Thread : IsAlive(e)}
  /\ stop_requested \in BOOLEAN
  /\ is_paused \in BOOLEAN
  /\ lock \in Caller \cup {None}
  /\ call \in [Caller -> Request]
  /\ pc \in [Caller -> Point]
  /\ loop_read \in [Caller -> 0..MaxStarts]

(* One dispatcher never runs on two threads, however start and stop calls  *)
(* race with a run that comes up or goes down (runtime_controller.py:47-73)*)
(* - so run() never finds another one and raises.                          *)
OneRun ==
  \A e, f \in Thread : IsAlive(e) /\ IsAlive(f) => e = f

(* A stop that is executed once run has reset the flag ends that run's     *)
(* thread, also when it comes before the loop is published or is handed to *)
(* the loop: no later step of the run or of a caller takes it back         *)
(* (runtime_service.py:82-87, 137-168).                                    *)
StopReachesTheRun ==
  \A e \in Thread :
    stop_requested /\ life[e] \in {"resetting", "running"} ~> life[e] = "dead"

(* A callback that reaches a loop after its last iteration is never called:*)
(* its caller waits for ever, a stopping one with the lock.                *)
Stranded(t) == pc[t] = "waiting" /\ life[loop_read[t]] = "dead"

(* Every call returns, whatever a start, a stop and the end of a run do    *)
(* meanwhile, except for the callers that the closing loop strands         *)
(* (mutation_service.py:16-48, runtime_controller.py:46-146).              *)
EveryCallReturns ==
  \A t \in Caller : pc[t] # "idle" ~> pc[t] = "idle" \/ Stranded(t)

(* "Stops the dispatcher." (action_descriptions.py:49), "operation         *)
(* dispatcher stopped" (runtime_controller.py:116): once the request of a  *)
(* stop was executed, the run ends, even if stop gives up waiting for it.  *)
StopIsObeyed ==
  \A t \in Caller : pc[t] = "joining" ~> \A e \in Thread : ~IsAlive(e)
=============================================================================
