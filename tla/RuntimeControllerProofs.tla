------------------------ MODULE RuntimeControllerProofs ------------------------
(***************************************************************************)
(* Proofs about the runtime controller, for any number of callers and of   *)
(* restarts. The inductive invariant says where every runtime thread       *)
(* stands with respect to the newest one: those before it are dead, and no *)
(* later one exists.                                                       *)
(***************************************************************************)
EXTENDS RuntimeController, TLAPS

OnlyTheNewestLives ==
  \A e \in Thread : /\ e > started <=> life[e] = "absent"
                    /\ e < started => life[e] = "dead"

PublishedLoopRuns == runtime_loop # 0 => life[runtime_loop] = "running"

Inv == TypeOK /\ OnlyTheNewestLives /\ PublishedLoopRuns

LEMMA InitInv == Init => Inv
<1> SUFFICES ASSUME Init PROVE Inv
  OBVIOUS
<1> USE ControllerAssumption DEF Init
<1>1. TypeOK
  <2>1. /\ started \in 0..MaxStarts
        /\ life \in [Thread -> Life]
        /\ runtime_loop = 0
    BY DEF Life
  <2>2. /\ call \in [Caller -> Request]
        /\ pc \in [Caller -> Point]
        /\ loop_read \in [Caller -> 0..MaxStarts]
    BY DEF Request, Point
  <2> QED BY <2>1, <2>2 DEF TypeOK
<1>2. OnlyTheNewestLives
  BY DEF OnlyTheNewestLives, Thread
<1>3. PublishedLoopRuns
  BY DEF PublishedLoopRuns
<1> QED BY <1>1, <1>2, <1>3 DEF Inv

(* A step of a caller leaves the runtime threads as they are.              *)
LEMMA CallerStepInv ==
  ASSUME Inv, NEW t \in Caller,
         \/ Stop(t)
         \/ Pause(t)
         \/ Resume(t)
         \/ CallerStep(t)
         \/ LoopMutates(t)
  PROVE  Inv'
<1> USE DEF Inv, TypeOK, shared, Goes, Request, Point
<1>1. UNCHANGED <<started, life, runtime_loop>>
  BY DEF Stop, Pause, Resume, CallerStep, LoopMutates, StartAnswers, StopAnswers,
         Continue, ReadLoop, RunDirectly, FindsLoopStopped, HandOver, HandOverFails
<1>2. OnlyTheNewestLives' /\ PublishedLoopRuns'
  BY <1>1 DEF OnlyTheNewestLives, PublishedLoopRuns
<1>3. /\ started' \in 0..MaxStarts
      /\ life' \in [Thread -> Life]
      /\ runtime_loop' \in {0} \cup {e \in Thread : IsAlive(e)'}
  BY <1>1 DEF IsAlive
<1>4. stop_requested' \in BOOLEAN /\ is_paused' \in BOOLEAN
  <2>1. CASE Stop(t) \/ Pause(t) \/ Resume(t)
    BY <2>1 DEF Stop, Pause, Resume
  <2>2. CASE Mutate(t)
    BY <2>2 DEF Mutate
  <2>3. CASE CallerStep(t)
    BY <2>2, <2>3
    DEF CallerStep, StartAnswers, StopAnswers, Continue, ReadLoop, RunDirectly,
        FindsLoopStopped, HandOver, HandOverFails
  <2>4. CASE LoopMutates(t)
    BY <2>2, <2>4 DEF LoopMutates
  <2> QED BY <2>1, <2>3, <2>4
<1>5. /\ lock' \in Caller \cup {None}
      /\ call' \in [Caller -> Request]
      /\ pc' \in [Caller -> Point]
      /\ loop_read' \in [Caller -> 0..MaxStarts]
  <2>1. CASE Stop(t) \/ Pause(t) \/ Resume(t) \/ LoopMutates(t)
    BY <2>1 DEF Stop, Pause, Resume, LoopMutates
  <2>2. CASE ReadLoop(t)
    <3>1. runtime_loop \in 0..MaxStarts
      BY ControllerAssumption DEF Thread
    <3> QED BY <2>2, <3>1 DEF ReadLoop
  <2>3. CASE CallerStep(t) /\ ~ReadLoop(t)
    BY <2>3
    DEF CallerStep, StartAnswers, StopAnswers, Continue, RunDirectly,
        FindsLoopStopped, HandOver, HandOverFails
  <2> QED BY <2>1, <2>2, <2>3
<1> QED BY <1>2, <1>3, <1>4, <1>5

(* start makes a new newest thread, and only when the old one is dead.     *)
LEMMA StartInv ==
  ASSUME Inv, NEW t \in Caller, Start(t)
  PROVE  Inv'
<1> USE ControllerAssumption DEF Inv, Thread
<1>1. /\ started \in Nat
      /\ started' = started + 1
      /\ started + 1 \in Thread
      /\ life' = [life EXCEPT ![started + 1] = "starting"]
      /\ life \in [Thread -> Life]
  BY DEF Start, TypeOK
<1>2. runtime_loop = 0 /\ runtime_loop' = 0
  BY DEF Start, is_running
<1>3. started # 0 => life[started] = "dead"
  <2>1. CASE started = 0
    BY <2>1
  <2>2. CASE started # 0
    <3>1. life[started] \in {"absent", "dead"}
      BY <2>2 DEF Start, RuntimeActive, IsAlive
    <3>2. life[started] # "absent"
      BY <1>1, <2>2 DEF OnlyTheNewestLives
    <3> QED BY <3>1, <3>2
  <2> QED BY <2>1, <2>2
<1>4. OnlyTheNewestLives'
  BY <1>1, <1>3 DEF OnlyTheNewestLives
<1>5. PublishedLoopRuns'
  BY <1>2 DEF PublishedLoopRuns
<1>6. TypeOK'
  BY <1>1, <1>2 DEF Start, TypeOK, Goes, Life, Request, Point
<1> QED BY <1>4, <1>5, <1>6

(* The run's thread goes from one point of its life to the next.           *)
LEMMA RuntimeStepInv ==
  ASSUME Inv, NEW e \in Thread, RuntimeStep(e)
  PROVE  Inv'
<1> USE ControllerAssumption DEF Inv, Thread
<1>1. /\ started \in 0..MaxStarts
      /\ life \in [Thread -> Life]
      /\ UNCHANGED <<started, is_paused, lock, call, pc, loop_read>>
      /\ life[e] \notin {"absent", "dead"}
      /\ \E point \in Life \ {"absent"} : life' = [life EXCEPT ![e] = point]
  BY DEF TypeOK, RuntimeStep, RunResetsStop, RunPublishesLoop, RunReturns,
         LoopDrains, LoopCloses, Life
<1>2. e = started
  BY <1>1 DEF OnlyTheNewestLives
<1>3. OnlyTheNewestLives'
  BY <1>1, <1>2 DEF OnlyTheNewestLives
<1>4. stop_requested' \in BOOLEAN
  BY DEF TypeOK, RuntimeStep, RunResetsStop, RunPublishesLoop, RunReturns,
         LoopDrains, LoopCloses
<1>5. runtime_loop' = 0 \/ (runtime_loop' = e /\ life'[e] = "running")
  <2>1. runtime_loop = 0 \/ (runtime_loop = e /\ life[e] = "running")
    <3>1. SUFFICES ASSUME runtime_loop # 0 PROVE runtime_loop = e
      BY DEF PublishedLoopRuns
    <3>2. runtime_loop \in Thread /\ life[runtime_loop] = "running"
      BY <3>1 DEF TypeOK, PublishedLoopRuns
    <3> QED BY <1>1, <1>2, <3>2 DEF OnlyTheNewestLives
  <2>2. CASE RunResetsStop(e) \/ LoopDrains(e) \/ LoopCloses(e)
    BY <2>1, <2>2 DEF RunResetsStop, LoopDrains, LoopCloses
  <2>3. CASE RunPublishesLoop(e)
    BY <1>1, <2>3 DEF RunPublishesLoop
  <2>4. CASE RunReturns(e)
    BY <2>4 DEF RunReturns
  <2> QED BY <2>2, <2>3, <2>4 DEF RuntimeStep
<1>6. PublishedLoopRuns'
  BY <1>5 DEF PublishedLoopRuns
<1>7. TypeOK'
  <2>1. runtime_loop' \in {0} \cup {f \in Thread : IsAlive(f)'}
    BY <1>5 DEF IsAlive
  <2>2. life' \in [Thread -> Life]
    BY <1>1
  <2> QED BY <1>1, <1>4, <2>1, <2>2 DEF TypeOK
<1> QED BY <1>3, <1>6, <1>7

(* The inductive invariant holds of every behaviour.                       *)
THEOREM ControllerInv == Spec => []Inv
<1>1. Init => Inv
  BY InitInv
<1>2. Inv /\ [Next]_vars => Inv'
  <2> SUFFICES ASSUME Inv, [Next]_vars PROVE Inv'
    OBVIOUS
  <2>1. CASE Next
    BY <2>1, StartInv, CallerStepInv, RuntimeStepInv DEF Next
  <2>2. CASE UNCHANGED vars
    BY <2>2 DEF vars, Inv, TypeOK, OnlyTheNewestLives, PublishedLoopRuns, IsAlive
  <2> QED BY <2>1, <2>2
<1> QED BY <1>1, <1>2, PTL DEF Spec

(* The variables keep their types; a published loop is that of a living    *)
(* thread (runtime_service.py:164-168).                                    *)
THEOREM ControllerTypeOK == Spec => []TypeOK
<1>1. Inv => TypeOK
  BY DEF Inv
<1> QED BY <1>1, ControllerInv, PTL

(* The dispatcher never runs on two threads (runtime_controller.py:47-73). *)
THEOREM ControllerOneRun == Spec => []OneRun
<1>1. Inv => OneRun
  <2> SUFFICES ASSUME Inv, NEW e \in Thread, NEW f \in Thread,
                      IsAlive(e), IsAlive(f)
               PROVE  e = f
    BY DEF OneRun
  <2> USE ControllerAssumption DEF Inv, Thread
  <2>1. started \in Nat
    BY DEF TypeOK
  <2>2. e = started /\ f = started
    BY <2>1 DEF OnlyTheNewestLives, IsAlive
  <2> QED BY <2>2
<1> QED BY <1>1, ControllerInv, PTL
=============================================================================
