---------------------------- MODULE SimulatedRunner ----------------------------
(***************************************************************************)
(* SimulatedOperationRunner, which plays the resource in the examples: a   *)
(* worker thread lets the time of one operation pass and then reports it.  *)
(* Its methods are called by the threads of request callbacks, several at  *)
(* once when an earlier callback has outlived its request.                 *)
(*                                                                         *)
(* A section under _lock is one step. Whether enough time has passed when  *)
(* a worker ticks is a choice. The actions say nothing of the variables of *)
(* the module that extends this one.                                       *)
(***************************************************************************)
EXTENDS Integers

CONSTANTS
  Operation,
  None,
  Thread,     \* the numbers of the threads that call the runner
  MaxWorkers  \* bound: worker threads created in one behaviour

ASSUME RunnerAssumption ==
  /\ None \notin Operation
  /\ MaxWorkers \in Nat
  /\ Thread \subseteq Nat \ {0}

VARIABLES
  operation,   \* _operation_id
  worker,      \* the number of the thread in _worker_thread, 0 for none
  pause_event,
  stop_event,
  created,     \* workers created so far
  work,        \* worker -> where it is
  taken,       \* worker -> the operation it reports
  call,        \* thread -> the method it is in and its operation
  pc,          \* thread -> where it is in it
  launched,    \* thread -> the worker it joins or has created
  answer,      \* thread -> what the method returned
  owed         \* history: operation -> starts of it installed, not ended yet

slot == <<operation, worker>>
events == <<pause_event, stop_event>>
workers == <<created, work, taken>>
calls == <<call, pc, launched, answer>>
runnerVars == <<operation, worker, pause_event, stop_event, created, work,
                taken, call, pc, launched, answer, owed>>

Worker == 1..MaxWorkers

Method == {"start", "cancel", "pause", "resume"}

Call == Method \X Operation

NoCall == <<"none", None>>

(* "new": created and not started; "polling": at the head of its loop;     *)
(* "ticking": past both events and before the lock.                        *)
Work == {"absent", "new", "polling", "ticking", "reporting", "dead"}

Point == {"idle", "entered", "joining", "installing", "launching", "answered"}

RunnerInit ==
  /\ operation = None
  /\ worker = 0
  /\ pause_event = FALSE
  /\ stop_event = FALSE
  /\ created = 0
  /\ work = [w \in Worker |-> "absent"]
  /\ taken = [w \in Worker |-> None]
  /\ call = [t \in Thread |-> NoCall]
  /\ pc = [t \in Thread |-> "idle"]
  /\ launched = [t \in Thread |-> 0]
  /\ answer = [t \in Thread |-> FALSE]
  /\ owed = [o \in Operation |-> 0]

Goes(t, point) == pc' = [pc EXCEPT ![t] = point]

Answers(t, result) ==
  /\ Goes(t, "answered")
  /\ answer' = [answer EXCEPT ![t] = result]

(* Thread t calls method m for operation o.                                *)
Enter(t, m, o) ==
  /\ pc[t] = "idle"
  /\ call' = [call EXCEPT ![t] = <<m, o>>]
  /\ Goes(t, "entered")
  /\ UNCHANGED <<slot, events, workers, launched, answer, owed>>

(* The caller has what the method returned, and its frame is gone.         *)
Leave(t) ==
  /\ pc[t] = "answered"
  /\ Goes(t, "idle")
  /\ call' = [call EXCEPT ![t] = NoCall]
  /\ launched' = [launched EXCEPT ![t] = 0]
  /\ answer' = [answer EXCEPT ![t] = FALSE]
  /\ UNCHANGED <<slot, events, workers, owed>>
-----------------------------------------------------------------------------
(* cancel, which start calls first, and the rest of start.                 *)

Settled(o) == [p \in Operation |-> IF p = o THEN owed[p] - 1 ELSE owed[p]]

Mismatch(t) ==
  call[t][1] = "cancel" /\ operation \notin {None, call[t][2]}

CancelRefused(t) ==
  /\ pc[t] = "entered"
  /\ Mismatch(t)
  /\ Answers(t, FALSE)
  /\ UNCHANGED <<slot, events, workers, call, launched, owed>>

(* The section under the lock. One mutant ends whatever is simulated, the  *)
(* other leaves the operation in place.                                    *)
CancelWhatever(t) ==
  /\ pc[t] = "entered"
  /\ call[t][1] \in {"start", "cancel"}
  /\ launched' = [launched EXCEPT ![t] = worker]
  /\ stop_event' = TRUE
  /\ pause_event' = TRUE
  /\ operation' = None
  /\ owed' = Settled(operation)
  /\ worker' = 0
  /\ Goes(t, "joining")
  /\ UNCHANGED <<workers, call, answer>>

CancelKeepsOperation(t) ==
  /\ pc[t] = "entered"
  /\ call[t][1] \in {"start", "cancel"}
  /\ ~Mismatch(t)
  /\ launched' = [launched EXCEPT ![t] = worker]
  /\ stop_event' = TRUE
  /\ pause_event' = TRUE
  /\ worker' = 0
  /\ Goes(t, "joining")
  /\ UNCHANGED <<operation, workers, call, answer, owed>>

CancelSection(t) ==
  /\ pc[t] = "entered"
  /\ call[t][1] \in {"start", "cancel"}
  /\ ~Mismatch(t)
  /\ launched' = [launched EXCEPT ![t] = worker]
  /\ stop_event' = TRUE
  /\ pause_event' = TRUE
  /\ operation' = None
  /\ owed' = Settled(operation)
  /\ worker' = 0
  /\ Goes(t, "joining")
  /\ UNCHANGED <<workers, call, answer>>

(* The worker is dead or the join has timed out, so this step may come at  *)
(* any moment. The mutant joins without a timeout.                         *)
JoinUntilDead(t) ==
  /\ pc[t] = "joining"
  /\ \A w \in Worker : w = launched[t] => work[w] \in {"new", "dead"}
  /\ stop_event' = FALSE
  /\ IF call[t][1] = "start" THEN Goes(t, "installing") /\ UNCHANGED answer
                             ELSE Answers(t, TRUE)
  /\ UNCHANGED <<slot, pause_event, workers, call, launched, owed>>

JoinAndClear(t) ==
  /\ pc[t] = "joining"
  /\ stop_event' = FALSE
  /\ IF call[t][1] = "start" THEN Goes(t, "installing") /\ UNCHANGED answer
                             ELSE Answers(t, TRUE)
  /\ UNCHANGED <<slot, pause_event, workers, call, launched, owed>>

(* The second section of start. The mutant relies on cancel's own clear.   *)
InstallBesideStop(t) ==
  /\ pc[t] = "installing"
  /\ created < MaxWorkers
  /\ created' = created + 1
  /\ operation' = call[t][2]
  /\ worker' = created + 1
  /\ work' = [work EXCEPT ![created + 1] = "new"]
  /\ launched' = [launched EXCEPT ![t] = created + 1]
  /\ pause_event' = TRUE
  /\ owed' = [owed EXCEPT ![call[t][2]] = @ + 1]
  /\ Goes(t, "launching")
  /\ UNCHANGED <<stop_event, taken, call, answer>>

Install(t) ==
  /\ pc[t] = "installing"
  /\ created < MaxWorkers
  /\ created' = created + 1
  /\ operation' = call[t][2]
  /\ worker' = created + 1
  /\ work' = [work EXCEPT ![created + 1] = "new"]
  /\ launched' = [launched EXCEPT ![t] = created + 1]
  /\ stop_event' = FALSE
  /\ pause_event' = TRUE
  /\ owed' = [owed EXCEPT ![call[t][2]] = @ + 1]
  /\ Goes(t, "launching")
  /\ UNCHANGED <<taken, call, answer>>

Launch(t) ==
  /\ pc[t] = "launching"
  /\ work' = [work EXCEPT ![launched[t]] = "polling"]
  /\ Answers(t, TRUE)
  /\ UNCHANGED <<slot, events, created, taken, call, launched, owed>>

(* pause and resume.                                                       *)
PauseOrResume(t) ==
  /\ pc[t] = "entered"
  /\ call[t][1] \in {"pause", "resume"}
  /\ LET found == operation = call[t][2] /\ worker # 0 IN
       /\ pause_event' = IF found THEN call[t][1] = "resume" ELSE pause_event
       /\ Answers(t, found)
  /\ UNCHANGED <<slot, stop_event, workers, call, launched, owed>>
-----------------------------------------------------------------------------
(* _run_worker.                                                            *)

(* The two events are read one after the other; a worker that read the     *)
(* first before they change is one that is already ticking.                *)
Poll(w) ==
  /\ work[w] = "polling"
  /\ stop_event \/ pause_event
  /\ work' = [work EXCEPT ![w] = IF stop_event THEN "dead" ELSE "ticking"]
  /\ UNCHANGED <<slot, events, created, taken, calls, owed>>

(* Nothing to simulate, or some time is left.                              *)
Tick(w) ==
  /\ work[w] = "ticking"
  /\ work' = [work EXCEPT ![w] = IF operation = None THEN "dead" ELSE "polling"]
  /\ UNCHANGED <<slot, events, created, taken, calls, owed>>

(* The time is over. The mutant leaves the operation to other workers.     *)
TakeAndLeave(w) ==
  /\ work[w] = "ticking"
  /\ operation # None
  /\ taken' = [taken EXCEPT ![w] = operation]
  /\ owed' = Settled(operation)
  /\ work' = [work EXCEPT ![w] = "reporting"]
  /\ UNCHANGED <<slot, events, created, calls>>

Take(w) ==
  /\ work[w] = "ticking"
  /\ operation # None
  /\ taken' = [taken EXCEPT ![w] = operation]
  /\ owed' = Settled(operation)
  /\ operation' = None
  /\ worker' = 0
  /\ work' = [work EXCEPT ![w] = "reporting"]
  /\ UNCHANGED <<events, created, calls>>

(* on_complete returns or raises, and the worker ends.                     *)
Report(w) ==
  /\ work[w] = "reporting"
  /\ taken' = [taken EXCEPT ![w] = None]
  /\ work' = [work EXCEPT ![w] = "dead"]
  /\ UNCHANGED <<slot, events, created, calls, owed>>
-----------------------------------------------------------------------------
CallerStep(t) ==
  \/ CancelRefused(t)
  \/ CancelSection(t)
  \/ JoinAndClear(t)
  \/ Install(t)
  \/ Launch(t)
  \/ PauseOrResume(t)

WorkerStep(w) == Poll(w) \/ Tick(w) \/ Take(w)

RunnerTypeOK ==
  /\ operation \in Operation \cup {None}
  /\ worker \in 0..MaxWorkers
  /\ pause_event \in BOOLEAN
  /\ stop_event \in BOOLEAN
  /\ created \in 0..MaxWorkers
  /\ work \in [Worker -> Work]
  /\ taken \in [Worker -> Operation \cup {None}]
  /\ call \in [Thread -> Call \cup {NoCall}]
  /\ pc \in [Thread -> Point]
  /\ launched \in [Thread -> 0..MaxWorkers]
  /\ answer \in [Thread -> BOOLEAN]
  /\ owed \in [Operation -> Nat]

(* Each start is reported or cancelled at most once, although several      *)
(* workers may be alive: one whose stop event was cleared before it looked *)
(* goes on with what was installed since                                   *)
(* (simulated_operation_runner.py:73-156).                                 *)
OneReport ==
  \A o \in Operation : owed[o] >= IF operation = o THEN 1 ELSE 0
=============================================================================
