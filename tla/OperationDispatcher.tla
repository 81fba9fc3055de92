------------------------- MODULE OperationDispatcher -------------------------
(***************************************************************************)
(* The dispatcher: its queue, the life of each operation, the approval of  *)
(* every lifecycle request by the application's callback, and the runtime  *)
(* loop. It calls the methods of module DispatchQueue.                     *)
(*                                                                         *)
(* Everything that changes state runs on one event loop, so a handler is   *)
(* atomic between two awaits. The one await inside a handler is the start  *)
(* request of step_dispatch: an action that sets asked suspends there and  *)
(* StartAccepted or StartDenied resumes, with any other handler between    *)
(* the two. Cancel, pause and resume requests block the loop until the     *)
(* callback answers, so they are one step each. Without a running loop the *)
(* caller's thread runs the same handlers itself.                          *)
(***************************************************************************)
EXTENDS DispatchQueue

CONSTANTS
  MaxRetries,       \* start_request_max_retries
  Deniable,         \* the request types the callback may deny
  UpdatableFields,  \* updatable_fields
  Callers           \* coroutines that call step_dispatch beside run

RequestType == {"START", "CANCEL", "PAUSE", "RESUME"}

Field == {"priority", "release_date", "dependencies", "state", "outcome"}

(* The fields the default sort rules read (dispatch_queue.py:270-282).     *)
KeyFields == {"priority", "release_date"}

ASSUME DispatcherAssumption ==
  /\ MaxRetries \in Nat \ {0}
  /\ Deniable \subseteq RequestType
  /\ UpdatableFields \subseteq Field
  /\ "run" \notin Callers

VARIABLES
  state,           \* Operation.state
  outcome,         \* Operation.outcome
  held,            \* the operations whose release_date is in the future
  is_paused,
  stop_requested,
  denials,         \* _denial_counts; MaxRetries stands for any count from there
  cooling,         \* the keys of _cooldown_until that lie in the future
  asked,           \* stepper -> the operation whose start request is in flight
  runtime,         \* where run() is suspended
  wakeup_pending,  \* wakeup_event.set was scheduled and has not run
  wakeup_event     \* wakeup_event is set

lifecycle == <<state, outcome>>
retry == <<denials, cooling>>
loop == <<runtime, wakeup_pending, wakeup_event>>
vars == <<queue, pulled, completed, key, dependencies, state, outcome, held,
          is_paused, stop_requested, denials, cooling, asked, runtime,
          wakeup_pending, wakeup_event>>

ExecutionState == {"QUEUED", "RUNNING", "PAUSED", "COMPLETED"}
ExecutionOutcome == {"NONE", "SUCCESS", "FAILURE", "CANCELLED"}
RetryKey == RequestType \X Operation
Stepper == Callers \cup {"run"}

(* "yielded": asyncio.sleep(0); "asking": the start request; "timed",      *)
(* "blocked": the wakeup event, with or without a timeout; "stopped": no   *)
(* run() on the stack.                                                     *)
RuntimePoint == {"stopped", "yielded", "asking", "timed", "blocked"}

Init ==
  /\ QueueInit
  /\ state = [o \in Operation |-> "QUEUED"]
  /\ outcome = [o \in Operation |-> "NONE"]
  /\ held \in SUBSET Operation
  /\ is_paused \in BOOLEAN                        \* start_paused
  /\ stop_requested = FALSE
  /\ denials = [k \in RetryKey |-> 0]
  /\ cooling = {}
  /\ asked = [s \in Stepper |-> None]
  /\ runtime = "stopped"
  /\ wakeup_pending = FALSE
  /\ wakeup_event = FALSE
-----------------------------------------------------------------------------
(* Shared effects.                                                         *)

(* emit_event ends in notify_wakeup, which schedules wakeup_event.set when *)
(* the loop runs. The mutant records the event and wakes nobody.           *)
EmitSilently == UNCHANGED <<wakeup_pending, wakeup_event>>

Emit ==
  /\ wakeup_pending' = (runtime # "stopped")
  /\ UNCHANGED wakeup_event

(* RetryPolicy.clear for a set of keys.                                    *)
ClearRetries(keys) ==
  /\ denials' = [k \in RetryKey |-> IF k \in keys THEN 0 ELSE denials[k]]
  /\ cooling' = cooling \ keys

(* RetryPolicy.on_denied. The cooldown is counted from before the callback *)
(* was called and may be zero, so it can be over when the denial arrives.  *)
CountDenial(k) ==
  /\ denials' = [denials EXCEPT ![k] = IF @ < MaxRetries THEN @ + 1 ELSE @]
  /\ cooling' \in {cooling \ {k}, cooling \cup {k}}

(* _pause_internal: the active operation is marked too.                    *)
MarkPaused ==
  /\ is_paused' = TRUE
  /\ state' = IF pulled = None THEN state
                               ELSE [state EXCEPT ![pulled] = "PAUSED"]

(* A denied request: count it, and pause the dispatcher at the limit. The  *)
(* mutant compares the count from before this denial.                      *)
DenyOneLate(k) ==
  /\ CountDenial(k)
  /\ IF denials[k] >= MaxRetries THEN MarkPaused
                                 ELSE UNCHANGED <<is_paused, state>>

Deny(k) ==
  /\ CountDenial(k)
  /\ IF denials[k] + 1 >= MaxRetries THEN MarkPaused
                                     ELSE UNCHANGED <<is_paused, state>>
-----------------------------------------------------------------------------
(* OperationLifecycleService.                                              *)

AddOperation(o) ==
  /\ ReAdd \/ o \notin Known
  /\ UNCHANGED attributes
  /\ Add(o)
  /\ Emit
  /\ UNCHANGED <<state, outcome, held, is_paused, stop_requested, retry, asked,
                 runtime>>

(* complete_operation and fail_operation differ in the outcome only.       *)
Report(o, result) ==
  /\ ArchivePulled(o)
  /\ state' = [state EXCEPT ![o] = "COMPLETED"]
  /\ outcome' = [outcome EXCEPT ![o] = result]
  /\ Emit
  /\ UNCHANGED <<attributes, held, is_paused, stop_requested, retry, asked,
                 runtime>>

CompleteOperation(o) == Report(o, "SUCCESS")

FailOperation(o) == Report(o, "FAILURE")

(* A request of type t on the current operation that, once granted, moves  *)
(* it to state s. A request whose key cools down is refused with no        *)
(* effect. The enforce_..._state flags only narrow when callers may ask.   *)
RequestTransition(t, o, s) ==
  /\ pulled = o
  /\ <<t, o>> \notin cooling
  /\ \/ /\ ClearRetries({<<t, o>>})
        /\ state' = [state EXCEPT ![o] = s]
        /\ UNCHANGED is_paused
     \/ t \in Deniable /\ Deny(<<t, o>>)
  /\ Emit
  /\ UNCHANGED <<buckets, attributes, outcome, held, stop_requested, asked,
                 runtime>>

PauseOperation(o) == RequestTransition("PAUSE", o, "PAUSED")

ResumeOperation(o) == RequestTransition("RESUME", o, "RUNNING")

(* What a granted cancellation does to an operation still in the queue or  *)
(* in the active slot. The mutant archives it without its outcome.         *)
WithdrawWithoutOutcome(o) ==
  /\ CancelHeld(o)
  /\ state' = [state EXCEPT ![o] = "COMPLETED"]
  /\ ClearRetries({<<"CANCEL", o>>, <<"START", o>>})
  /\ UNCHANGED <<outcome, is_paused>>

Withdraw(o) ==
  /\ CancelHeld(o)
  /\ state' = [state EXCEPT ![o] = "COMPLETED"]
  /\ outcome' = [outcome EXCEPT ![o] = "CANCELLED"]
  /\ ClearRetries({<<"CANCEL", o>>, <<"START", o>>})
  /\ UNCHANGED is_paused

(* cancel asks for any operation it can look up, archived ones included;   *)
(* for those a granted request changes nothing else.                       *)
CancelOperation(o) ==
  /\ o \in Known
  /\ <<"CANCEL", o>> \notin cooling
  /\ \/ Withdraw(o)
     \/ /\ o \notin Queued \cup {pulled}
        /\ ClearRetries({<<"CANCEL", o>>})
        /\ UNCHANGED <<buckets, lifecycle, is_paused>>
     \/ /\ "CANCEL" \in Deniable
        /\ Deny(<<"CANCEL", o>>)
        /\ UNCHANGED <<buckets, outcome>>
  /\ Emit
  /\ UNCHANGED <<attributes, held, stop_requested, asked, runtime>>

(* update: any known operation but an active one in state RUNNING. New     *)
(* values for the updatable fields, a resort, and an event when a value    *)
(* changed. An update of no field returns before all of this: no step.     *)
UpdateOperation(o) ==
  /\ o \in Known
  /\ ~(pulled = o /\ state[o] = "RUNNING")
  /\ key' \in {key} \cup {[key EXCEPT ![o] = k] :
                 k \in IF KeyFields \cap UpdatableFields # {} THEN SortKey ELSE {}}
  /\ dependencies' \in {dependencies} \cup {[dependencies EXCEPT ![o] = d] :
                 d \in IF "dependencies" \in UpdatableFields
                       THEN SUBSET MayDependOn[o] ELSE {}}
  /\ held' \in {held} \cup (IF "release_date" \in UpdatableFields
                            THEN {held \cup {o}, held \ {o}} ELSE {})
  /\ state' \in {state} \cup {[state EXCEPT ![o] = v] :
                 v \in IF "state" \in UpdatableFields THEN ExecutionState ELSE {}}
  /\ outcome' \in {outcome} \cup {[outcome EXCEPT ![o] = v] :
                 v \in IF "outcome" \in UpdatableFields THEN ExecutionOutcome ELSE {}}
  /\ Resort
  /\ IF <<key', dependencies', held', state', outcome'>>
          = <<key, dependencies, held, state, outcome>>
     THEN UNCHANGED <<wakeup_pending, wakeup_event>>
     ELSE Emit
  /\ UNCHANGED <<is_paused, stop_requested, retry, asked, runtime>>
-----------------------------------------------------------------------------
(* DispatcherRuntimeService, the handlers.                                 *)

PauseDispatcher ==
  /\ MarkPaused
  /\ Emit
  /\ UNCHANGED <<buckets, attributes, outcome, held, stop_requested, retry,
                 asked, runtime>>

(* The mutant of resume keeps the retry state.                             *)
ResumeKeepingRetries ==
  /\ is_paused' = FALSE
  /\ Emit
  /\ UNCHANGED <<buckets, attributes, lifecycle, held, stop_requested, retry,
                 asked, runtime>>

ResumeDispatcher ==
  /\ ClearRetries(RetryKey)
  /\ is_paused' = FALSE
  /\ Emit
  /\ UNCHANGED <<buckets, attributes, lifecycle, held, stop_requested, asked,
                 runtime>>

(* request_stop calls notify_wakeup itself; the mutant does not.           *)
RequestStopSilently ==
  /\ stop_requested' = TRUE
  /\ UNCHANGED <<buckets, attributes, lifecycle, held, is_paused, retry, asked,
                 loop>>

RequestStop ==
  /\ stop_requested' = TRUE
  /\ Emit
  /\ UNCHANGED <<buckets, attributes, lifecycle, held, is_paused, retry, asked,
                 runtime>>
-----------------------------------------------------------------------------
(* step_dispatch and run.                                                  *)

(* The conditions step_dispatch tests before it asks for the queue head.   *)
HeadMayBeAsked ==
  /\ ~is_paused
  /\ pulled = None
  /\ queue # <<>>
  /\ Head(queue) \notin held
  /\ <<"START", Head(queue)>> \notin cooling

(* _next_wait_seconds: nothing to wait for, a date to wait for, or zero.   *)
(* It does not look at the active operation. The mutant forgets the dates. *)
WaitForEventOnly(paused, q, cool) == "blocked"

NextWait(paused, q, cool) ==
  IF paused \/ q = <<>> THEN "blocked"
  ELSE IF Head(q) \in held \/ <<"START", Head(q)>> \in cool THEN "timed"
  ELSE "yielded"

(* The finally of run; the event object is dropped.                        *)
EndRuntime ==
  /\ runtime' = "stopped"
  /\ wakeup_pending' = FALSE
  /\ wakeup_event' = FALSE

(* _start_next, after the answer: it tests the pause again and pulls       *)
(* whatever is at the head by now. The mutant trusts the test made before  *)
(* the await.                                                              *)
StartNextUnchecked ==
  IF pulled = None /\ queue # <<>>
  THEN Pull /\ state' = [state EXCEPT ![Head(queue)] = "RUNNING"]
  ELSE UNCHANGED <<buckets, state>>

StartNext ==
  IF ~is_paused /\ pulled = None /\ queue # <<>>
  THEN Pull /\ state' = [state EXCEPT ![Head(queue)] = "RUNNING"]
  ELSE UNCHANGED <<buckets, state>>

(* step_dispatch returned, or raised, to stepper s. For run, the rest of   *)
(* the iteration follows at once: the stop flag, then the next wait.       *)
StepReturns(s) ==
  IF s # "run" THEN Emit /\ UNCHANGED runtime
  ELSE IF stop_requested THEN EndRuntime
  ELSE runtime' = NextWait(is_paused', queue', cooling') /\ Emit

StartAccepted(s) ==
  /\ asked[s] # None
  /\ asked' = [asked EXCEPT ![s] = None]
  /\ ClearRetries({<<"START", asked[s]>>})
  /\ StartNext
  /\ UNCHANGED <<attributes, outcome, held, is_paused, stop_requested>>
  /\ StepReturns(s)

(* A denial, an exception or a timeout.                                    *)
StartDenied(s) ==
  /\ asked[s] # None
  /\ "START" \in Deniable
  /\ asked' = [asked EXCEPT ![s] = None]
  /\ Deny(<<"START", asked[s]>>)
  /\ UNCHANGED <<buckets, attributes, outcome, held, stop_requested>>
  /\ StepReturns(s)

(* A coroutine other than run calls step_dispatch.                         *)
CallerAsks(s) ==
  /\ s # "run"
  /\ asked[s] = None
  /\ HeadMayBeAsked
  /\ asked' = [asked EXCEPT ![s] = Head(queue)]
  /\ UNCHANGED <<buckets, attributes, lifecycle, held, is_paused,
                 stop_requested, retry, loop>>

(* run goes on to the first step_dispatch, up to its first await.          *)
Run ==
  /\ runtime = "stopped"
  /\ stop_requested' = FALSE
  /\ wakeup_pending' = TRUE
  /\ wakeup_event' = FALSE
  /\ IF HeadMayBeAsked
     THEN asked' = [asked EXCEPT !["run"] = Head(queue)] /\ runtime' = "asking"
     ELSE runtime' = NextWait(is_paused, queue, cooling) /\ UNCHANGED asked
  /\ UNCHANGED <<buckets, attributes, lifecycle, held, is_paused, retry>>

(* What run is suspended on is over. wait_for may time out at any moment.  *)
MayResume ==
  \/ runtime \in {"yielded", "timed"}
  \/ runtime = "blocked" /\ wakeup_event

(* Both waits clear the event, sleep(0) does not.                          *)
ClearWakeup ==
  /\ wakeup_event' = (wakeup_event /\ runtime = "yielded")
  /\ UNCHANGED wakeup_pending

RuntimeAsks ==
  /\ MayResume
  /\ ~stop_requested
  /\ HeadMayBeAsked
  /\ asked' = [asked EXCEPT !["run"] = Head(queue)]
  /\ runtime' = "asking"
  /\ ClearWakeup
  /\ UNCHANGED <<buckets, attributes, lifecycle, held, is_paused,
                 stop_requested, retry>>

RuntimeWaits ==
  /\ MayResume
  /\ ~stop_requested
  /\ ~HeadMayBeAsked
  /\ runtime' = NextWait(is_paused, queue, cooling)
  /\ ClearWakeup
  /\ UNCHANGED <<buckets, attributes, lifecycle, held, is_paused,
                 stop_requested, retry, asked>>

RuntimeEnds ==
  /\ MayResume
  /\ stop_requested
  /\ EndRuntime
  /\ UNCHANGED <<buckets, attributes, lifecycle, held, is_paused,
                 stop_requested, retry, asked>>

(* The host cancels the task of run, wherever it is suspended; an answer   *)
(* to its start request is then ignored.                                   *)
CancelRuntime ==
  /\ runtime # "stopped"
  /\ EndRuntime
  /\ asked' = [asked EXCEPT !["run"] = None]
  /\ UNCHANGED <<buckets, attributes, lifecycle, held, is_paused,
                 stop_requested, retry>>

(* The event loop runs the scheduled wakeup_event.set.                     *)
DeliverWakeup ==
  /\ wakeup_pending
  /\ wakeup_pending' = FALSE
  /\ wakeup_event' = TRUE
  /\ UNCHANGED <<buckets, attributes, lifecycle, held, is_paused,
                 stop_requested, retry, asked, runtime>>
-----------------------------------------------------------------------------
(* Time passes.                                                            *)

ReleaseDatePasses(o) ==
  /\ o \in held
  /\ held' = held \ {o}
  /\ UNCHANGED <<buckets, attributes, lifecycle, is_paused, stop_requested,
                 retry, asked, loop>>

CooldownExpires(k) ==
  /\ k \in cooling
  /\ cooling' = cooling \ {k}
  /\ UNCHANGED <<buckets, attributes, lifecycle, held, is_paused,
                 stop_requested, denials, asked, loop>>
-----------------------------------------------------------------------------
Runtime == RuntimeAsks \/ RuntimeWaits \/ RuntimeEnds

Answer(s) == StartAccepted(s) \/ StartDenied(s)

Next ==
  \/ \E o \in Operation :
       \/ AddOperation(o)
       \/ CompleteOperation(o)
       \/ FailOperation(o)
       \/ PauseOperation(o)
       \/ ResumeOperation(o)
       \/ CancelOperation(o)
       \/ UpdateOperation(o)
       \/ ReleaseDatePasses(o)
  \/ \E s \in Stepper :
       \/ CallerAsks(s)
       \/ Answer(s)
  \/ \E k \in RetryKey : CooldownExpires(k)
  \/ PauseDispatcher
  \/ ResumeDispatcher
  \/ RequestStop
  \/ Run
  \/ Runtime
  \/ CancelRuntime
  \/ DeliverWakeup

Spec == Init /\ [][Next]_vars

(* What the code's scheduling gives: the event loop runs what is ready, a  *)
(* start request is answered, if only by its timeout, and time passes.     *)
Fairness ==
  /\ WF_vars(Runtime)
  /\ WF_vars(DeliverWakeup)
  /\ \A s \in Stepper : WF_vars(Answer(s))
  /\ \A o \in Operation : WF_vars(ReleaseDatePasses(o))
  /\ \A k \in RetryKey : WF_vars(CooldownExpires(k))

FairSpec == Spec /\ Fairness
-----------------------------------------------------------------------------
TypeOK ==
  /\ QueueTypeOK
  /\ state \in [Operation -> ExecutionState]
  /\ outcome \in [Operation -> ExecutionOutcome]
  /\ held \in SUBSET Operation
  /\ is_paused \in BOOLEAN
  /\ stop_requested \in BOOLEAN
  /\ denials \in [RetryKey -> 0..MaxRetries]
  /\ cooling \in SUBSET RetryKey
  /\ asked \in [Stepper -> Operation \cup {None}]
  /\ runtime \in RuntimePoint
  /\ wakeup_pending \in BOOLEAN
  /\ wakeup_event \in BOOLEAN

(* An operation's own fields agree with the bucket it is in (README.md:151 *)
(* -159): queued and unfinished operations have no outcome, the active one *)
(* is RUNNING or PAUSED, and only archived operations are COMPLETED, with  *)
(* an outcome. Handlers set the fields and move the object separately, so  *)
(* pauses, denials at the limit and late answers must all keep the two in  *)
(* step.                                                                   *)
StateAgreesWithBucket ==
  \A o \in Operation :
    /\ pulled = o => state[o] \in {"RUNNING", "PAUSED"} /\ outcome[o] = "NONE"
    /\ o \in completed => state[o] = "COMPLETED" /\ outcome[o] # "NONE"
    /\ o \notin completed \cup {pulled} =>
         state[o] = "QUEUED" /\ outcome[o] = "NONE"

(* A request type that reached the denial limit for some operation leaves  *)
(* the dispatcher paused until a resume wipes the retry state, even when   *)
(* the limit is reached by a late answer to a request for an operation     *)
(* that has gone, or by a second coroutine (request_handler.py:154-176).   *)
ExhaustedMeansPaused ==
  \A k \in RetryKey : denials[k] = MaxRetries => is_paused

(* run() never sleeps without a timeout while there is something for it to *)
(* do: work to dispatch, or a stop to obey. Every handler that creates     *)
(* such work must wake it, and clearing the event must not swallow a wakeup*)
(* (runtime_service.py:170-231).                                           *)
NoLostWakeup ==
  runtime = "blocked" /\ (stop_requested \/ (~is_paused /\ queue # <<>>))
    => wakeup_pending \/ wakeup_event

(* "No new operations are being dispatched until resumed"                  *)
(* (action_descriptions.py:52): no step taken while the dispatcher is      *)
(* paused fills the active slot, also when the approval was asked before.  *)
PausedStartsNothing ==
  [][is_paused => pulled' \in {pulled, None}]_vars

(* The operation that is started is the one whose start was approved       *)
(* (README.md:35-36, 154).                                                 *)
StartedWasApproved ==
  [][pulled = None /\ pulled' # None =>
       \E s \in Stepper : asked[s] = pulled' /\ asked'[s] = None]_vars

(* The dispatcher keeps the promise of module SingleResource.              *)
Phase ==
  [o \in Operation |-> IF o = pulled THEN "active"
                       ELSE IF o \in Queued THEN "waiting"
                       ELSE IF o \in completed THEN "done" ELSE "absent"]

Resource == INSTANCE SingleResource WITH phase <- Phase, paused <- is_paused

(* One life per operation, one active operation, one outcome, nothing      *)
(* dispatched while paused: every handler is one step of the abstract      *)
(* specification or a stutter of it.                                       *)
ImplementsSingleResource == Resource!Spec

WorkIsReady ==
  /\ runtime # "stopped"
  /\ ~stop_requested
  /\ ~is_paused
  /\ pulled = None
  /\ queue # <<>>

(* A running, unpaused and idle dispatcher with queued operations asks for *)
(* one of them, or another coroutine does: release dates and cooldowns     *)
(* only delay it, and no wakeup is needed beyond those it gets.            *)
WorkIsRequested ==
  WorkIsReady ~> (\E s \in Stepper : asked[s] # None) \/ ~WorkIsReady

(* A requested stop ends run(), wherever it waits.                         *)
StopTakesEffect == stop_requested /\ runtime # "stopped" ~> runtime = "stopped"
=============================================================================
