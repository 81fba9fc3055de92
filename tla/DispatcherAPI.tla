----------------------------- MODULE DispatcherAPI -----------------------------
(***************************************************************************)
(* The HTTP and MCP interfaces. A handler runs in a thread of the server:  *)
(* it looks operations up in the queue's lists without a lock, hands its   *)
(* change to the event loop and waits for the result. One request is       *)
(* followed in detail; whatever other callers want of the loop is in the   *)
(* loop's choices.                                                         *)
(*                                                                         *)
(* A step is what CPython does without letting another thread run: one     *)
(* access to an attribute or a list. A list that is being sorted looks     *)
(* empty to other threads. Module OperationDispatcher has the handlers of  *)
(* the loop; here they are reduced to the accesses a reader can see.       *)
(* An operation is the rank of its sort key.                               *)
(***************************************************************************)
EXTENDS SequencesExt, Integers

CONSTANTS
  Operation,
  NewState,    \* the states an update may write
  NewOutcome,  \* the outcomes it may write, none if that is not updatable
  None

ExecutionState == {"QUEUED", "RUNNING", "PAUSED", "COMPLETED"}
ExecutionOutcome == {"NONE", "SUCCESS", "FAILURE", "CANCELLED"}

ASSUME APIAssumption ==
  /\ Operation \subseteq Nat
  /\ NewState \subseteq ExecutionState
  /\ NewOutcome \subseteq ExecutionOutcome
  /\ None \notin Operation

VARIABLES
  queue,      \* what the list in _queue holds
  kept,       \* what sort has taken out of it
  pulled,     \* _pulled
  completed,  \* _completed
  state,      \* operation -> its state
  outcome,    \* operation -> its outcome
  is_paused,  \* the runtime is paused
  loop,       \* where the event loop is
  hand,       \* the operation it moves
  mine,       \* it works for the request that is followed
  request,    \* the request's handler and the operation it names
  pc,         \* where the handler is
  cursor,     \* the next position of its iteration
  list,       \* the list it iterates, once _queue is another one
  current,    \* the operation it has read
  answer,     \* the status code of the response and what it shows
  steady,     \* history: active or archived since its lookup began
  waiting,    \* history: queued since its lookup began
  cancels,    \* history: operation -> cancellations that were confirmed
  rewritten   \* history: whose state or outcome an update wrote, since a
              \* cancellation set them

buckets == <<queue, kept, pulled, completed>>
execution == <<state, outcome, is_paused>>
work == <<loop, hand, mine>>
frame == <<request, cursor, list, current>>
handler == <<request, pc, cursor, list, current, answer>>
observed == <<steady, waiting>>
record == <<cancels, rewritten>>
vars == <<queue, kept, pulled, completed, state, outcome, is_paused, loop, hand,
          mine, request, pc, cursor, list, current, answer, steady, waiting,
          cancels, rewritten>>

Live == <<None>>  \* no list of its own: the iteration is over _queue's list

NoRequest == <<"none", None>>

NoAnswer == <<0, {}>>

(* "get" also stands for the events of an operation, which are read after  *)
(* the same lookup.                                                        *)
Lookups == {"get", "cancel", "update", "pause", "resume"}

Init ==
  /\ queue = <<>>
  /\ kept = <<>>
  /\ pulled = None
  /\ completed = {}
  /\ state = [o \in Operation |-> "QUEUED"]
  /\ outcome = [o \in Operation |-> "NONE"]
  /\ is_paused \in BOOLEAN
  /\ loop = "idle"
  /\ hand = None
  /\ mine = FALSE
  /\ request = NoRequest
  /\ pc = "idle"
  /\ cursor = 1
  /\ list = Live
  /\ current = None
  /\ answer = NoAnswer
  /\ steady = {}
  /\ waiting = {}
  /\ cancels = [o \in Operation |-> 0]
  /\ rewritten = {}

InQueue == ToSet(queue) \cup ToSet(kept)

Known == InQueue \cup completed \cup ({pulled, hand} \ {None})

Place(o) ==
  IF pulled = o THEN "active"
  ELSE IF o \in InQueue THEN "queued"
  ELSE IF o \in completed THEN "archived" ELSE "elsewhere"
-----------------------------------------------------------------------------
(* The handler ends or goes on.                                            *)

Ends(code, shown) ==
  /\ pc' = "answered"
  /\ answer' = <<code, shown>>

Goes(point) == pc' = point /\ UNCHANGED answer

(* What the loop returns to the handler that waits for it.                 *)
Replies(code, shown) ==
  IF mine THEN Ends(code, shown) ELSE UNCHANGED <<pc, answer>>

(* The loop takes a change, of the handler that waits or of another        *)
(* caller. pause and resume are for the operation the lookup returned.     *)
Takes(kind, o, forMe) ==
  /\ loop = "idle"
  /\ forMe => /\ pc = "asked"
              /\ request[1] = kind
              /\ o = IF kind \in {"pause", "resume"} THEN current ELSE request[2]

Begins(point, o, forMe) ==
  /\ loop' = point
  /\ hand' = o
  /\ mine' = forMe

LoopRests ==
  /\ loop' = "idle"
  /\ hand' = None
  /\ mine' = FALSE

(* A change that is over in one step, with its answer.                     *)
Done(forMe, code, shown) ==
  /\ IF forMe THEN Ends(code, shown) ELSE UNCHANGED <<pc, answer>>
  /\ UNCHANGED <<work, frame>>
-----------------------------------------------------------------------------
(* The loop's own work: start the head, record the end of the active one.  *)

TakeHead ==
  /\ loop = "idle"
  /\ ~is_paused
  /\ pulled = None
  /\ queue # <<>>
  /\ queue' = Tail(queue)
  /\ Begins("popped", Head(queue), FALSE)
  /\ UNCHANGED <<kept, pulled, completed, execution, handler, record>>

Assign ==
  /\ loop = "popped"
  /\ pulled' = hand
  /\ loop' = "pulled"
  /\ UNCHANGED <<queue, kept, completed, execution, hand, mine, handler, record>>

SetRunning ==
  /\ loop = "pulled"
  /\ state' = [state EXCEPT ![hand] = "RUNNING"]
  /\ LoopRests
  /\ UNCHANGED <<buckets, outcome, is_paused, handler, record>>

(* complete_operation and fail_operation set the state first and empty the *)
(* slot last.                                                              *)
Finish ==
  /\ loop = "idle"
  /\ pulled # None
  /\ \E result \in {"SUCCESS", "FAILURE"} :
       outcome' = [outcome EXCEPT ![pulled] = result]
  /\ state' = [state EXCEPT ![pulled] = "COMPLETED"]
  /\ Begins("finished", pulled, FALSE)
  /\ UNCHANGED <<buckets, is_paused, handler, record>>

Archive ==
  /\ loop \in {"finished", "removed"}
  /\ completed' = completed \cup {hand}
  /\ loop' = IF loop = "removed" THEN "cancelled" ELSE "archived"
  /\ UNCHANGED <<queue, kept, pulled, execution, hand, mine, handler, record>>

EmptySlot ==
  /\ loop \in {"archived", "withdrawn"}
  /\ pulled' = None
  /\ IF loop = "withdrawn" THEN loop' = "cancelled" /\ UNCHANGED <<hand, mine>>
                           ELSE LoopRests
  /\ UNCHANGED <<queue, kept, completed, execution, handler, record>>
-----------------------------------------------------------------------------
(* cancel, which sets the state last.                                      *)

CancelActive(o, forMe) ==
  /\ Takes("cancel", o, forMe)
  /\ pulled = o
  /\ completed' = completed \cup {o}
  /\ Begins("withdrawn", o, forMe)
  /\ UNCHANGED <<queue, kept, pulled, execution, handler, record>>

CancelQueued(o, forMe) ==
  /\ Takes("cancel", o, forMe)
  /\ pulled # o
  /\ \E i \in 1..Len(queue) : queue[i] = o /\ queue' = RemoveAt(queue, i)
  /\ Begins("removed", o, forMe)
  /\ UNCHANGED <<kept, pulled, completed, execution, handler, record>>

SetCancelled ==
  /\ loop = "cancelled"
  /\ state' = [state EXCEPT ![hand] = "COMPLETED"]
  /\ outcome' = [outcome EXCEPT ![hand] = "CANCELLED"]
  /\ cancels' = [cancels EXCEPT ![hand] = @ + 1]
  /\ rewritten' = rewritten \ {hand}
  /\ Replies(200, {hand})
  /\ LoopRests
  /\ UNCHANGED <<buckets, is_paused, frame>>

(* Denied, or archived since the handler looked. The mutant confirms the   *)
(* cancellation of an archived operation.                                  *)
ConfirmArchived(o, forMe) ==
  /\ Takes("cancel", o, forMe)
  /\ o \in completed
  /\ cancels' = [cancels EXCEPT ![o] = @ + 1]
  /\ Done(forMe, 200, {o})
  /\ UNCHANGED <<buckets, execution, rewritten>>

DenyCancel(o, forMe) ==
  /\ Takes("cancel", o, forMe)
  /\ Done(forMe, 409, {})
  /\ UNCHANGED <<buckets, execution, record>>
-----------------------------------------------------------------------------
(* add and update, which sort. A new list replaces the sorted one.         *)

AppendNew(o, forMe) ==
  /\ Takes("add", o, forMe)
  /\ o \notin Known
  /\ ~forMe => request # <<"add", o>>
  /\ queue' = Append(queue, o)
  /\ Begins("changed", o, forMe)
  /\ UNCHANGED <<kept, pulled, completed, execution, handler, record>>

(* The fields are written and everything is sorted again, also for an      *)
(* archived operation. No handler reads an outcome, so that both fields    *)
(* are written in one step hides nothing. The mutant adds what it has      *)
(* updated.                                                                *)
UpdateByAdding(o, forMe) ==
  /\ Takes("update", o, forMe)
  /\ o \in Known
  /\ ~(pulled = o /\ state[o] = "RUNNING")
  /\ queue' = Append(queue, o)
  /\ Begins("changed", o, forMe)
  /\ UNCHANGED <<kept, pulled, completed, execution, handler, record>>

Update(o, forMe) ==
  /\ Takes("update", o, forMe)
  /\ o \in Known
  /\ ~(pulled = o /\ state[o] = "RUNNING")
  /\ state' \in {state} \cup {[state EXCEPT ![o] = s] : s \in NewState}
  /\ outcome' \in {outcome} \cup {[outcome EXCEPT ![o] = r] : r \in NewOutcome}
  /\ rewritten' = IF UNCHANGED <<state, outcome>> THEN rewritten ELSE rewritten \cup {o}
  /\ Begins("changed", o, forMe)
  /\ UNCHANGED <<buckets, is_paused, handler, cancels>>

(* An update of no field is over before any of that is looked at.          *)
UpdateNothing(o, forMe) ==
  /\ Takes("update", o, forMe)
  /\ o \in Known
  /\ Done(forMe, 200, {o})
  /\ UNCHANGED <<buckets, execution, record>>

(* Unknown by now, running by now, or not a field that may be updated.     *)
RefuseUpdate(o, forMe) ==
  /\ Takes("update", o, forMe)
  /\ \E code \in {400, 404, 409} :
       /\ code = 404 => o \notin Known
       /\ code = 409 => pulled = o /\ state[o] = "RUNNING"
       /\ Done(forMe, code, {})
  /\ UNCHANGED <<buckets, execution, record>>

BeginSort ==
  /\ loop = "changed"
  /\ kept' = queue
  /\ queue' = <<>>
  /\ loop' = "sorting"
  /\ UNCHANGED <<pulled, completed, execution, hand, mine, handler, record>>

EndSort ==
  /\ loop = "sorting"
  /\ \E sorted \in [1..Len(kept) -> ToSet(kept)] :
       /\ \A i, j \in 1..Len(kept) : i < j => sorted[i] < sorted[j]
       /\ ToSet(sorted) = ToSet(kept)
       /\ queue' = sorted
  /\ kept' = <<>>
  /\ loop' = "sorted"
  /\ UNCHANGED <<pulled, completed, execution, hand, mine, handler, record>>

(* An iteration goes on over the list it began with.                       *)
ReplaceList ==
  /\ loop = "sorted"
  /\ list' = IF pc = "scanning" /\ list = Live /\ Len(queue) > 1
             THEN queue ELSE list
  /\ Replies(IF request[1] = "add" THEN 201 ELSE 200, {hand})
  /\ LoopRests
  /\ UNCHANGED <<buckets, execution, request, cursor, current, record>>
-----------------------------------------------------------------------------
(* pause and resume, of an operation and of the runtime.                   *)

From(kind) == IF kind = "pause" THEN "RUNNING" ELSE "PAUSED"

To(kind) == IF kind = "pause" THEN "PAUSED" ELSE "RUNNING"

(* The handler looks the operation up again before it answers.             *)
Switch(kind, o, forMe) ==
  /\ Takes(kind, o, forMe)
  /\ pulled = o
  /\ state[o] = From(kind)
  /\ state' = [state EXCEPT ![o] = To(kind)]
  /\ IF forMe THEN pc' = "begin" ELSE UNCHANGED pc
  /\ UNCHANGED <<buckets, outcome, is_paused, work, frame, answer, record>>

(* Denied, or a RuntimeError is raised in the loop and again in the        *)
(* handler. The mutant reports only what was decided, not what was raised. *)
RefuseSwitchIfCurrent(kind, o, forMe) ==
  /\ pulled = o
  /\ Takes(kind, o, forMe)
  /\ Done(forMe, 409, {})
  /\ UNCHANGED <<buckets, execution, record>>

RefuseSwitch(kind, o, forMe) ==
  /\ Takes(kind, o, forMe)
  /\ Done(forMe, 409, {})
  /\ UNCHANGED <<buckets, execution, record>>

PauseRuntime(forMe) ==
  /\ Takes("pause_runtime", None, forMe)
  /\ is_paused' = TRUE
  /\ state' = [o \in Operation |-> IF o = pulled THEN "PAUSED" ELSE state[o]]
  /\ Done(forMe, 200, {})
  /\ UNCHANGED <<buckets, outcome, record>>

ResumeRuntime(forMe) ==
  /\ Takes("resume_runtime", None, forMe)
  /\ is_paused' = FALSE
  /\ Done(forMe, 200, {})
  /\ UNCHANGED <<buckets, state, outcome, record>>
-----------------------------------------------------------------------------
(* The handlers.                                                           *)

(* An operation to add has a new id.                                       *)
Receive(kind, o) ==
  /\ pc = "idle"
  /\ kind = "add" => o \notin Known
  /\ request' = <<kind, o>>
  /\ Goes(CASE kind \in Lookups -> "begin"
            [] kind \in {"list", "current"} -> "listing"
            [] kind = "add" -> "asked"
            [] OTHER -> "checking")
  /\ UNCHANGED <<cursor, list, current>>

(* A malformed body, id or query is refused before anything is read.       *)
RefuseRequest ==
  /\ pc = "idle"
  /\ Ends(400, {})
  /\ UNCHANGED frame

(* get, line by line: is anything pulled, is it this one, return it.       *)
ReadSlot ==
  /\ pc = "begin"
  /\ Goes(IF pulled = None THEN "scanning" ELSE "comparing")
  /\ UNCHANGED frame

CompareSlot ==
  /\ pc = "comparing"
  /\ IF pulled = None THEN Ends(500, {})
     ELSE Goes(IF pulled = request[2] THEN "returning" ELSE "scanning")
  /\ UNCHANGED frame

Iterated == IF list = Live THEN queue ELSE list

(* What the handler does with the operation its lookup returned. pause and *)
(* resume keep it, and look up a second time for their answer.             *)
Found(o) ==
  LET kind == request[1] IN
  /\ IF kind = "get" \/ current # None THEN Ends(200, {o})
     ELSE IF kind \in {"pause", "resume"} => state[o] = From(kind) THEN Goes("asked")
     ELSE Ends(409, {})
  /\ current' = IF kind \in {"pause", "resume"} THEN o ELSE None

Missing ==
  /\ Ends(404, {})
  /\ UNCHANGED current

Returned == cursor' = 1 /\ list' = Live /\ UNCHANGED request

ReturnSlot ==
  /\ pc = "returning"
  /\ IF pulled = None THEN Missing ELSE Found(pulled)
  /\ Returned

ScanNext ==
  /\ pc = "scanning"
  /\ cursor <= Len(Iterated)
  /\ IF Iterated[cursor] = request[2]
     THEN Found(request[2]) /\ Returned
     ELSE cursor' = cursor + 1 /\ UNCHANGED <<request, pc, list, current, answer>>

(* The queue is exhausted. One mutant does not look further.               *)
SearchNoFurther ==
  /\ pc = "scanning"
  /\ cursor > Len(Iterated)
  /\ Missing
  /\ Returned

SearchArchive ==
  /\ pc = "scanning"
  /\ cursor > Len(Iterated)
  /\ IF request[2] \in completed THEN Found(request[2]) ELSE Missing
  /\ Returned

(* list_operations_response: the slot, then a copy of the queue, without   *)
(* what is completed by then. get_current_operation_response begins alike. *)
ListSlot ==
  /\ pc = "listing"
  /\ current' = pulled
  /\ Goes(IF request[1] = "list" THEN "copying" ELSE "showing")
  /\ UNCHANGED <<request, cursor, list>>

(* get_current_operation_response: the state is read after the slot.       *)
ShowCurrent ==
  /\ pc = "showing"
  /\ LET running == {o \in {current} \ {None} : state[o] = "RUNNING"} IN
       Ends(IF running = {} THEN 404 ELSE 200, running)
  /\ UNCHANGED frame

ListQueue ==
  /\ pc = "copying"
  /\ Ends(200, {o \in ({current} \ {None}) \cup ToSet(queue) : state[o] # "COMPLETED"})
  /\ UNCHANGED frame

(* The MCP tools compare is_paused before they ask for a change.           *)
CheckPaused ==
  /\ pc = "checking"
  /\ IF is_paused = (request[1] = "pause_runtime") THEN Ends(200, {}) ELSE Goes("asked")
  /\ UNCHANGED frame

Respond ==
  /\ pc = "answered"
  /\ pc' = "idle"
  /\ request' = NoRequest
  /\ answer' = NoAnswer
  /\ current' = None
  /\ UNCHANGED <<cursor, list>>
-----------------------------------------------------------------------------
Lookup == ReadSlot \/ CompareSlot \/ ReturnSlot \/ ScanNext \/ SearchArchive

HandlerStep ==
  /\ Lookup \/ ListSlot \/ ListQueue \/ ShowCurrent \/ CheckPaused \/ Respond
  /\ UNCHANGED <<buckets, execution, work, record>>

NewRequest ==
  /\ \/ RefuseRequest
     \/ \E o \in Operation, kind \in Lookups \cup {"add"} : Receive(kind, o)
     \/ \E kind \in {"list", "current", "pause_runtime", "resume_runtime"} : Receive(kind, None)
  /\ UNCHANGED <<buckets, execution, work, record>>

LoopStep ==
  Assign \/ SetRunning \/ Archive \/ EmptySlot \/ SetCancelled
  \/ BeginSort \/ EndSort \/ ReplaceList

Serve(forMe) ==
  \/ \E o \in Operation :
       \/ CancelActive(o, forMe) \/ CancelQueued(o, forMe) \/ DenyCancel(o, forMe)
       \/ AppendNew(o, forMe)
       \/ Update(o, forMe) \/ UpdateNothing(o, forMe) \/ RefuseUpdate(o, forMe)
       \/ \E kind \in {"pause", "resume"} :
            Switch(kind, o, forMe) \/ RefuseSwitch(kind, o, forMe)
  \/ PauseRuntime(forMe)
  \/ ResumeRuntime(forMe)

(* What has stayed where it is since the lookup, or the list, began.       *)
Observe ==
  IF pc' \in {"begin", "listing"} /\ pc' # pc
  THEN /\ steady' = {o \in Operation : Place(o)' \in {"active", "archived"}}
       /\ waiting' = {o \in Operation : Place(o)' = "queued"}
  ELSE /\ steady' = {o \in steady : Place(o)' = Place(o)}
       /\ waiting' = {o \in waiting : Place(o)' = Place(o)}

Next ==
  /\ \/ TakeHead \/ Finish \/ LoopStep
     \/ \E forMe \in BOOLEAN : Serve(forMe)
     \/ NewRequest
     \/ HandlerStep
  /\ Observe

Spec == Init /\ [][Next]_vars

(* The loop ends what it has begun and takes what was handed to it in      *)
(* order; a handler's thread is scheduled.                                 *)
Fairness ==
  /\ WF_vars(LoopStep /\ Observe)
  /\ SF_vars(Serve(TRUE) /\ Observe)
  /\ WF_vars(HandlerStep /\ Observe)

FairSpec == Spec /\ Fairness
-----------------------------------------------------------------------------
TypeOK ==
  /\ queue \in Seq(Operation)
  /\ kept \in Seq(Operation)
  /\ IsInjective(queue \o kept)
  /\ pulled \in Operation \cup {None}
  /\ completed \subseteq Operation
  /\ state \in [Operation -> ExecutionState]
  /\ outcome \in [Operation -> ExecutionOutcome]
  /\ is_paused \in BOOLEAN
  /\ hand \in Operation \cup {None}
  /\ mine \in BOOLEAN
  /\ loop = "idle" <=> hand = None
  /\ cursor \in Nat \ {0}
  /\ current \in Operation \cup {None}
  /\ answer[1] \in {0, 200, 201, 400, 404, 409, 500}
  /\ answer[2] \subseteq Operation
  /\ rewritten \subseteq Operation

(* An operation that is active all through a lookup is found by it, and    *)
(* one that is archived all through is never said to be unknown, whatever  *)
(* the loop does to the others meanwhile; but its lookup may fail, when    *)
(* the slot is emptied between the two reads of it                         *)
(* (dispatch_queue.py:92-105). An active operation is listed, unless an    *)
(* update wrote its state or outcome                                       *)
(* (operation_dispatcher_openapi.py:113-158).                              *)
SteadyIsNotMissed ==
  pc = "answered" =>
    /\ request[2] \in steady =>
         /\ answer[1] # 404
         /\ answer[1] = 500 => Place(request[2]) = "archived"
         /\ request[1] = "get" => answer[1] = 500 \/ answer = <<200, {request[2]}>>
    /\ request[1] = "list" =>
         \A o \in steady \ rewritten :
           Place(o) = "active" /\ state[o] # "COMPLETED" => o \in answer[2]

(* A cancellation is confirmed once, to one caller, and what was confirmed *)
(* as cancelled is archived, as cancelled unless an update wrote something *)
(* else to it afterwards (operation_dispatcher_openapi.py:399-421).        *)
CancelledOnce ==
  \A o \in Operation :
    /\ cancels[o] <= 1
    /\ cancels[o] = 1 => /\ Place(o) = "archived"
                         /\ outcome[o] = "CANCELLED" \/ o \in rewritten

(* Every request is answered, also one whose change raises in the loop     *)
(* (mutation_service.py:34-48).                                            *)
RequestsAreAnswered == pc # "idle" ~> pc = "answered"

(* The docstring of get: it finds pending operations too                   *)
(* (dispatch_queue.py:94).                                                 *)
QueuedIsFound == pc = "answered" /\ answer[1] = 404 => request[2] \notin waiting
=============================================================================
