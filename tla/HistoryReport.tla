----------------------------- MODULE HistoryReport -----------------------------
(***************************************************************************)
(* The event history and what is read off it: the slice get_history        *)
(* returns, the times HistoryAnalyzer reports and the bars of the Gantt    *)
(* chart. A dispatcher that emits its events as time passes supplies the   *)
(* histories, and past is the truth they are compared with.                *)
(*                                                                         *)
(* Time is counted in ticks. Any number of events may fall into one; their *)
(* times differ by less than a tick, so sorting by them gives the order in *)
(* which they were emitted. Of the handlers (module OperationDispatcher)   *)
(* only what they emit, and the fields the reports read, are here.         *)
(***************************************************************************)
EXTENDS SequencesExt, Integers

CONSTANTS
  Operation,
  None,
  EventHistoryLimit,  \* event_history_limit
  DefaultDuration,    \* _DEFAULT_DURATION_SECONDS
  NewState,           \* the states and times an update may write
  NewTime,
  MaxTime,            \* bound: the ticks of one behaviour
  MaxEmitted          \* bound: the events of one behaviour

ASSUME HistoryAssumption ==
  /\ {EventHistoryLimit, DefaultDuration} \subseteq Nat \ {0}
  /\ {MaxTime, MaxEmitted} \subseteq Nat
  /\ NewState \subseteq {"QUEUED", "RUNNING", "PAUSED", "COMPLETED"}
  /\ NewTime \subseteq Nat \cup {None}
  /\ None \notin Nat

VARIABLES
  now,
  event_history,
  emitted,     \* events emitted so far
  is_running,
  is_paused,
  operations,  \* the operations added so far, with the fields of their records
  past,        \* history: what held in each tick that has passed
  off_duty,    \* history: paused or resumed while not running
  rewritten    \* history: the operations whose state or start an update changed

runtime == <<is_running, is_paused>>
history == <<past, off_duty, rewritten>>
vars == <<now, event_history, emitted, runtime, operations, history>>

Known == DOMAIN operations

Active == {o \in Known : operations[o].bucket = "active"}

(* start_paused begins in the paused state, without an event.              *)
Init ==
  /\ now = 0
  /\ event_history = <<>>
  /\ emitted = 0
  /\ is_running = FALSE
  /\ is_paused \in BOOLEAN
  /\ operations = <<>>
  /\ past = <<>>
  /\ off_duty = FALSE
  /\ rewritten = {}

(* append_event_history, for one event or two.                             *)
LastOf(s, n) == SubSeq(s, IF Len(s) > n THEN Len(s) - n + 1 ELSE 1, Len(s))

Emit(types, o) ==
  /\ emitted + Len(types) <= MaxEmitted
  /\ emitted' = emitted + Len(types)
  /\ event_history' =
       LastOf(event_history \o [i \in DOMAIN types |->
                                  [type |-> types[i], operation |-> o, at |-> now]],
              EventHistoryLimit)

Records(o, record) ==
  operations' = [p \in Known \cup {o} |-> IF p = o THEN record ELSE operations[p]]
-----------------------------------------------------------------------------
(* The dispatcher.                                                         *)

Run ==
  /\ ~is_running
  /\ is_running' = TRUE
  /\ Emit(IF is_paused THEN <<"DISPATCHER_STARTED", "DISPATCHER_PAUSED">>
                       ELSE <<"DISPATCHER_STARTED">>, None)
  /\ UNCHANGED <<now, is_paused, operations, history>>

RunEnds ==
  /\ is_running
  /\ is_running' = FALSE
  /\ Emit(<<"DISPATCHER_STOPPED">>, None)
  /\ UNCHANGED <<now, is_paused, operations, history>>

(* Also by denials, so also when it is paused. The active operation is     *)
(* paused with it, without an event of its own.                            *)
PauseDispatcher ==
  /\ is_paused' = TRUE
  /\ operations' = [o \in Known |->
                      IF o \in Active THEN [operations[o] EXCEPT !.state = "PAUSED"]
                                      ELSE operations[o]]
  /\ off_duty' = (off_duty \/ ~is_running)
  /\ Emit(<<"DISPATCHER_PAUSED">>, None)
  /\ UNCHANGED <<now, is_running, past, rewritten>>

(* The handler does not ask whether the dispatcher is paused.              *)
ResumeDispatcher ==
  /\ is_paused' = FALSE
  /\ off_duty' = (off_duty \/ ~is_running)
  /\ Emit(<<"DISPATCHER_RESUMED">>, None)
  /\ UNCHANGED <<now, is_running, operations, past, rewritten>>

AddOperation(o) ==
  /\ o \notin Known
  /\ Records(o, [bucket |-> "queued", state |-> "QUEUED", created_at |-> now,
                 start_time |-> None, finish_time |-> None])
  /\ Emit(<<"OPERATION_ADDED">>, o)
  /\ UNCHANGED <<now, runtime, history>>

StartOperation(o) ==
  /\ is_running
  /\ ~is_paused
  /\ Active = {}
  /\ o \in Known
  /\ operations[o].bucket = "queued"
  /\ Records(o, [operations[o] EXCEPT !.bucket = "active", !.state = "RUNNING",
                                      !.start_time = IF @ = None THEN now ELSE @])
  /\ Emit(<<"OPERATION_STARTED">>, o)
  /\ UNCHANGED <<now, runtime, history>>

(* With enforce_running_state and enforce_paused_state off, in any state.  *)
PauseOperation(o) ==
  /\ o \in Active
  /\ Records(o, [operations[o] EXCEPT !.state = "PAUSED"])
  /\ Emit(<<"OPERATION_PAUSED">>, o)
  /\ UNCHANGED <<now, runtime, history>>

ResumeOperation(o) ==
  /\ o \in Active
  /\ Records(o, [operations[o] EXCEPT !.state = "RUNNING"])
  /\ Emit(<<"OPERATION_RESUMED">>, o)
  /\ UNCHANGED <<now, runtime, history>>

(* Completed, failed or, perhaps never started, cancelled.                 *)
FinishOperation(o) ==
  /\ o \in Known
  /\ operations[o].bucket # "completed"
  /\ Records(o, [operations[o] EXCEPT !.bucket = "completed", !.state = "COMPLETED",
                                      !.finish_time = now])
  /\ Emit(<<"OPERATION_FINISHED">>, o)
  /\ UNCHANGED <<now, runtime, history>>

(* An update writes state, start_time and finish_time of any operation     *)
(* that does not run, also of an archived one. It moves none to another    *)
(* bucket.                                                                 *)
UpdateOperation(o) ==
  /\ o \in Known
  /\ ~ (o \in Active /\ operations[o].state = "RUNNING")
  /\ \E state \in NewState \cup {operations[o].state},
        start \in NewTime \cup {operations[o].start_time},
        finish \in NewTime \cup {operations[o].finish_time} :
       /\ Records(o, [operations[o] EXCEPT !.state = state, !.start_time = start,
                                           !.finish_time = finish])
       /\ operations' # operations
       /\ rewritten' = IF state = operations[o].state /\ start = operations[o].start_time
                       THEN rewritten ELSE rewritten \cup {o}
  /\ Emit(<<"OPERATION_OTHER">>, o)
  /\ UNCHANGED <<now, runtime, past, off_duty>>

(* A request, its denial, an update of other fields: an event that changes *)
(* nothing read here.                                                      *)
OtherEvent(o) ==
  /\ o \in Known
  /\ Emit(<<"OPERATION_OTHER">>, o)
  /\ UNCHANGED <<now, runtime, operations, history>>

Tick ==
  /\ now < MaxTime
  /\ now' = now + 1
  /\ past' = Append(past, [running |-> is_running, paused |-> is_paused,
                           suspended |-> {o \in Active : operations[o].state = "PAUSED"}])
  /\ UNCHANGED <<event_history, emitted, runtime, operations, off_duty, rewritten>>

Next ==
  \/ Run \/ RunEnds \/ PauseDispatcher \/ ResumeDispatcher
  \/ \E o \in Operation :
       \/ AddOperation(o) \/ StartOperation(o) \/ FinishOperation(o)
       \/ PauseOperation(o) \/ ResumeOperation(o)
       \/ UpdateOperation(o) \/ OtherEvent(o)
  \/ Tick

Spec == Init /\ [][Next]_vars
-----------------------------------------------------------------------------
(* get_history, with None for a bound that is not given, and the model     *)
(* History with its window.                                                *)

Selected(from, to, limit) ==
  LET Within(e) == (from # None => e.at >= from) /\ (to # None => e.at <= to)
      within == FoldLeft(LAMBDA kept, e : IF Within(e) THEN Append(kept, e) ELSE kept,
                         <<>>, event_history)
  IN [start |-> from, end |-> to,
      events |-> IF limit = None THEN within ELSE LastOf(within, limit)]

GetStart(h) ==
  IF h.start # None THEN h.start
  ELSE IF h.events # <<>> THEN Head(h.events).at ELSE None

GetEnd(h) ==
  IF h.end # None THEN h.end
  ELSE IF h.events # <<>> THEN Last(h.events).at ELSE None
-----------------------------------------------------------------------------
(* HistoryAnalyzer: the time between the events that switch something on   *)
(* and those that switch it off. The mutants forget what was on before the *)
(* first event, and count from the last switch instead of the first.       *)

Interval(since, until) == IF since # None /\ until > since THEN until - since ELSE 0

BeforeTheFirst(h, first, off) == None

OnSince(h, first, off) == IF first.type = off THEN GetStart(h) ELSE None

SwitchedOnAgain(since, at) == at

SwitchedOn(since, at) == IF since = None THEN at ELSE since

TimeBetween(h, on, off) ==
  LET relevant == {i \in DOMAIN h.events : h.events[i].type \in {on, off}}
      Count(sum, e) ==
        CASE e.type = on -> [sum EXCEPT !.since = SwitchedOn(@, e.at)]
          [] e.type = off -> [since |-> None,
                              seconds |-> sum.seconds + Interval(sum.since, e.at)]
          [] OTHER -> sum
      since == OnSince(h, h.events[Min(relevant)], off)
      total == FoldLeft(Count, [since |-> since, seconds |-> 0], h.events)
  IN IF relevant = {} THEN None
     ELSE total.seconds + Interval(total.since, GetEnd(h))

Uptime(h) == TimeBetween(h, "DISPATCHER_STARTED", "DISPATCHER_STOPPED")

PausedTime(h) == TimeBetween(h, "DISPATCHER_PAUSED", "DISPATCHER_RESUMED")
-----------------------------------------------------------------------------
(* The Gantt chart. A row is a bar with its status.                        *)

Row(start, finish, status) == [start |-> start, finish |-> finish, status |-> status]

RowIf(start, finish, status) ==
  IF start # None /\ finish > start THEN <<Row(start, finish, status)>> ELSE <<>>

(* _operation_pause_intervals. The mutant does not pop the pause's start.  *)
ResumeAndKeep(open) == open

ResumeAndPop(open) == None

PauseIntervals(h, o) ==
  LET Pair(acc, e) ==
        IF e.operation # o THEN acc
        ELSE IF e.type = "OPERATION_PAUSED" THEN [acc EXCEPT !.open = e.at]
        ELSE IF e.type = "OPERATION_RESUMED"
        THEN [open |-> ResumeAndPop(acc.open),
              intervals |-> acc.intervals \o RowIf(acc.open, e.at, "PAUSED")]
        ELSE acc
  IN FoldLeft(Pair, [open |-> None, intervals |-> <<>>], h.events).intervals

(* The planned duration is taken to be the default one.                    *)
OperationWindow(record) ==
  LET start == IF record.start_time # None THEN record.start_time ELSE record.created_at
      finish == record.finish_time
  IN <<start, IF finish # None /\ finish > start THEN finish ELSE start + DefaultDuration>>

OperationRows(h, o) ==
  LET window == OperationWindow(operations[o])
      Place(acc, pause) ==
        [cursor |-> IF pause.finish > acc.cursor THEN pause.finish ELSE acc.cursor,
         rows |-> acc.rows \o RowIf(acc.cursor, pause.start, "OPERATION") \o <<pause>>]
      placed == FoldLeft(Place, [cursor |-> window[1], rows |-> <<>>], PauseIntervals(h, o))
  IN placed.rows \o RowIf(placed.cursor, window[2], "OPERATION")

(* _dispatcher_chart_rows: each event ends the open bar and may begin one. *)
Idle == [running |-> None, paused |-> None]

(* A stop draws the open bar; the mutant leaves it open.                   *)
StopKeepsOpen(open) == open

StopClosesOpen(open) == Idle

OpenBars(open, e) ==
  CASE e.type = "DISPATCHER_STARTED" -> [running |-> e.at, paused |-> None]
    [] e.type = "DISPATCHER_PAUSED" -> [running |-> None, paused |-> e.at]
    [] e.type = "DISPATCHER_RESUMED" -> [running |-> e.at, paused |-> None]
    [] e.type = "DISPATCHER_STOPPED" -> StopClosesOpen(open)
    [] OTHER -> open

ClosedBars(open, type, at) ==
  LET running == RowIf(open.running, at, "DISPATCHER_RUNNING")
      paused == RowIf(open.paused, at, "DISPATCHER_PAUSED")
  IN CASE type = "DISPATCHER_PAUSED" -> running
       [] type = "DISPATCHER_RESUMED" -> paused
       [] type \in {"DISPATCHER_STOPPED", "END"} -> IF running # <<>> THEN running ELSE paused
       [] OTHER -> <<>>

DispatcherRows(h) ==
  LET Draw(acc, e) == [open |-> OpenBars(acc.open, e),
                       rows |-> acc.rows \o ClosedBars(acc.open, e.type, e.at)]
      drawn == FoldLeft(Draw, [open |-> Idle, rows |-> <<>>], h.events)
  IN IF h.end = None THEN drawn.rows
     ELSE drawn.rows \o ClosedBars(drawn.open, "END", h.end)
-----------------------------------------------------------------------------
Bound == 0..now \cup {None}

Window == {w \in Bound \X Bound : w[1] # None /\ w[2] # None => w[1] <= w[2]}

Limit == {None, 2}

(* The ticks between two times.                                            *)
Ticks(start, finish) == start + 1 .. finish

(* No event of the history has been cut off.                               *)
Complete == emitted = Len(event_history)

(* The reported uptime, if there is one, is the time the dispatcher ran in *)
(* the window, also when the history begins in the middle of a run; only a *)
(* cut inside a window with a start of its own may spoil it                *)
(* (history_analyzer.py:14-70, history_service.py:60-97).                  *)
UptimeIsExact ==
  \A w \in Window, limit \in Limit :
    LET h == Selected(w[1], w[2], limit)
        uptime == Uptime(h)
    IN (w[1] = None \/ (Complete /\ limit = None)) /\ uptime # None =>
         uptime = Cardinality({t \in Ticks(GetStart(h), GetEnd(h)) : past[t].running})

(* The analyzer takes the dispatcher to have been paused before the first  *)
(* pause or resume of h if that is a resume, and not paused otherwise.     *)
GuessesRight(h) ==
  LET switches == {i \in DOMAIN h.events :
                     h.events[i].type \in {"DISPATCHER_PAUSED", "DISPATCHER_RESUMED"}}
      first == h.events[Min(switches)]
  IN \A t \in Ticks(GetStart(h), first.at) :
       past[t].paused = (first.type = "DISPATCHER_RESUMED")

(* Where that guess is right the reported paused time is the time the      *)
(* dispatcher was paused in the window, also when it was paused while      *)
(* paused, resumed while not paused, or cut off at either end              *)
(* (history_analyzer.py:72-120).                                           *)
PausedTimeIsExact ==
  \A w \in Window, limit \in Limit :
    LET h == Selected(w[1], w[2], limit)
        paused == PausedTime(h)
    IN paused # None /\ GuessesRight(h) =>
         paused = Cardinality({t \in Ticks(GetStart(h), GetEnd(h)) : past[t].paused})

(* The bars of an operation whose state and start no update changed follow *)
(* each other without gap or overlap from its start, whatever part of its  *)
(* events the history holds, and a bar marked paused covers only time in   *)
(* which it was (visualize_history.py:74-163).                             *)
RowsTile ==
  \A w \in Window, limit \in Limit, o \in Known \ rewritten :
    LET rows == OperationRows(Selected(w[1], w[2], limit), o) IN
      /\ rows # <<>> /\ rows[1].start = OperationWindow(operations[o])[1]
      /\ \A i \in 1..Len(rows) - 1 : rows[i + 1].start = rows[i].finish
      /\ \A i \in DOMAIN rows : rows[i].status = "PAUSED" =>
           \A t \in Ticks(rows[i].start, rows[i].finish) : o \in past[t].suspended

(* The dispatcher's bars show what it did, from any part of its events, if *)
(* it was only paused and resumed while running                            *)
(* (visualize_history.py:166-256).                                         *)
DispatcherRowsAreTrue ==
  \A w \in Window, limit \in Limit :
    LET rows == DispatcherRows(Selected(w[1], w[2], limit)) IN
      ~off_duty =>
        \A i \in DOMAIN rows : \A t \in Ticks(rows[i].start, rows[i].finish) :
          past[t].running /\ past[t].paused = (rows[i].status = "DISPATCHER_PAUSED")
=============================================================================
