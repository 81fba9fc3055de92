# A TLA+ specification of Operation Dispatcher

Operation Dispatcher queues the operations of one resource, starts them one at a time after the application approved each start, and follows them until they are completed, failed or cancelled.
This directory holds its specification, the TLC configurations that check it on small instances, and machine-checked proofs of its main safety properties for every instance.
Paths in this file are relative to `src/operation_dispatcher/` of the repository; `README.md:n` is the repository's own README, `examples/` its directory of examples.

## The system

| Component | State | Operations | Modelled in |
| --- | --- | --- | --- |
| `DispatchQueue` (`dispatch_queue.py`) | the queued list, the pulled operation, the completed list | `add`, `resort`, `next`, `complete`, `remove`, `cancel`, `clear`, `clear_history`, lookups | `DispatchOrder`, `DependencySort`, `DispatchQueue`; as other threads see it, `DispatcherAPI` |
| `OperationLifecycleService` | state and outcome of every operation | add, complete, fail, pause, resume, cancel, update | `OperationDispatcher` |
| `DispatcherRuntimeService` | `is_paused`, `stop_requested`, the loop and its wakeup event | `step_dispatch`, `run`, pause, resume, `request_stop` | `OperationDispatcher` |
| `RequestHandler`, `RetryPolicy` | denial counts and cooldowns per request type and operation | approval requests, awaited or blocking, with timeouts | `OperationDispatcher`, the callbacks' threads in `SimulatedApplication` |
| `DispatcherEventService`, history service | the bounded list of events | `emit_event`, `get_history` | `OperationDispatcher` (the wakeup), `HistoryReport` (the list) |
| `DispatcherMutationService` | none of its own | `execute`: run a handler on the loop's thread | `RuntimeController` |
| `OperationDispatcherRuntimeController` | the runtime thread, its last error | start, stop, pause, resume | `RuntimeController` |
| `SimulatedOperationRunner` | the simulated operation, its worker thread, two events | start, pause, resume, cancel | `SimulatedRunner`, `SimulatedApplication` |
| `BrowserEventVisualizer` | a ring of events, the subscribers, the server | start, stop, publish, serve a stream; the page's script | `EventVisualizer` |
| `HistoryAnalyzer`, Plotly charts | none, functions of a `History` | uptime, paused time; the bars of operations and dispatcher | `HistoryReport` |
| Flask and MCP interfaces | none | one handler per route or tool | `DispatcherAPI` |
| `NotificationHandler` | none | `notify` | not modelled |
| Change tracker, sample data | none | | not modelled |

### How they interact

The facade `OperationDispatcher` wires the services around one `DispatcherStateStore`.
Every mutation goes through `DispatcherMutationService.execute`, which runs it at once when no loop runs or when it is called on the loop's thread, and otherwise hands it to the loop and waits.
So the mutations of a running dispatcher are handlers of one event loop, atomic between two awaits - for each other. Lookups do not go through it: the threads of the HTTP server, of the MCP server and of the callbacks read the queue's lists while the loop changes them.
There is exactly one await inside a handler: `step_dispatch` awaits the application's answer to a start request (`runtime_service.py:109`), and anything may happen meanwhile.
Cancel, pause and resume requests block the loop until the callback answered (`request_handler.py:371`). A callback runs in a thread of its own and outlives a request that timed out.
Every event that is emitted is appended to the bounded history and ends in `notify_wakeup`, which schedules `wakeup_event.set`; `run` waits for that event, with a timeout when only a date or a cooldown holds the queue head up.
In the examples the callback drives a `SimulatedOperationRunner`, whose worker reports completions back through the dispatcher, and every request and notification is published to a `BrowserEventVisualizer`.

### What is hard

* **The await in `step_dispatch`.** What was true before the answer - the head of the queue, idle, unpaused, not stopping, the operation still known - need not be true after it. Several coroutines may be in `step_dispatch` at once.
* **Late denials.** A denial can arrive for an operation that was cancelled meanwhile; it still counts and may pause the dispatcher and mark whichever operation is active.
* **Wakeups.** The event is set by a scheduled callback and cleared by the waiter after it woke; a wakeup swallowed or forgotten stops dispatching for good.
* **Order without sorting.** `next`, `remove` and `cancel` take entries out of a sorted list and do not sort again.
* **Two records of one fact.** An operation's `state` and `outcome` are set separately from its move between buckets; the dispatcher and the runner each know what is active.
* **Threads.** Other threads start and stop the dispatcher and hand it mutations while its loop comes up, returns, runs out and is closed; they look operations up while the loop moves them; callbacks that outlived their request share the runner with the next one, and the loop, a callback and a worker can each wait for the next.
* **Partial histories.** The event list is cut at its limit and selected by window and count, and the reports reconstruct runs, pauses and bars from whatever part is left.

`PROJECT.json` lists the hazards one by one, at their lines, with the properties that cover them.

### What makes each component correct

* The queue: an operation is in one bucket; providers before dependents; otherwise the order of the sort rules.
* The lifecycle: the fields of an operation agree with its bucket; it lives once and gets one outcome.
* The runtime: one active operation; nothing starts while paused; work is asked for; a stop ends the loop.
* Requests and retries: at most the limit of denials before the dispatcher pauses; what is started was approved.
* The controller and the mutation service: one run at a time; a stop reaches the run it was meant for; no caller hangs on a loop that ends.
* The runner: each start is reported or cancelled once; it simulates exactly what the dispatcher holds active, unless a timeout or a race set them apart; every callback returns.
* The visualizer: a stream has no gap; nobody stays subscribed to a stopped server; the page shows what the ring holds.
* The reports: uptime and paused time are the times the dispatcher ran and was paused; bars tile an operation's life and tell the truth.
* The interfaces: a lookup does not miss what is there all the time; a cancellation is confirmed once; every request is answered.

## The modules

`DispatchOrder` states what a sort leaves behind as a relation between the list before and after: a stable sort by key, then greedy layers of the dependency graph with the position as tie-breaker, or the sorted order when the graph has a cycle.
The tuple of sort-rule components is its rank, a number.

`DependencySort` is the loop of `_apply_dependency_order`, one step per `heappop`, with the counters and the ready heap as state. It is checked, and proved, to compute the relation of `DispatchOrder`; so the other modules may use the relation.

`DispatchQueue` has the three buckets as variables (`queue`, `pulled`, `completed`) and the two attributes the sort reads (`key`, `dependencies`). Each method is an operator that says what becomes of the buckets (`Add`, `Resort`, `Pull`, `ArchivePulled`, `RemoveQueued`, `ArchiveQueued`, `CancelHeld`). `QueueSpec` drives them as a user of the class would.

`OperationDispatcher` extends it with the services. A request type is a string, a retry key a pair of it and an operation, a release date or a cooldown is whether it lies in the future (`held`, `cooling`). `asked[s]` is the operation whose start request coroutine `s` awaits; the coroutine `"run"` is the loop. `runtime` says where `run` is suspended, and `wakeup_pending`, `wakeup_event` are the scheduled and the delivered half of a wakeup. A handler is one action:

| Action | Code |
| --- | --- |
| `AddOperation`, `CompleteOperation`, `FailOperation`, `PauseOperation`, `ResumeOperation`, `CancelOperation`, `UpdateOperation` | the methods of `operation_lifecycle_service.py` |
| `PauseDispatcher`, `ResumeDispatcher`, `RequestStop` | `runtime_service.py:62-87` |
| `CallerAsks`, `RuntimeAsks` | `step_dispatch` up to its await |
| `StartAccepted`, `StartDenied` | from the answer to the return of `step_dispatch`, and for the loop on to its next wait |
| `Run`, `RuntimeWaits`, `RuntimeEnds`, `CancelRuntime` | the rest of `run`: its first iteration, the iterations that ask nothing, its end, and the host cancelling its task |
| `DeliverWakeup`, `ReleaseDatePasses`, `CooldownExpires` | the event loop and the clock |

`SingleResource` is the abstract specification: operations are admitted once, dispatched one at a time and only while unpaused, keep the slot until finished and get one outcome. `OperationDispatcher` implements it with `phase` read off the buckets.

`RuntimeController` is about threads instead. The loop is reduced to `life`, where each runtime thread is between its creation and the closing of its loop, and to the flags `stop_requested` and `is_paused`; every caller has a `pc`. `Start`, `Stop`, `Pause`, `Resume` and their continuations are the methods of `runtime_controller.py`; `ReadLoop`, `RunDirectly`, `FindsLoopStopped`, `HandOver`, `HandOverFails`, `LoopMutates` are the steps of `execute` (`mutation_service.py:16-48`) that another thread can come between; `RunResetsStop`, `RunPublishesLoop`, `RunReturns` are those of `run` (`runtime_service.py:137-168`), and `LoopDrains`, `LoopCloses` what `asyncio.run` does afterwards. Calls that are refused (409) change nothing and are not actions.
It shares no variable with `OperationDispatcher`: that module takes a mutation to run atomically on the loop's thread, which is what the steps here establish while the loop runs.

`SimulatedRunner` is `simulated_operation_runner.py` with any number of calling threads and of workers that are alive at once. A section under `_lock` is one step; `CancelSection`, `JoinAndClear`, `Install`, `Launch` are the stretches of `cancel` and `start` between which another thread can come, `Poll`, `Tick` and `Take` those of `_run_worker`. Whether a tick used up the operation's time is a choice. The action `JoinAndClear` may come at any moment, because the join has a timeout.
`SimulatedApplication` composes it with the dispatcher as `examples/dispatcher_openapi.py` does. The dispatcher is what `SingleResource` promises, with its requests made explicit: `StartRequest` is awaited while the loop goes on (`asked`), a `BlockingRequest` blocks it (`blocked`), each starts a callback thread that enters the runner, and `StartTimesOut`, `BlockingTimesOut` leave the thread behind. `Completes` is a worker's report, which needs the loop. `PauseDispatcher` and `ResumeDispatcher` are those of the whole dispatcher, which a denial may cause too and of which the runner is not told. `disturbed` remembers that a request timed out, that a report came before the start it belongs to was recorded, or that the approved start dispatched another operation or, since the dispatcher was paused meanwhile, none: after that the two may disagree for good, and the code has nothing that brings them together again.

`EventVisualizer` is `browser_event_visualizer.py`: `Publish` and `Put` are the two sections of `publish_event`, `Accept`, `Subscribe`, `Look`, `Write`, `Keepalive`, `Leave` the handler of a connection, `Shutdown`, `MarkStopped`, `CloseSubscribers` the steps of `stop`; `OpenPage`, `LoadHistory`, `Poll` are the page's script. An event is the number of its append.

`HistoryReport` has the events every handler emits as time passes in ticks, the bounded list and the slice `get_history` returns (`Selected`), and as operators over such a slice the analyzer's uptime and paused time (`TimeBetween`) and the charts' bars (`PauseIntervals`, `OperationRows`, `DispatcherRows`). A record has its bucket beside the fields an update may write, since an update moves nothing: `UpdateOperation` writes state, start and finish, `OtherEvent` stands for requests, denials and updates of other fields. A dispatcher begins paused or not (`start_paused`). `past` remembers what was true in each tick, which is what the figures are compared with, `rewritten` whose state or start an update changed, and `off_duty` whether the dispatcher was paused or resumed while it did not run.

`DispatcherAPI` puts one request of `operation_dispatcher_openapi.py` or `operation_dispatcher_mcp.py`, in a server thread, beside the event loop. Unlike `OperationDispatcher` it takes a handler of the loop apart: `TakeHead`, `Assign`, `SetRunning` are `next` and the start; `Finish`, `Archive`, `EmptySlot` a completion; `CancelActive` or `CancelQueued`, then `Archive` or `EmptySlot`, and `SetCancelled` a cancellation; `AppendNew` or `Update`, then `BeginSort`, `EndSort`, `ReplaceList` a change that sorts. `ReadSlot`, `CompareSlot`, `ReturnSlot`, `ScanNext`, `SearchArchive` are `DispatchQueue.get` between two of its reads, `ListSlot`, `ListQueue`, `ShowCurrent` the listing routes, `CheckPaused` the MCP tools that look before they ask. `steady` and `waiting` remember what was archived or active, or queued, since the lookup began, and `rewritten` whose state or outcome an update wrote.

`MCDispatchQueue` and `MCOperationDispatcher` give constants for TLC; the other modules are instantiated by their configurations. `SequenceFacts` holds the lemmas about appending to and taking entries out of a list, about folds and about induction up to a number; the modules whose names end in `Proofs` hold the theorems, `OperationDispatcherProofs` those of `DispatchQueue` too.
Operators whose comment calls them a mutant are wrong variants of the definition after them; no specification uses them. They show that each property would notice the bug.

## What the runs show

| Run | Instance | Shows |
| --- | --- | --- |
| `dependency_sort` | every graph on 4 positions | the loop ends, its counters never drift, and its result is the order of `DispatchOrder` |
| `dispatch_queue` | 3 operations, 2 keys, acyclic dependencies | `OneBucket`, `ProvidersFirst`, `OrderIsKept` under every sequence of methods |
| `dispatcher` | 2 operations, 2 keys, denial limit 2, deniable starts, priority updates, the loop and one more coroutine | the safety properties, the refinement of `SingleResource`, `WorkIsRequested`, `StopTakesEffect` |
| `dispatcher_requests` | 2 operations, 1 key, limit 2, deniable cancels and resumes, release-date updates | denials of the blocking requests, beside a start request in flight |
| `runtime_controller` | 2 callers, 2 runtime threads | `OneRun`, `StopReachesTheRun`, `EveryCallReturns` |
| `simulated_application` | 2 operations, 2 callback threads, 2 workers, 1 timeout | `OneReport`, `ActiveIsSimulated`, `SimulatedIsActive`, `ActiveIsReported`, `CallbacksReturn` |
| `event_visualizer` | 2 publishers, 3 events, 1 connection, ring of 2, queue of 1, 2 starts | `StreamsHaveNoGap`, `SubscribersEnd`, `EventsAreShown` |
| `history_report` | 1 operation, limit 3, up to 6 events, 3 times, updates may write the state RUNNING and the time 0 | `UptimeIsExact`, `PausedTimeIsExact`, `RowsTile`, `DispatcherRowsAreTrue` |
| `dispatcher_api` | 2 operations, 1 followed request, updates may write the outcome SUCCESS | `SteadyIsNotMissed`, `CancelledOnce`, `RequestsAreAnswered` |
| `start_approval` | 2 operations, 2 keys | violation of `StartedWasApproved` |
| `stop_at_startup` | 2 callers, 1 runtime thread | violation of `StopIsObeyed` |
| `lookup_misses` | as `dispatcher_api` | violation of `QueuedIsFound` |

The three violations are disagreements between the code and its documents.

* `start_approval`: the start of `a` is asked; meanwhile `b` moves to the head, by an added operation, an update or the cancellation of `a`; the approval arrives, and `b` starts. `README.md:35, 154`.
* `stop_at_startup`: start has created the runtime thread, which has not reached `run`; stop finds the thread alive and no loop, sets `stop_requested` itself and, its join timed out, answers that the dispatcher is stopped; `run` begins by resetting the flag (`runtime_service.py:142`) and goes on for good. `runtime_controller.py:116`, `action_descriptions.py:49`.
* `lookup_misses`: a server thread iterates over the queue's list while the loop sorts it, and a list that is being sorted is empty to others; or the loop pops an entry in front of the iteration, which then skips one. The operation was queued all the time and the request for it is answered with 404. `dispatch_queue.py:94`.

What the code does in more places may surprise a caller; the properties are stated so that they hold beside it.

* `EveryCallReturns` has an exception. Between the last iteration of a closing loop and its close, `call_soon_threadsafe` takes a callback that nobody runs. Its caller waits at `mutation_service.py:43` without a timeout, and if it is a stop, it holds the lock that start and stop need (`Stranded`).
* An object that is added again while it is pulled or completed is in two buckets, which `dispatch_queue.py:41` rules out: `add` does not look for it. No caller in the repository adds an object twice, and the instances and theorems take `ReAdd` to be false.
* When an entry that broke a cycle leaves the queue, what is left keeps the fallback order until something sorts, although `README.md:49` promises providers first. `ProvidersFirst` is checked and proved for dependencies that can close no cycle.
* Cancelling or removing a queued operation that others wait for sets them free, but does not sort: with keys c = 1, b = 2, a = 3 and c waiting for a, the queue b, a, c becomes b, c, and b stays ahead of c, which has the smaller key and waits for nothing, until the next addition or update (`dispatch_queue.py:143-160`), although `README.md:48-49` promises the order of the sort rules. `OrderIsKept` says that this is the only way to lose the order (`LeavesDependents`).
* A lookup tests the slot and reads it again (`dispatch_queue.py:96-97`). When the loop empties the slot in between, the second read fails and the request is answered with 500, for whatever operation it asked, also one that was archived all the time. `SteadyIsNotMissed` allows this answer for an archived operation and no other: 404 never.
* The default updatable fields contain `state` and `outcome` (`operation_dispatcher.py:36-51`), and an update writes them to archived operations too. Cancel `a`, confirmed with 200, then update `a` with outcome SUCCESS, and `a` is archived as a success; the runs and the theorem on `CancelledOnce` let updates do so, and it says that nothing else does (`rewritten`).
* A dispatcher that is paused while a start request is in flight starts nothing when the approval comes (`runtime_service.py:115-116`), and nobody tells the application, whose runner has begun. The runner simulates an operation that was never started, its report is refused because the operation is not active, and after a resume the operation is asked for and simulated again. `SimulatedIsActive` excludes this case by `disturbed`. A pause at any other time is within its scope.
* The analyzer knows what was before the first pause or resume of a slice only from that event: it takes the dispatcher to have been paused before a resume, and not before a pause (`history_analyzer.py:98-106`). A dispatcher created with `start_paused` is paused with no event to say so until `run` emits one, and the time before is reported as not paused; `resume_dispatcher_runtime` does not ask whether the dispatcher is paused (`runtime_service.py:75-80`), and if it was not, all the time before is reported as paused. `PausedTimeIsExact` holds where the guess is right (`GuessesRight`), for every window and cut.
* An update may move an operation's start, or set its state aside from its events (`operation_lifecycle_service.py:343-345`). A start moved behind a pause makes a bar of it that begins before the start; a state set to RUNNING ends a pause that the chart goes on drawing. `RowsTile` speaks of operations to which this has not happened; updates of the finish time are within its scope.
* A start that is approved while a stop is pending is dispatched all the same (`runtime_service.py:114` looks at `is_paused` only), and then the loop ends.

### Bounds

* Three operations give the queue its cases: a chain, a fork and a tie. Four positions give the sort loop a diamond and two separate cycles.
* Two operations give the dispatcher its cases: an active one and a queued one, two that swap places at the head, one cancelled while asked and one that takes its place. A third would add another waiting one.
* Denial limit 2 gives a denial below and at the limit; `denials` stops at the limit, which stands for every count from there. The count only matters through the comparison with the limit.
* Two ranks of the sort key give orders that change and ties.
* One more coroutine than the loop gives two start requests in flight.
* Two callers give a start beside a start, a stop beside a stop, a stop that is stranded beside one that is refused, and a pause handed to a loop that the other one stops. Two runtime threads give a restart while the first loop is closing and a mutation that still knows the first loop.
* In `SimulatedApplication` two callback threads give one left over by a timeout beside the next request's, and two workers a worker that missed its stop beside a new one. `MaxWorkers` counts the threads on their way to create one, so it never holds up a start that has begun. One timeout per behaviour is enough for a leftover thread, which may last as long as it likes. Dispatch order plays no part: the lowest waiting operation is the head.
* In `EventVisualizer` a queue of one message is full as soon as its reader is late, a ring of two drops the first of three events, two publishers put in another order than they appended, and two starts give a stop between them. Connections share only the subscriber set, which one of them exercises against `stop` and `Put`.
* In `HistoryReport` six events against a limit of three cut up to three events off, so a history may begin with any kind of event and hold an unpaired pause, resume, start or stop. `NewState` and `NewTime` are what updates may write: the state that ends a pause without an event, and the earliest time, which moves a finish before the start. Three times give an interval of two ticks, of one, and an empty one. `MaxTime` and `MaxEmitted` are the bounds. Every window is checked, with and without a limit.
* In `DispatcherAPI` two operations give one that is looked up and one that is moved in front of it. `NewOutcome` and `NewState` are what updates may write: one outcome a cancellation does not set tells whether it was overwritten; states are in the theorems only, no lookup depends on them. What other callers want is in the loop's choices, so one request is followed in detail.
* `CallAdd` lets an object be queued at most once at a time; without re-adding the guard changes nothing.
* The dispatcher's instances have no dependencies between operations: they only change which operation is at the head, and so do keys. Operations are then interchangeable, and `dispatcher_requests`, which checks invariants alone, uses them as a symmetry set. No run with a temporal property does.
* Where deadlock is not checked, the system may stop: the sort loop ends, two stranded callers leave nothing to do, and a bound (operations, workers, events, time) is used up.

### Fairness

`OperationDispatcher` assumes only what the scheduling gives: the event loop runs a task that is ready (`Runtime`) and a callback that is scheduled (`DeliverWakeup`), a start request is answered or times out (`Answer`, from `wait_for` in `request_handler.py:338`), and time passes (`ReleaseDatePasses`, `CooldownExpires`).
A `wait_for` with a timeout may end at any moment, so `timed` needs no timer of its own.
No caller is assumed to do anything, and an answer may always be a denial: `WorkIsRequested` says the loop asks, not that it starts something.
The run `dispatcher` lets no caller move release dates: one who postpones the head again and again can hold it up, and the code promises nothing else.
`RuntimeController` assumes that the thread of a caller and of a run go on (the timeouts of start and stop included, so they may answer at any moment), and that a loop that turns runs its callbacks. It does not assume that a lock is granted: the properties begin where a call has it.
`SimulatedApplication` assumes that threads are scheduled. What the loop reads - an answer, a report - is taken in the order it became ready, so a stream of requests that blocks the loop again and again cannot starve it: strong fairness. No request is assumed to time out; `CallbacksReturn` shows that the join's own timeout is what undoes the cycle of a loop that waits for a cancel, a cancel that waits for the worker, and a worker whose report waits for the loop. A worker may tick for ever, but its ticking is not held against it: each `Take` that is possible again and again happens.
`EventVisualizer` assumes that a thread inside `stop`, `publish_event` or a handler goes on and that the page loads and polls. It does not assume that a stopped server is started again, or that a client leaves.
`DispatcherAPI` assumes that the loop ends what it began, that a handler's thread is scheduled, and that the loop comes to a change that was handed to it although it always has other work (strong fairness: `call_soon_threadsafe` is a queue).

## What is proved

With TLAPS, for every value of the constants - any operations, keys and dependencies, any denial limit, any number of coroutines, callers, threads, workers and restarts, any sizes of a ring, a queue or a history. Every safety property a passing run checks is among them:

| Theorem | States | Assumes |
| --- | --- | --- |
| `QueueOneBucket`, `QueueTypes`, `QueueKeyOrder` | `OneBucket`, `QueueTypeOK`, `OrderIsKept` of the queue | no object is added twice (`~ReAdd`) |
| `QueueProvidersFirst` | `ProvidersFirst` | `~ReAdd`, and the possible dependencies close no cycle (`Acyclic`) |
| `SortTypes`, `ReadyIsUnblockedAlways`, `SortsInDependencyOrder` | the sort loop's types, that the counters agree with the edges, and that the result is `DispatchOrder`'s | nothing |
| `DispatcherTypeOK`, `DispatcherOneBucket`, `DispatcherExhaustedMeansPaused`, `DispatcherNoLostWakeup` | invariants of `OperationDispatcher` | `~ReAdd` |
| `DispatcherStateAgrees` | `StateAgreesWithBucket` | `~ReAdd`, and `state` and `outcome` are not updatable (`KeepsLifecycle`) |
| `DispatcherPausedStartsNothing` | an action property | nothing |
| `DispatcherImplementsSingleResource` | the refinement | `~ReAdd`, `KeepsLifecycle` |
| `DispatcherIsQueueUser`, `DispatcherKeyOrder`, `DispatcherProvidersFirst` | `OperationDispatcher` implements `QueueSpec`; so `OrderIsKept` and `ProvidersFirst` hold in it | `~ReAdd`; for the last, `Acyclic` |
| `ControllerTypeOK`, `ControllerOneRun` | invariants of `RuntimeController` | nothing |
| `ApplicationTypes`, `OneReportPerStart`, `ActiveSimulated`, `SimulatedActive` | the invariants of `SimulatedApplication` | nothing |
| `APITypes`, `ConfirmedCancellations`, `LookupsMissNothingSteady` | `TypeOK`, `CancelledOnce`, `SteadyIsNotMissed` of `DispatcherAPI` | nothing: updates may write any states and outcomes |
| `VisualizerTypes`, `StreamsWithoutGap` | `TypeOK`, `StreamsHaveNoGap` of `EventVisualizer` | nothing |
| `UptimesAreExact`, `PausedTimesAreExact`, `OperationRowsTile`, `DispatcherRowsStayTrue` | the invariants of `HistoryReport`, with the provisos they state (a right guess, no rewritten operation, no pause off duty) | nothing: updates may write any states and times |

The two assumptions about the callers are needed: without the first a queue has an operation in two buckets after pulling it and adding it again, and the default list of updatable fields contains `state` and `outcome`, with which a caller can write any value. The named assumptions of the modules only give the constants their types, and say that `None` is not a number. The bounds on events, time and starts that make the instances finite are constants too, so the theorems hold for behaviours of any length.

**The queue.** `PermutedFacts` and `SortsFacts` say that a sorted queue is the old one up to a bijection of its positions, so it has the same elements, and no duplicate if there was none. With `AppendFacts`, `TailFacts` and `WithoutEntryFacts` each method then keeps `QueueInv`, the conjunction of the buckets' types and `OneBucket`. `OneBucket` is not inductive without the types and the types are not without it: that the element taken out of the queue is not in it any more needs that it was there once.
For the order properties each method either sorts or takes entries out. A sort establishes both orders: whatever waits only for operations ahead of a place was a candidate for it, and the least candidate got it; with a cycle the list is in the order of the keys. Taking entries out keeps providers first, because the rest keep their relative positions (`ThinnedKeepsOrder`). It keeps the order of the keys if the entry is the head, which is ahead of everyone, or if nobody waits for it (`WithoutEntryInKeyOrder`); the step that does neither is `LeavesDependents`. `ProvidersFirst` speaks of the providers that are queued and of graphs without a cycle; the invariant `ProviderOrder` speaks of all dependencies, so it does not have to follow which cycles come and go.

**The sort loop.** The invariant says that each counter is the number of providers that are not placed (`Counted`), that the heap is what waits for nothing (`ReadyIsUnblocked`), that what is placed was placed in layers, once, and that no member of a set in which everyone has a provider in the set is ever placed (`CyclesStay`). At the end the heap is empty, so what is not placed is such a set: the loop falls back exactly for the graphs with a cycle.

**The dispatcher.** `DispatcherInv` adds the types of the other variables to `QueueInv` and is inductive. The other invariants are inductive relative to it, each with one step per action: `ExhaustedMeansPaused` from the pause that `Deny` and a count at the limit share, `NoLostWakeup` from `Emit`, and `StateAgreesWithBucket` from the buckets being disjoint, so that a handler that writes the fields of one operation leaves the others in agreement.
The refinement maps every action to a step of `SingleResource` or to a stutter, after `DispatcherInv` excludes the overlaps of the mapping.
`QueueSpec` says what callers of the queue may do: one method at a time, and a changed key or dependency list only with a resort. `DispatcherIsQueueUser` shows that every handler keeps to it - an update, which may change a key, a dependency list, both or neither, is a resort of one operation (`UpdateIsResort`, which needs the invariant `Allowed`: an operation depends on nothing but `MayDependOn`). The orders proved of the queue then hold in the dispatcher with no proof of their own; TLC checks them on the queue alone.

**The controller.** `OneRun` is not inductive: nothing in it keeps a start from meeting an older thread that is alive. `OnlyTheNewestLives` says that every thread but the newest is dead, which is what `is_alive` is asked of in start, and `PublishedLoopRuns` that a published loop is a running one's.

**The simulated application.** `OneReport` needs only its own count of starts that are owed an end. That the dispatcher and the runner agree needs, while nothing has disturbed them (no timeout, and no report, other head or pause that overtook an approval), that the threads inside the runner are the ones the dispatcher waits for (`OwnThreads`), that nothing is active while a start is asked for (`StartsWhenIdle`), and where an operation may be: what was installed for an active operation, or one about to become active, is simulated, taken by a worker or being cancelled (`InstalledIsKept`), what is simulated is wanted (`SimulatedIsWanted`), and what a worker has taken nobody else simulates (`TakenIsEnding`).

**The interfaces.** `LoopInv` is about the loop alone: in which place the operation in its hand is after each of its steps, that a sort has taken everything out of the list or nothing, and that what is confirmed as cancelled is in the archive and in the loop's hand only for an update. `ReaderInv` relates a handler to it. A step of the loop leaves the handler where it is, answers it or sends it back to look again (`LoopAndHandler`), so only the handler's own steps have to be followed: once it is past the slot, what stayed in one place since the lookup began is in the archive (`TargetIsAhead`), a read of the emptied slot fails only while what stays is not active, and a list that is copied has the slot's operation already (`SlotIsCopied`).

**The visualizer.** A stream is what was written to a connection and what waits in its queue. `InOrder` says that it is a stretch of the put order, which for a subscriber reaches to the last put and otherwise may end in the mark that closes it; `Subscribed` says which handlers have a subscription, because a queue that is not subscribed is filled no more. `Put` appends to the stretches of all subscribers at once or gives one up, `Subscribe` begins with an empty one behind the last put, and the steps of a handler move the head of the queue to the end of what is written (`StreamFacts`).

**The reports.** `ReportInv` says that the history tells what happened. There is a *story*, the situation of dispatcher and operations before the first event and after each, in which every event does what its type says (`Follows`), every tick between two events passed in the situation between them, and the last situation is the present one (`Told`); the events are in order and agree with the records (`Fits`, `Precedes`). What an event says is subject to what has happened beside the events, `Sofar`: pauses while not running, and operations whose fields an update changed. It only grows (`Wider`), so a story stays one. An action adds one or two events and a situation for each (`ToldFurther`), and the cut at the limit takes a prefix off events and story alike (`ToldFrom`). `Story` also says that a start into the paused state is never the last event: the pause that `run` emits after it is emitted in the same step. Before the first event nothing is known unless the history is whole.
`SelectedFacts` shows that a window and a limit select a stretch of the history, because times only grow, and `ChapterOfStory` that this stretch has its part of the story. The reports fold over it. For each fold a lemma (`CountFold`, `PairFold`, `PlaceFold`, `DrawFold`) gives the accumulators after each event, and the argument relates them to the chapter: the seconds counted so far are the ticks in which it was on (`Tally`), an open bar began when the situation it shows did, a pause that is open began when the operation was suspended and nothing has ended it since. The sums begin with the first event that switches something on or off (`TallyBegins`), where the analyzer's guess of what was before it is right (`Guessed`). For the uptime it always is, since a start comes to a stopped dispatcher and a stop to a running one (`RunGuessed`); for the paused time it is the proviso of the property, since a pause may come to a paused dispatcher and a resume to one that is not.

**Folds and induction.** The library's induction theorems take an operator as parameter, so `SequenceFacts` proves what is needed from sets: `Induction`, that a set with 0 and with the successor of each of its members up to n has all of 0..n, from `LeastNatural`; and `FoldExists`, that the function a fold chooses exists, for a step given as a function. The lemmas on the single folds apply it to their own step.

## Only model-checked

Liveness under fairness is outside the proof system's reach: `Terminates`, `WorkIsRequested`, `StopTakesEffect`, `StopReachesTheRun`, `EveryCallReturns`, `ActiveIsReported`, `CallbacksReturn`, `SubscribersEnd`, `EventsAreShown`, `RequestsAreAnswered`.
No theorem covers the three violations, which are about single behaviours.

## Abstractions and what is not modelled

* Completed operations are a set: their order is only for display. Reasons, durations and payloads are left out, no guard reads them. The times of events and records are in `HistoryReport` only.
* A wakeup scheduled several times counts once: `Event.set` is idempotent, and the next `clear` clears all that were delivered before it.
* `NotificationHandler` runs the application's callback or schedules it, and nothing waits for the result: it keeps no state. A callback that calls the dispatcher back runs inside the handler that emitted the event.
* In `OperationDispatcher` callbacks of blocking requests answer within the step. While they run the loop is blocked, so nothing else runs; their threads are in `SimulatedApplication`.
* The calls of other threads are handlers like any other while the loop runs. `RuntimeController` has the hand-off; a mutation of the queue that runs directly on a caller's thread beside the first or last step of a loop is not modelled.
* The checks of arguments (resource ids, field names, dates, the bodies of requests) are preconditions, or one refusal with 400.
* `enforce_running_state` and `enforce_paused_state` only narrow when a caller may pause or resume; the model lets it do so in either state.
* The arithmetic of cooldowns: whether one is over is a choice. So that the cooldown is counted from before the callback is awaited (`request_handler.py:140`), and that `run` spins through `sleep(0)` while the head is due and may not be asked for (`runtime_service.py:220`), no run speaks of.
* A batch of operations is added one by one; each addition is the same change. The start and stop routes are `RuntimeController`'s. OpenAPI texts, MCP registration and prompts are documentation.
* An access to a list or an attribute is one step of `DispatcherAPI`, as it is under CPython's lock; an interpreter without that lock could show more.
* `EventVisualizer` leaves out HTTP and the text of frames. The frames are written with a literal backslash and `n` instead of line ends (`browser_event_visualizer.py:113, 182, 282, 296`), so a browser never dispatches an event of the stream, and the page lives on polling; `EventsAreShown` is about polling for this reason.
* The analyzer's counts and quotients are arithmetic on the modelled times. One of them divides the uptime although it is None for a history without a start or a stop (`history_analyzer.py:128`). Paused time counts pauses while the dispatcher is stopped, too, and a pause and resume while it is stopped draw a running bar; `DispatcherRowsAreTrue` is stated for histories without such pauses (`off_duty`).
* `on_history_callback` replaces a history as a whole. Operations that the charts derive from events alone, and the figures themselves, are left out.
* The change tracker compares two field values; the sample data is data.

## Further work

* `RetryTiming`: `RetryPolicy` and the awaited request with a clock. Property: between two requests for one operation at least the cooldown minus the callback's own duration passes.
* A callback that itself calls the dispatcher while the loop waits for it, and an operation that a notification callback changes.
* Proofs: that `SimulatedApplication`'s dispatcher, with its requests made explicit, implements `SingleResource`; that the history `HistoryReport` keeps is what the dispatcher's handlers emit.
