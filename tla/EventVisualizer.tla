---------------------------- MODULE EventVisualizer ----------------------------
(***************************************************************************)
(* BrowserEventVisualizer: publishers append every event to a ring and put *)
(* it into the queue of every subscribed connection; the handler thread of *)
(* a connection writes its queue out; the page in the browser polls the    *)
(* ring once a second.                                                     *)
(*                                                                         *)
(* An event is the number of its append: it stands for the message with    *)
(* its timestamp, Kind for what several events have in common. A section   *)
(* under _events_lock or _subscribers_lock is one step.                    *)
(***************************************************************************)
EXTENDS SequencesExt, Integers

CONSTANTS
  Publishers,   \* how many threads call on_request or on_notification
  Connection,   \* GET /events requests of one behaviour (a bound)
  Total,        \* bound: events published in one behaviour
  MaxEvents,    \* maxlen of _events
  QueueSize,    \* maxsize of a subscriber's queue
  Starts        \* bound: calls of start in one behaviour

ASSUME VisualizerAssumption ==
  {Publishers, Total, MaxEvents, QueueSize, Starts} \subseteq Nat \ {0}

VARIABLES
  events,       \* _events
  holding,      \* the events whose publishers have not put them yet
  published,    \* events appended so far
  is_running,   \* _is_running
  serving,      \* serve_forever runs
  stopping,     \* where the thread in stop is
  started,      \* calls of start so far
  subscribers,  \* _subscribers
  queue,        \* connection -> its subscriber queue
  handler,      \* connection -> where its handler thread is
  connected,    \* connections whose client has not gone away
  written,      \* connection -> what its handler wrote
  puts,         \* history: the events in the order they were put
  page,         \* where the page's script is
  rendered      \* events in the page's timeline

server == <<is_running, serving, stopping, started>>
streams == <<subscribers, queue, handler, connected, written>>
ring == <<events, holding, published, puts>>
browser == <<page, rendered>>
vars == <<events, holding, published, is_running, serving, stopping, started,
          subscribers, queue, handler, connected, written, puts, page,
          rendered>>

Event == 1..Total

Kind(e) == e % 2

Close == 0

Init ==
  /\ events = <<>>
  /\ holding = {}
  /\ published = 0
  /\ is_running = FALSE
  /\ serving = FALSE
  /\ stopping = "no"
  /\ started = 0
  /\ subscribers = {}
  /\ queue = [c \in Connection |-> <<>>]
  /\ handler = [c \in Connection |-> "none"]
  /\ connected = {}
  /\ written = [c \in Connection |-> <<>>]
  /\ puts = <<>>
  /\ page = "closed"
  /\ rendered = {}
-----------------------------------------------------------------------------
(* start and stop, which may be called by different threads.               *)

Start ==
  /\ ~is_running
  /\ started < Starts
  /\ started' = started + 1
  /\ is_running' = TRUE
  /\ serving' = TRUE
  /\ UNCHANGED <<stopping, ring, streams, browser>>

(* The server socket closes, its thread ends; handler threads are daemons  *)
(* and are not waited for.                                                 *)
Shutdown ==
  /\ is_running
  /\ stopping = "no"
  /\ serving' = FALSE
  /\ stopping' = "shut"
  /\ UNCHANGED <<is_running, started, ring, streams, browser>>

MarkStopped ==
  /\ stopping = "shut"
  /\ is_running' = FALSE
  /\ stopping' = "marked"
  /\ UNCHANGED <<serving, started, ring, streams, browser>>

(* Whoever has subscribed by now gets a close message, if its queue has    *)
(* room.                                                                   *)
CloseSubscribers ==
  /\ stopping = "marked"
  /\ queue' = [c \in Connection |->
                 IF c \in subscribers /\ Len(queue[c]) < QueueSize
                 THEN Append(queue[c], Close) ELSE queue[c]]
  /\ subscribers' = {}
  /\ stopping' = "no"
  /\ UNCHANGED <<is_running, serving, started, handler, connected, written,
                 ring, browser>>
-----------------------------------------------------------------------------
(* publish_event, in its two sections.                                     *)

(* A deque with a maximal length; the mutant has it one too long.          *)
LastOfOneMore(s, n) ==
  SubSeq(s, IF Len(s) > n + 1 THEN Len(s) - n ELSE 1, Len(s))

LastOf(s, n) == SubSeq(s, IF Len(s) > n THEN Len(s) - n + 1 ELSE 1, Len(s))

Publish ==
  /\ Cardinality(holding) < Publishers
  /\ published < Total
  /\ published' = published + 1
  /\ events' = LastOf(Append(events, published + 1), MaxEvents)
  /\ holding' = holding \cup {published + 1}
  /\ UNCHANGED <<puts, server, streams, browser>>

(* A subscriber whose queue is full is dropped; its connection stays open. *)
(* The mutant only skips it.                                               *)
PutAndSkip(e) ==
  /\ e \in holding
  /\ queue' = [c \in Connection |->
                 IF c \in subscribers /\ Len(queue[c]) < QueueSize
                 THEN Append(queue[c], e) ELSE queue[c]]
  /\ puts' = Append(puts, e)
  /\ holding' = holding \ {e}
  /\ UNCHANGED <<events, published, server, subscribers, handler, connected,
                 written, browser>>

Put(e) ==
  /\ e \in holding
  /\ LET stale == {c \in subscribers : Len(queue[c]) >= QueueSize} IN
       /\ queue' = [c \in Connection |->
                      IF c \in subscribers \ stale
                      THEN Append(queue[c], e) ELSE queue[c]]
       /\ subscribers' = subscribers \ stale
  /\ puts' = Append(puts, e)
  /\ holding' = holding \ {e}
  /\ UNCHANGED <<events, published, server, handler, connected, written, browser>>
-----------------------------------------------------------------------------
(* _serve_events.                                                          *)

Moves(c, point) == handler' = [handler EXCEPT ![c] = point]

(* A request is accepted; the ready frame is written before the queue      *)
(* exists.                                                                 *)
Accept(c) ==
  /\ serving
  /\ handler[c] = "none"
  /\ Moves(c, "ready")
  /\ connected' = connected \cup {c}
  /\ UNCHANGED <<subscribers, queue, written>>

Subscribe(c) ==
  /\ handler[c] = "ready"
  /\ subscribers' = subscribers \cup {c}
  /\ Moves(c, "looking")
  /\ UNCHANGED <<queue, connected, written>>

Look(c) ==
  /\ handler[c] = "looking"
  /\ Moves(c, IF is_running THEN "getting" ELSE "leaving")
  /\ UNCHANGED <<subscribers, queue, connected, written>>

(* A write to a client that has gone away ends the handler.                *)
Write(c) ==
  /\ handler[c] = "getting"
  /\ queue[c] # <<>>
  /\ queue' = [queue EXCEPT ![c] = Tail(@)]
  /\ IF c \in connected
     THEN /\ written' = [written EXCEPT ![c] = Append(@, Head(queue[c]))]
          /\ Moves(c, "looking")
     ELSE Moves(c, "leaving") /\ UNCHANGED written
  /\ UNCHANGED <<subscribers, connected>>

(* The wait for a message times out.                                       *)
Keepalive(c) ==
  /\ handler[c] = "getting"
  /\ queue[c] = <<>>
  /\ Moves(c, IF c \in connected THEN "looking" ELSE "leaving")
  /\ UNCHANGED <<subscribers, queue, connected, written>>

(* The finally clause; the mutant leaves it to stop.                       *)
LeaveSubscribed(c) ==
  /\ handler[c] = "leaving"
  /\ Moves(c, "ended")
  /\ UNCHANGED <<subscribers, queue, connected, written>>

Leave(c) ==
  /\ handler[c] = "leaving"
  /\ subscribers' = subscribers \ {c}
  /\ Moves(c, "ended")
  /\ UNCHANGED <<queue, connected, written>>

GoAway(c) ==
  /\ c \in connected
  /\ connected' = connected \ {c}
  /\ UNCHANGED <<subscribers, queue, handler, written>>
-----------------------------------------------------------------------------
(* The page.                                                               *)

(* Mutant of the key: it tells kinds apart, not events.                    *)
eventKeyOfKind(e) == Kind(e)

eventKey(e) == e

(* renderEvent for a list of events: one is left out when its key was seen.*)
Render(list) ==
  rendered' = FoldLeft(LAMBDA shown, e :
                         IF \E d \in shown : eventKey(d) = eventKey(e)
                         THEN shown ELSE shown \cup {e},
                       rendered, list)

OpenPage ==
  /\ serving
  /\ page = "closed"
  /\ page' = "loading"
  /\ UNCHANGED rendered

(* The first load decides: without it there is neither stream nor polling. *)
LoadHistory ==
  /\ page = "loading"
  /\ IF serving THEN Render(events) /\ page' = "open"
               ELSE page' = "failed" /\ UNCHANGED rendered

(* startPollingFallback: a failed fetch is ignored.                        *)
Poll ==
  /\ page = "open"
  /\ serving
  /\ Render(events)
  /\ UNCHANGED page
-----------------------------------------------------------------------------
Serve(c) == Subscribe(c) \/ Look(c) \/ Write(c) \/ Keepalive(c) \/ Leave(c)

Next ==
  \/ Start \/ Shutdown \/ MarkStopped \/ CloseSubscribers
  \/ Publish
  \/ \E e \in holding : Put(e)
  \/ /\ \E c \in Connection :
          \/ Accept(c)
          \/ Serve(c)
          \/ GoAway(c)
     /\ UNCHANGED <<ring, server, browser>>
  \/ (OpenPage \/ LoadHistory \/ Poll) /\ UNCHANGED <<ring, server, streams>>

Spec == Init /\ [][Next]_vars

(* A thread in stop, in publish_event or in a handler goes on, the page    *)
(* loads and polls. A poll may meet a stopped server again and again.      *)
Fairness ==
  /\ WF_vars(MarkStopped)
  /\ WF_vars(CloseSubscribers)
  /\ \A e \in Event : WF_vars(Put(e))
  /\ \A c \in Connection : WF_vars(Serve(c) /\ UNCHANGED <<ring, server, browser>>)
  /\ WF_vars((LoadHistory \/ Poll) /\ UNCHANGED <<ring, server, streams>>)

FairSpec == Spec /\ Fairness
-----------------------------------------------------------------------------
TypeOK ==
  /\ events \in Seq(Event) /\ Len(events) <= MaxEvents
  /\ holding \subseteq Event
  /\ published \in 0..Total
  /\ is_running \in BOOLEAN
  /\ serving \in BOOLEAN
  /\ stopping \in {"no", "shut", "marked"}
  /\ started \in 0..Starts
  /\ subscribers \subseteq Connection
  /\ queue \in [Connection -> Seq(Event \cup {Close})]
  /\ \A c \in Connection : Len(queue[c]) <= QueueSize
  /\ handler \in [Connection -> {"none", "ready", "looking", "getting", "leaving", "ended"}]
  /\ connected \subseteq Connection
  /\ written \in [Connection -> Seq(Event \cup {Close})]
  /\ puts \in Seq(Event)
  /\ page \in {"closed", "loading", "open", "failed"}
  /\ rendered \subseteq Event

Stream(c) == written[c] \o queue[c]

(* A close message may only be the last one.                               *)
Received(c) ==
  IF Stream(c) # <<>> /\ Last(Stream(c)) = Close THEN Front(Stream(c)) ELSE Stream(c)

(* What a connection was given is a stretch of the put order without a     *)
(* gap, and reaches to its end while the connection is subscribed: a slow  *)
(* reader is cut off rather than given an incomplete stream                *)
(* (browser_event_visualizer.py:179-193, 285-302).                         *)
StreamsHaveNoGap ==
  \A c \in Connection :
    c \in connected =>
      /\ \E i \in 1..Len(puts) + 1, j \in 0..Len(puts) :
           Received(c) = SubSeq(puts, i, j)
      /\ c \in subscribers /\ Received(c) # <<>> => Last(Received(c)) = Last(puts)

(* A stopped visualizer gets rid of its subscribers, also of one that      *)
(* subscribes after stop has cleared them                                  *)
(* (browser_event_visualizer.py:110-116, 285-302).                         *)
SubscribersEnd == ~is_running /\ stopping = "no" ~> is_running \/ subscribers = {}

(* The open page shows every event by polling, unless it falls out of the  *)
(* ring or the server is stopped (browser_event_visualizer.py:465-558).    *)
EventsAreShown ==
  \A e \in Event :
    page = "open" /\ Contains(events, e) ~>
      e \in rendered \/ ~Contains(events, e) \/ ~serving
=============================================================================
