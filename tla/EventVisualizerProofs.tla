------------------------- MODULE EventVisualizerProofs -------------------------
(***************************************************************************)
(* EventVisualizer keeps its types, and every stream is a stretch of the   *)
(* put order.                                                              *)
(***************************************************************************)
EXTENDS EventVisualizer, SequenceFacts, SequenceTheorems

(* The page shows what it showed and the whole list.                       *)
LEMMA RenderFacts ==
  ASSUME NEW list \in Seq(Event), rendered \subseteq Event, Render(list)
  PROVE  rendered' = rendered \cup Range(list)
<1> DEFINE n == Len(list)
           Pages == SUBSET Event
           Show(shown, e) == IF \E d \in shown : eventKey(d) = eventKey(e)
                             THEN shown ELSE shown \cup {e}
           step == [p \in Pages \X (1..n) |-> Show(p[1], list[p[2]])]
           Folds(it) == it = [T \in SUBSET (1..n) |->
                                IF T = {} THEN rendered
                                ELSE Show(it[T \ {Max(T)}], list[Max(T)])]
           fold == CHOOSE it : Folds(it)
<1>1. n \in Nat /\ DOMAIN list = 1..n /\ \A i \in 1..n : list[i] \in Event
  OBVIOUS
<1>2. \A shown, e : Show(shown, e) = shown \cup {e}
  BY DEF eventKey
<1> HIDE DEF Show
<1>3. \E it : Folds(it)
  <2>1. \A shown \in Pages, i \in 1..n : Show(shown, list[i]) \in Pages
    BY <1>1, <1>2
  <2> HIDE DEF n, Pages
  <2>2. /\ Steps(step, n, Pages)
        /\ \A shown \in Pages, i \in 1..n : step[<<shown, i>>] = Show(shown, list[i])
    BY <2>1 DEF Steps
  <2>3. rendered \in Pages
    BY DEF Pages
  <2> HIDE DEF step
  <2>4. PICK it : Iterates(it, step, rendered, n, Pages)
    BY <1>1, <2>2, <2>3, FoldExists
  <2>5. ASSUME NEW T \in SUBSET (1..n), T # {}
        PROVE  it[T] = Show(it[T \ {Max(T)}], list[Max(T)])
    <3>1. Max(T) \in 1..n
      BY <1>1, <2>5, MaxFacts
    <3>2. it[T \ {Max(T)}] \in Pages
      BY <2>4 DEF Iterates
    <3> QED
      BY <2>2, <2>4, <2>5, <3>1, <3>2 DEF Iterates
  <2> QED
    BY <2>4, <2>5 DEF Iterates
<1>4. Folds(fold)
  BY <1>3, Zenon
<1>5. rendered' = fold[1..n]
  BY <1>1, Zenon DEF Render, FoldLeft, MapThenFoldSet, Show
<1> HIDE DEF fold
<1> DEFINE Done == {k \in 0..n : fold[1..k] = rendered \cup {list[i] : i \in 1..k}}
<1>6. 0 \in Done
  BY <1>1, <1>4
<1>7. ASSUME NEW k \in 1..n, k - 1 \in Done PROVE k \in Done
  <2>1. Max(1..k) = k /\ (1..k) \ {k} = 1..(k-1) /\ 1..k # {} /\ 1..k \in SUBSET (1..n)
    BY MaxOfInterval
  <2>2. fold[1..k] = Show(fold[1..(k-1)], list[k])
    BY <1>4, <2>1
  <2> QED
    BY <1>2, <1>7, <2>2
<1>8. n \in Done
  <2>1. n \in Nat
    BY <1>1
  <2>2. \A k \in 1..n : k - 1 \in Done => k \in Done
    BY <1>7
  <2> HIDE DEF Done, n
  <2>3. n \in 0..n
    BY <2>1
  <2> QED
    BY ONLY <1>6, <2>1, <2>2, <2>3, Induction
<1> QED
  BY <1>1, <1>5, <1>8 DEF Range
-----------------------------------------------------------------------------
Point == {"none", "ready", "looking", "getting", "leaving", "ended"}

Message == Event \cup {Close}

LEMMA LastOfFacts ==
  ASSUME NEW S, NEW s \in Seq(S), NEW n \in Nat
  PROVE  LastOf(s, n) \in Seq(S) /\ Len(LastOf(s, n)) <= n
<1>1. CASE Len(s) > n
  BY <1>1 DEF LastOf
<1>2. CASE ~ (Len(s) > n)
  BY <1>2 DEF LastOf
<1> QED
  BY <1>1, <1>2

LEMMA QueuesKeepType ==
  ASSUME queue \in [Connection -> Seq(Message)],
         \A c \in Connection : Len(queue[c]) <= QueueSize,
         NEW Chosen, \A c \in Chosen : Len(queue[c]) < QueueSize,
         NEW m \in Message,
         queue' = [c \in Connection |-> IF c \in Chosen THEN Append(queue[c], m)
                                        ELSE queue[c]]
  PROVE  /\ queue' \in [Connection -> Seq(Message)]
         /\ \A c \in Connection : Len(queue'[c]) <= QueueSize
<1>1. QueueSize \in Nat
  BY VisualizerAssumption
<1>2. ASSUME NEW c \in Connection
      PROVE  queue'[c] \in Seq(Message) /\ Len(queue'[c]) <= QueueSize
  <2>1. queue[c] \in Seq(Message) /\ Len(queue[c]) \in Nat
    OBVIOUS
  <2>2. CASE c \in Chosen
    <3>1. queue'[c] = Append(queue[c], m)
      BY <2>2
    <3>2. Append(queue[c], m) \in Seq(Message) /\ Len(Append(queue[c], m)) = Len(queue[c]) + 1
      BY <2>1
    <3> QED
      BY <1>1, <2>1, <2>2, <3>1, <3>2
  <2>3. CASE c \notin Chosen
    BY <2>1, <2>3
  <2> QED
    BY <2>2, <2>3
<1> QED
  BY <1>2

(* The server, the publishers and the page keep their types.               *)
LEMMA TypesKept ==
  ASSUME TypeOK, [Next]_vars
  PROVE  TypeOK'
<1> USE DEF TypeOK, Point, Message
<1>0. {Publishers, Total, MaxEvents, QueueSize, Starts} \subseteq Nat
  BY VisualizerAssumption
<1>1. CASE Start
  <2>1. started' \in 0..Starts /\ is_running' = TRUE /\ serving' = TRUE /\ UNCHANGED stopping
    BY <1>0, <1>1 DEF Start
  <2>2. UNCHANGED <<ring, streams, browser>>
    BY <1>1 DEF Start
  <2> QED
    BY <2>1, <2>2 DEF ring, streams, browser
<1>2. CASE Shutdown
  BY <1>2 DEF Shutdown, ring, streams, browser
<1>3. CASE MarkStopped
  BY <1>3 DEF MarkStopped, ring, streams, browser
<1>4. CASE CloseSubscribers
  <2> DEFINE Chosen == {c \in Connection : c \in subscribers /\ Len(queue[c]) < QueueSize}
  <2>1. queue' = [c \in Connection |-> IF c \in Chosen THEN Append(queue[c], Close)
                                       ELSE queue[c]]
    BY <1>4 DEF CloseSubscribers
  <2>2. /\ queue' \in [Connection -> Seq(Message)]
        /\ \A c \in Connection : Len(queue'[c]) <= QueueSize
    <3>1. \A c \in Chosen : Len(queue[c]) < QueueSize
      OBVIOUS
    <3> HIDE DEF Chosen
    <3> QED
      BY <2>1, <3>1, QueuesKeepType
  <2> QED
    BY <1>4, <2>2 DEF CloseSubscribers, ring, browser
<1>5. CASE Publish
  <2>1. published + 1 \in Event
    BY <1>0, <1>5 DEF Publish, Event
  <2>2. events' \in Seq(Event) /\ Len(events') <= MaxEvents
    <3>1. Append(events, published + 1) \in Seq(Event)
      BY <2>1
    <3> QED
      BY <1>0, <1>5, <3>1, LastOfFacts DEF Publish
  <2>3. /\ published' \in 0..Total /\ holding' \subseteq Event
        /\ puts' = puts /\ UNCHANGED <<server, streams, browser>>
    BY <1>0, <1>5, <2>1 DEF Publish
  <2> QED
    BY <2>2, <2>3 DEF server, streams, browser
<1>6. ASSUME NEW e \in holding, Put(e) PROVE TypeOK'
  <2> DEFINE stale == {c \in subscribers : Len(queue[c]) >= QueueSize}
  <2>1. e \in Message /\ e \in Event
    OBVIOUS
  <2>2. /\ queue' = [c \in Connection |-> IF c \in subscribers \ stale
                                          THEN Append(queue[c], e) ELSE queue[c]]
        /\ subscribers' = subscribers \ stale
    BY <1>6 DEF Put
  <2>3. \A c \in subscribers \ stale : Len(queue[c]) < QueueSize
    <3> SUFFICES ASSUME NEW c \in subscribers \ stale PROVE Len(queue[c]) < QueueSize
      OBVIOUS
    <3>1. queue[c] \in Seq(Message) /\ ~ (Len(queue[c]) >= QueueSize)
      OBVIOUS
    <3> QED
      BY <1>0, <3>1
  <2>4. /\ queue' \in [Connection -> Seq(Message)]
        /\ \A c \in Connection : Len(queue'[c]) <= QueueSize
    <3> HIDE DEF stale
    <3> QED
      BY <2>1, <2>2, <2>3, QueuesKeepType
  <2> QED
    BY <1>6, <2>1, <2>2, <2>4 DEF Put, server, browser
<1>7. ASSUME NEW c \in Connection, Accept(c) \/ Serve(c) \/ GoAway(c),
             UNCHANGED <<ring, server, browser>>
      PROVE  TypeOK'
  <2> USE <1>7 DEF ring, server, browser, Moves
  <2>1. CASE Accept(c)
    BY <2>1 DEF Accept
  <2>2. CASE Subscribe(c)
    BY <2>2 DEF Subscribe
  <2>3. CASE Look(c)
    BY <2>3 DEF Look
  <2>4. CASE Write(c)
    <3>1. /\ queue[c] \in Seq(Message) /\ queue[c] # <<>>
          /\ queue' = [queue EXCEPT ![c] = Tail(@)]
      BY <2>4 DEF Write
    <3>2. /\ Tail(queue[c]) \in Seq(Message)
          /\ Len(Tail(queue[c])) <= Len(queue[c])
          /\ Head(queue[c]) \in Message
      BY <3>1
    <3>3. /\ queue' \in [Connection -> Seq(Message)]
          /\ \A d \in Connection : Len(queue'[d]) <= QueueSize
      <4>1. Len(Tail(queue[c])) <= QueueSize
        BY <1>0, <3>1, <3>2
      <4> QED
        BY <3>1, <3>2, <4>1
    <3>4. handler' \in [Connection -> Point] /\ UNCHANGED <<subscribers, connected>>
      BY <2>4 DEF Write
    <3>5. written' \in [Connection -> Seq(Message)]
      <4>1. CASE c \in connected
        <5>1. written' = [written EXCEPT ![c] = Append(@, Head(queue[c]))]
          BY <2>4, <4>1 DEF Write
        <5> QED
          BY <3>2, <5>1
      <4>2. CASE c \notin connected
        BY <2>4, <4>2 DEF Write
      <4> QED
        BY <4>1, <4>2
    <3> QED
      BY <3>3, <3>4, <3>5
  <2>5. CASE Keepalive(c)
    BY <2>5 DEF Keepalive
  <2>6. CASE Leave(c)
    BY <2>6 DEF Leave
  <2>7. CASE GoAway(c)
    BY <2>7 DEF GoAway
  <2> QED
    BY <2>1, <2>2, <2>3, <2>4, <2>5, <2>6, <2>7 DEF Serve
<1>8. CASE (OpenPage \/ LoadHistory \/ Poll) /\ UNCHANGED <<ring, server, streams>>
  <2>1. rendered' \subseteq Event
    <3>1. CASE Render(events)
      <4>1. events \in Seq(Event) /\ rendered \subseteq Event
        OBVIOUS
      <4>2. rendered' = rendered \cup Range(events)
        BY <3>1, <4>1, RenderFacts
      <4>3. Range(events) \subseteq Event
        BY <4>1 DEF Range
      <4> QED
        BY <4>1, <4>2, <4>3
    <3>2. CASE UNCHANGED rendered
      BY <3>2
    <3> QED
      BY <1>8, <3>1, <3>2 DEF OpenPage, LoadHistory, Poll
  <2>2. page' \in {"closed", "loading", "open", "failed"}
    BY <1>8 DEF OpenPage, LoadHistory, Poll
  <2> QED
    BY <1>8, <2>1, <2>2 DEF ring, server, streams
<1>9. CASE UNCHANGED vars
  BY <1>9 DEF vars
<1> QED
  BY <1>1, <1>2, <1>3, <1>4, <1>5, <1>6, <1>7, <1>8, <1>9 DEF Next

LEMMA VisualizerStarts == Init => TypeOK
<1> SUFFICES ASSUME Init PROVE TypeOK
  OBVIOUS
<1>1. {Publishers, Total, MaxEvents, QueueSize, Starts} \subseteq Nat
  BY VisualizerAssumption
<1>2. events = <<>> /\ Len(events) = 0 /\ puts = <<>> /\ holding = {} /\ rendered = {}
  BY DEF Init
<1>3. \A c \in Connection : queue[c] = <<>> /\ Len(queue[c]) = 0
  BY DEF Init
<1>4. /\ queue \in [Connection -> Seq(Event \cup {Close})]
      /\ written \in [Connection -> Seq(Event \cup {Close})]
      /\ handler \in [Connection -> Point]
  BY DEF Init, Point
<1>5. /\ published \in 0..Total /\ started \in 0..Starts
      /\ Len(events) <= MaxEvents
      /\ \A c \in Connection : Len(queue[c]) <= QueueSize
  BY <1>1, <1>2, <1>3 DEF Init
<1>6. events \in Seq(Event) /\ puts \in Seq(Event)
  BY <1>2
<1> QED
  BY <1>2, <1>4, <1>5, <1>6 DEF Init, TypeOK, Point

(* Every variable has its type; the ring and the queues keep to their      *)
(* limits.                                                                 *)
THEOREM VisualizerTypes == Spec => []TypeOK
BY VisualizerStarts, TypesKept, PTL DEF Spec
-----------------------------------------------------------------------------
(* A connection is subscribed only between Subscribe and Leave, and has    *)
(* been given nothing before.                                              *)
Subscribed ==
  \A c \in Connection :
    /\ c \in subscribers => handler[c] \in {"looking", "getting", "leaving"}
    /\ handler[c] \in {"none", "ready"} => Stream(c) = <<>>
    /\ handler[c] = "none" => c \notin connected

(* m is followed by the stretch of puts the connection was given, up to k. *)
Stretch(c, m, k) ==
  /\ c \in subscribers => k = Len(puts)
  /\ \/ Stream(c) = SubSeq(puts, m + 1, k)
     \/ c \notin subscribers /\ Stream(c) = Append(SubSeq(puts, m + 1, k), Close)

InOrder ==
  \A c \in connected : \E m \in 0..Len(puts) : \E k \in m..Len(puts) : Stretch(c, m, k)

StreamInv == Subscribed /\ InOrder

(* Passing the head on, and queueing behind what is there.                 *)
LEMMA StreamFacts ==
  ASSUME NEW S, NEW w \in Seq(S), NEW q \in Seq(S)
  PROVE  /\ q # <<>> => Append(w, Head(q)) \o Tail(q) = w \o q
         /\ \A m \in S : w \o Append(q, m) = Append(w \o q, m)
<1>1. ASSUME q # <<>> PROVE Append(w, Head(q)) \o Tail(q) = w \o q
  <2> DEFINE r == Append(w, Head(q)) \o Tail(q)
  <2>1. r \in Seq(S) /\ w \o q \in Seq(S) /\ Len(r) = Len(w \o q)
    BY <1>1
  <2>2. ASSUME NEW i \in 1..Len(r) PROVE r[i] = (w \o q)[i]
    BY <1>1
  <2> HIDE DEF r
  <2>3. r = w \o q
    BY <2>1, <2>2, SeqEqual
  <2> QED
    BY <2>3 DEF r
<1>2. ASSUME NEW m \in S PROVE w \o Append(q, m) = Append(w \o q, m)
  OBVIOUS
<1> QED
  BY <1>1, <1>2

(* A stretch of a list that grows, or grows with it.                       *)
Grows(s, e, m) ==
  SubSeq(Append(s, e), m + 1, Len(s) + 1) = Append(SubSeq(s, m + 1, Len(s)), e)

LEMMA StretchFacts ==
  ASSUME NEW S, NEW s \in Seq(S), NEW e \in S,
         NEW m \in 0..Len(s), NEW k \in m..Len(s)
  PROVE  /\ SubSeq(Append(s, e), m + 1, k) = SubSeq(s, m + 1, k)
         /\ Grows(s, e, m)
         /\ SubSeq(s, m + 1, k) \in Seq(S)
         /\ Len(SubSeq(s, m + 1, k)) = k - m
<1> DEFINE t == Append(s, e)
<1>1. /\ t \in Seq(S) /\ Len(t) = Len(s) + 1
      /\ \A i \in 1..Len(s) : t[i] = s[i]
      /\ t[Len(s) + 1] = e
  OBVIOUS
<1>2. ASSUME NEW j \in m..Len(s)
      PROVE  /\ SubSeq(s, m + 1, j) \in Seq(S)
             /\ Len(SubSeq(s, m + 1, j)) = j - m
             /\ \A i \in 1..(j - m) : SubSeq(s, m + 1, j)[i] = s[m + i]
  OBVIOUS
<1>3. ASSUME NEW j \in m..Len(t)
      PROVE  /\ SubSeq(t, m + 1, j) \in Seq(S)
             /\ Len(SubSeq(t, m + 1, j)) = j - m
             /\ \A i \in 1..(j - m) : SubSeq(t, m + 1, j)[i] = t[m + i]
  BY <1>1
<1> HIDE DEF t
<1>4. SubSeq(t, m + 1, k) = SubSeq(s, m + 1, k)
  <2>1. k \in m..Len(t) /\ k \in m..Len(s)
    BY <1>1
  <2>2. \A i \in 1..(k - m) : t[m + i] = s[m + i]
    BY <1>1
  <2> QED
    BY <1>2, <1>3, <2>1, <2>2, SeqEqual
<1>5. SubSeq(t, m + 1, Len(s) + 1) = Append(SubSeq(s, m + 1, Len(s)), e)
  <2> DEFINE l == Append(SubSeq(s, m + 1, Len(s)), e)
             r == SubSeq(t, m + 1, Len(s) + 1)
             n == Len(s) + 1 - m
  <2>1. Len(s) + 1 \in m..Len(t) /\ Len(s) \in m..Len(s)
    BY <1>1
  <2>2. /\ r \in Seq(S) /\ Len(r) = n
        /\ \A i \in 1..n : r[i] = t[m + i]
    BY <1>3, <2>1
  <2>3. /\ l \in Seq(S) /\ Len(l) = n
        /\ \A i \in 1..n : l[i] = t[m + i]
    <3>1. /\ SubSeq(s, m + 1, Len(s)) \in Seq(S)
          /\ Len(SubSeq(s, m + 1, Len(s))) = n - 1
          /\ \A i \in 1..(n - 1) : SubSeq(s, m + 1, Len(s))[i] = t[m + i]
      BY <1>1, <1>2, <2>1
    <3>2. n \in Nat \ {0} /\ m + n = Len(s) + 1
      OBVIOUS
    <3>3. PICK q : q = SubSeq(s, m + 1, Len(s))
      OBVIOUS
    <3>4. t[m + n] = e
      BY <1>1, <3>2
    <3> HIDE DEF n
    <3>5. q \in Seq(S) /\ Len(q) = n - 1 /\ \A i \in 1..(n - 1) : q[i] = t[m + i]
      BY <3>1, <3>3
    <3>6. /\ Append(q, e) \in Seq(S) /\ Len(Append(q, e)) = n
          /\ \A i \in 1..(n - 1) : Append(q, e)[i] = q[i]
          /\ Append(q, e)[n] = e
      BY <3>2, <3>5, AppendProperties
    <3>7. \A i \in 1..n : Append(q, e)[i] = t[m + i]
      BY ONLY <3>2, <3>4, <3>5, <3>6
    <3> QED
      BY <3>3, <3>6, <3>7
  <2> HIDE DEF l, r
  <2>4. l = r
    BY <2>2, <2>3, SeqEqual
  <2> QED
    BY <2>4 DEF l, r
<1> QED
  BY <1>2, <1>4, <1>5 DEF t, Grows

LEMMA StreamTypes ==
  ASSUME TypeOK, NEW c \in Connection
  PROVE  /\ written[c] \in Seq(Message)
         /\ queue[c] \in Seq(Message)
         /\ Stream(c) \in Seq(Message)
         /\ puts \in Seq(Event)
         /\ puts \in Seq(Message)
BY DEF TypeOK, Stream, Message

LEMMA SubscribedKept ==
  ASSUME TypeOK, Subscribed, [Next]_vars
  PROVE  Subscribed'
<1> USE DEF Subscribed
<1>1. CASE Start \/ Shutdown \/ MarkStopped \/ Publish
  BY <1>1 DEF Start, Shutdown, MarkStopped, Publish, streams, browser, Stream
<1>2. CASE CloseSubscribers
  BY <1>2, StreamTypes DEF CloseSubscribers, Stream
<1>3. ASSUME NEW e \in holding, Put(e) PROVE Subscribed'
  BY <1>3, StreamTypes DEF Put, Stream
<1>4. ASSUME NEW c \in Connection, Accept(c) \/ Serve(c) \/ GoAway(c)
      PROVE  Subscribed'
  <2> USE <1>4 DEF Moves, TypeOK
  <2>1. CASE Accept(c)
    BY <2>1 DEF Accept, Stream
  <2>2. CASE Subscribe(c)
    BY <2>2 DEF Subscribe, Stream
  <2>3. CASE Look(c)
    BY <2>3 DEF Look, Stream
  <2>4. CASE Write(c)
    <3>1. handler'[c] \in {"looking", "leaving"} /\ handler[c] = "getting"
      BY <2>4 DEF Write
    <3>2. ASSUME NEW d \in Connection, d # c
          PROVE  Stream(d)' = Stream(d) /\ handler'[d] = handler[d]
      BY <2>4, <3>2 DEF Write, Stream
    <3>3. UNCHANGED <<subscribers, connected>>
      BY <2>4 DEF Write
    <3> QED
      BY <3>1, <3>2, <3>3
  <2>5. CASE Keepalive(c)
    BY <2>5 DEF Keepalive, Stream
  <2>6. CASE Leave(c)
    BY <2>6 DEF Leave, Stream
  <2>7. CASE GoAway(c)
    BY <2>7 DEF GoAway, Stream
  <2> QED
    BY <2>1, <2>2, <2>3, <2>4, <2>5, <2>6, <2>7 DEF Serve
<1>5. CASE UNCHANGED streams
  BY <1>5 DEF streams, Stream
<1> QED
  BY <1>1, <1>2, <1>3, <1>4, <1>5 DEF Next, vars, streams

(* A step that changes neither the stream of a connection nor the puts     *)
(* keeps its stretch; it may end its subscription.                         *)
LEMMA StretchKept ==
  ASSUME NEW c \in Connection, Stream(c)' = Stream(c), UNCHANGED puts,
         c \in subscribers' => c \in subscribers,
         \E m \in 0..Len(puts) : \E k \in m..Len(puts) : Stretch(c, m, k)
  PROVE  (\E m \in 0..Len(puts) : \E k \in m..Len(puts) : Stretch(c, m, k))'
BY DEF Stretch

LEMMA InOrderKept ==
  ASSUME TypeOK, Subscribed, InOrder, [Next]_vars
  PROVE  InOrder'
<1> DEFINE Placed(c) == \E m \in 0..Len(puts) : \E k \in m..Len(puts) : Stretch(c, m, k)
<1>0. connected \subseteq Connection /\ puts \in Seq(Event) /\ Len(puts) \in Nat
  BY DEF TypeOK
<1>1. \A c \in connected : Placed(c)
  BY DEF InOrder
<1>2. ASSUME NEW c \in connected, Stream(c)' = Stream(c), UNCHANGED puts,
             c \in subscribers' => c \in subscribers
      PROVE  Placed(c)'
  BY <1>0, <1>1, <1>2, StretchKept
<1> SUFFICES ASSUME NEW c \in connected' PROVE Placed(c)'
  BY DEF InOrder
<1> HIDE DEF Placed
<1>3. CASE Start \/ Shutdown \/ MarkStopped \/ Publish
  BY <1>2, <1>3 DEF Start, Shutdown, MarkStopped, Publish, streams, browser, ring, Stream
<1>4. CASE CloseSubscribers
  <2>1. c \in connected /\ c \in Connection /\ UNCHANGED <<puts, written>> /\ subscribers' = {}
    BY <1>0, <1>4 DEF CloseSubscribers, ring
  <2>2. CASE c \in subscribers /\ Len(queue[c]) < QueueSize
    <3>1. Stream(c)' = Append(Stream(c), Close)
      <4>1. queue'[c] = Append(queue[c], Close)
        BY <1>4, <2>1, <2>2 DEF CloseSubscribers, TypeOK
      <4>2. written[c] \in Seq(Message) /\ queue[c] \in Seq(Message) /\ Close \in Message
        BY <2>1, StreamTypes DEF Message
      <4>3. written[c] \o Append(queue[c], Close) = Append(written[c] \o queue[c], Close)
        BY <4>2, StreamFacts
      <4> QED
        BY <2>1, <4>1, <4>3 DEF Stream
    <3>2. PICK m \in 0..Len(puts) : \E k \in m..Len(puts) : Stretch(c, m, k)
      BY <1>1, <2>1 DEF Placed
    <3>3. PICK k \in m..Len(puts) : Stretch(c, m, k)
      BY <3>2
    <3> QED
      BY <2>1, <2>2, <3>1, <3>3 DEF Placed, Stretch
  <2>3. CASE ~ (c \in subscribers /\ Len(queue[c]) < QueueSize)
    <3>1. queue'[c] = queue[c]
      BY <1>4, <2>1, <2>3 DEF CloseSubscribers, TypeOK
    <3> QED
      BY <1>2, <2>1, <3>1 DEF Stream
  <2> QED
    BY <2>2, <2>3
<1>5. ASSUME NEW e \in holding, Put(e) PROVE Placed(c)'
  <2> DEFINE stale == {d \in subscribers : Len(queue[d]) >= QueueSize}
  <2>1. /\ c \in connected /\ c \in Connection /\ e \in Event /\ UNCHANGED written
        /\ puts' = Append(puts, e) /\ subscribers' = subscribers \ stale
    BY <1>0, <1>5 DEF Put, TypeOK
  <2>0. PICK m \in 0..Len(puts) : \E k \in m..Len(puts) : Stretch(c, m, k)
    BY <1>1, <2>1 DEF Placed
  <2>2. PICK k \in m..Len(puts) : Stretch(c, m, k)
    BY <2>0
  <2>3. /\ SubSeq(puts', m + 1, k) = SubSeq(puts, m + 1, k)
        /\ SubSeq(puts', m + 1, Len(puts) + 1) = Append(SubSeq(puts, m + 1, Len(puts)), e)
        /\ Len(puts') = Len(puts) + 1
    <3>1. puts \in Seq(Event) /\ e \in Event /\ m \in 0..Len(puts) /\ k \in m..Len(puts)
      BY <1>0, <2>1
    <3>2. Len(Append(puts, e)) = Len(puts) + 1
      BY <3>1
    <3>3. /\ SubSeq(Append(puts, e), m + 1, k) = SubSeq(puts, m + 1, k)
          /\ SubSeq(Append(puts, e), m + 1, Len(puts) + 1)
               = Append(SubSeq(puts, m + 1, Len(puts)), e)
      <4>1. SubSeq(Append(puts, e), m + 1, k) = SubSeq(puts, m + 1, k)
        BY ONLY <3>1, StretchFacts, SMT
      <4>2. SubSeq(Append(puts, e), m + 1, Len(puts) + 1)
              = Append(SubSeq(puts, m + 1, Len(puts)), e)
        <5>1. Grows(puts, e, m)
          BY ONLY <3>1, StretchFacts, SMT
        <5> QED
          BY ONLY <5>1, Zenon DEF Grows
      <4> QED
        BY ONLY <4>1, <4>2
    <3> QED
      BY <2>1, <3>2, <3>3
  <2>4. CASE c \in subscribers \ stale
    <3>1. Stream(c)' = Append(Stream(c), e)
      <4>1. queue'[c] = Append(queue[c], e)
        BY <1>5, <2>1, <2>4 DEF Put
      <4>2. written[c] \in Seq(Message) /\ queue[c] \in Seq(Message) /\ e \in Message
        BY <2>1, StreamTypes DEF Message
      <4>3. written[c] \o Append(queue[c], e) = Append(written[c] \o queue[c], e)
        BY <4>2, StreamFacts
      <4> QED
        BY <2>1, <4>1, <4>3 DEF Stream
    <3>2. Stream(c)' = SubSeq(puts', m + 1, Len(puts'))
      BY <2>2, <2>3, <2>4, <3>1 DEF Stretch
    <3>3. m \in 0..Len(puts') /\ Len(puts') \in m..Len(puts')
      BY <1>0, <2>3
    <3> QED
      BY <3>2, <3>3 DEF Placed, Stretch
  <2>5. CASE c \notin subscribers \ stale
    <3>1. Stream(c)' = Stream(c)
      BY <1>5, <2>1, <2>5 DEF Put, Stream
    <3>2. m \in 0..Len(puts') /\ k \in m..Len(puts') /\ c \notin subscribers'
      BY <1>0, <2>1, <2>3, <2>5
    <3> QED
      BY <2>2, <2>3, <3>1, <3>2 DEF Placed, Stretch
  <2> QED
    BY <2>4, <2>5
<1>6. ASSUME NEW d \in Connection, Accept(d) \/ Serve(d) \/ GoAway(d),
             UNCHANGED <<ring, server, browser>>
      PROVE  Placed(c)'
  <2>0. UNCHANGED puts
    BY <1>6 DEF ring
  <2>1. CASE Accept(d)
    <3>1. CASE c = d
      <4>1. Stream(c)' = <<>> /\ c \notin subscribers'
        BY <2>1, <3>1 DEF Accept, Stream, Subscribed
      <4>2. SubSeq(puts', 0 + 1, 0) = <<>>
        BY <1>0, <2>0
      <4>3. 0 \in 0..Len(puts') /\ 0 \in 0..Len(puts') /\ Stretch(c, 0, 0)'
        BY <1>0, <2>0, <4>1, <4>2 DEF Stretch
      <4> QED
        BY <4>3 DEF Placed
    <3>2. CASE c # d
      BY <1>2, <2>0, <2>1, <3>2 DEF Accept, Stream
    <3> QED
      BY <3>1, <3>2
  <2>2. CASE Subscribe(d)
    <3>1. CASE c = d
      <4>1. Stream(c)' = <<>>
        BY <2>2, <3>1 DEF Subscribe, Stream, Subscribed
      <4> DEFINE n == Len(puts)
      <4>2. n' = n /\ n \in Nat /\ SubSeq(puts', n + 1, n) = <<>>
        BY <1>0, <2>0
      <4>3. Stretch(c, n, n)'
        BY <4>1, <4>2 DEF Stretch
      <4>4. n' \in 0..Len(puts') /\ n' \in n'..Len(puts')
        BY <4>2
      <4> HIDE DEF n
      <4> QED
        BY <4>3, <4>4 DEF Placed
    <3>2. CASE c # d
      BY <1>2, <2>0, <2>2, <3>2 DEF Subscribe, Stream
    <3> QED
      BY <3>1, <3>2
  <2>3. CASE Look(d)
    BY <1>2, <2>0, <2>3 DEF Look, Stream
  <2>4. CASE Write(d)
    <3>1. c \in connected /\ c \in Connection /\ UNCHANGED subscribers
      BY <1>0, <2>4 DEF Write
    <3>2. Stream(c)' = Stream(c)
      <4>1. CASE c = d
        <5>1. /\ queue[c] # <<>> /\ queue'[c] = Tail(queue[c])
              /\ written'[c] = Append(written[c], Head(queue[c]))
          BY <2>4, <3>1, <4>1 DEF Write, TypeOK
        <5> QED
          BY <3>1, <5>1, StreamTypes, StreamFacts DEF Stream
      <4>2. CASE c # d
        BY <2>4, <3>1, <4>2 DEF Write, Stream, TypeOK
      <4> QED
        BY <4>1, <4>2
    <3> QED
      BY <1>2, <2>0, <3>1, <3>2
  <2>5. CASE Keepalive(d)
    BY <1>2, <2>0, <2>5 DEF Keepalive, Stream
  <2>6. CASE Leave(d)
    BY <1>2, <2>0, <2>6 DEF Leave, Stream
  <2>7. CASE GoAway(d)
    BY <1>2, <2>0, <2>7 DEF GoAway, Stream
  <2> QED
    BY <1>6, <2>1, <2>2, <2>3, <2>4, <2>5, <2>6, <2>7 DEF Serve
<1>7. CASE UNCHANGED <<ring, streams>>
  BY <1>2, <1>7 DEF ring, streams, Stream
<1> QED
  BY <1>3, <1>4, <1>5, <1>6, <1>7 DEF Next, vars, ring, streams

LEMMA StreamInvariant == Spec => [](TypeOK /\ StreamInv)
<1>1. Init => TypeOK /\ StreamInv
  <2>1. Init => StreamInv
    BY DEF Init, StreamInv, Subscribed, InOrder, Stream
  <2> QED
    BY <2>1, VisualizerStarts
<1>2. TypeOK /\ StreamInv /\ [Next]_vars => (TypeOK /\ StreamInv)'
  BY TypesKept, SubscribedKept, InOrderKept DEF StreamInv
<1> QED
  BY <1>1, <1>2, PTL DEF Spec

(* No connection is given an incomplete stream: neither a publisher that   *)
(* was overtaken, nor a full queue, nor a stop leaves a gap.               *)
THEOREM StreamsWithoutGap == Spec => []StreamsHaveNoGap
<1>1. TypeOK /\ StreamInv => StreamsHaveNoGap
  <2> SUFFICES ASSUME TypeOK, StreamInv, NEW c \in Connection, c \in connected
               PROVE  /\ \E i \in 1..Len(puts) + 1, j \in 0..Len(puts) :
                           Received(c) = SubSeq(puts, i, j)
                      /\ c \in subscribers /\ Received(c) # <<>> =>
                           Last(Received(c)) = Last(puts)
    BY DEF StreamsHaveNoGap
  <2>0. PICK m \in 0..Len(puts) : \E k \in m..Len(puts) : Stretch(c, m, k)
    BY DEF StreamInv, InOrder
  <2>1. PICK k \in m..Len(puts) : Stretch(c, m, k)
    BY <2>0
  <2> DEFINE given == SubSeq(puts, m + 1, k)
  <2>2. /\ puts \in Seq(Event) /\ Len(puts) \in Nat
        /\ given \in Seq(Event) /\ Len(given) = k - m
        /\ \A i \in 1..(k - m) : given[i] = puts[m + i]
    BY DEF TypeOK
  <2>3. m + 1 \in 1..Len(puts) + 1 /\ k \in 0..Len(puts)
    BY <2>2
  <2>4. Received(c) = given
    <3>1. CASE Stream(c) = given
      <4>1. ASSUME given # <<>> PROVE Last(given) # Close
        <5>1. Len(given) \in 1..Len(given)
          BY <2>2, <4>1
        <5>2. given[Len(given)] \in Event
          BY <2>2, <5>1
        <5>3. Close \notin Event
          BY VisualizerAssumption DEF Event, Close
        <5>4. Last(given) = given[Len(given)]
          <6> HIDE DEF given
          <6> QED
            BY DEF Last
        <5> QED
          BY ONLY <5>2, <5>3, <5>4
      <4> QED
        BY <3>1, <4>1 DEF Received
    <3>2. CASE Stream(c) = Append(given, Close)
      <4> HIDE DEF given
      <4>1. Stream(c) # <<>> /\ Last(Stream(c)) = Close /\ Front(Stream(c)) = given
        <5>1. Len(Append(given, Close)) = Len(given) + 1
          BY <2>2
        <5>2. SubSeq(Append(given, Close), 1, Len(given)) = given
          BY <2>2
        <5> QED
          BY <2>2, <3>2, <5>1, <5>2 DEF Last, Front
      <4> QED
        BY <4>1 DEF Received
    <3> QED
      BY <2>1, <3>1, <3>2 DEF Stretch
  <2>5. ASSUME c \in subscribers, given # <<>> PROVE Last(given) = Last(puts)
    <3>1. k = Len(puts) /\ k - m \in Nat
      BY <2>1, <2>5 DEF Stretch
    <3>2. k - m # 0
      BY <2>2, <2>5
    <3> HIDE DEF given
    <3> QED
      BY <2>2, <3>1, <3>2 DEF Last
  <2> HIDE DEF given
  <2> QED
    BY <2>3, <2>4, <2>5 DEF given
<1> QED
  BY <1>1, StreamInvariant, PTL
=============================================================================
