-------------------------- MODULE HistoryReportProofs --------------------------
(***************************************************************************)
(* What is read off the event history is true: the reported times, the     *)
(* bars of the operations and those of the dispatcher.                     *)
(*                                                                         *)
(* The invariant says that the events tell what happened: there is a       *)
(* story, the situation before the first event and after each, in which    *)
(* every event does what its type says and every tick between two events   *)
(* passed in the situation between them. What a window and a limit select  *)
(* is a stretch of the history and has a part of the story.                *)
(*                                                                         *)
(* The reports fold over that stretch. A lemma on each fold gives the      *)
(* accumulators after each event as a sequence (acc), and what a report    *)
(* says follows from what holds of acc and the story after every event.    *)
(* No lemma can have the folded operator as a parameter, so each of the    *)
(* five goes from FoldExists to its accumulators by the same steps.        *)
(***************************************************************************)
EXTENDS HistoryReport, SequenceFacts, SequenceTheorems

Time == Nat \cup {None}

OperationEvents == {"OPERATION_ADDED", "OPERATION_STARTED", "OPERATION_PAUSED",
                    "OPERATION_RESUMED", "OPERATION_FINISHED", "OPERATION_OTHER"}

DispatcherEvents == {"DISPATCHER_STARTED", "DISPATCHER_STOPPED",
                     "DISPATCHER_PAUSED", "DISPATCHER_RESUMED"}

EventType == OperationEvents \cup DispatcherEvents

Event == [type : EventType, operation : Operation \cup {None}, at : Nat]

Record == [bucket : {"queued", "active", "completed"},
           state : {"QUEUED", "RUNNING", "PAUSED", "COMPLETED"},
           created_at : Nat, start_time : Time, finish_time : Time]

Situation == [running : BOOLEAN, paused : BOOLEAN, suspended : SUBSET Operation]

Types ==
  /\ now \in Nat
  /\ event_history \in Seq(Event)
  /\ emitted \in Nat
  /\ is_running \in BOOLEAN
  /\ is_paused \in BOOLEAN
  /\ off_duty \in BOOLEAN
  /\ rewritten \in SUBSET Operation
  /\ Known \subseteq Operation
  /\ \A o \in Known : operations[o] \in Record
  /\ past \in Seq(Situation)
  /\ Len(past) = now

(* What is active has been started, and nothing has in the future, unless  *)
(* an update says so.                                                      *)
Started ==
  \A o \in Known \ rewritten :
    /\ operations[o].bucket = "active" => operations[o].start_time # None
    /\ operations[o].start_time # None => operations[o].start_time <= now

Occurrence(type, o) == [type |-> type, operation |-> o, at |-> now]
-----------------------------------------------------------------------------
(* y is x without its first k elements.                                    *)
Suffix(y, x, k) == Len(y) = Len(x) - k /\ \A i \in 1..Len(y) : y[i] = x[i + k]

LEMMA LastOfFacts ==
  ASSUME NEW S, NEW s \in Seq(S), NEW n \in Nat
  PROVE  /\ LastOf(s, n) \in Seq(S)
         /\ \E k \in 0..Len(s) : Suffix(LastOf(s, n), s, k)
<1>1. CASE Len(s) > n
  <2>1. PICK k \in 0..Len(s) : k = Len(s) - n
    BY <1>1
  <2>2. LastOf(s, n) = SubSeq(s, k + 1, Len(s))
    BY <1>1, <2>1 DEF LastOf
  <2>3. /\ SubSeq(s, k + 1, Len(s)) \in Seq(S)
        /\ Len(SubSeq(s, k + 1, Len(s))) = Len(s) - k
        /\ \A i \in 1..(Len(s) - k) : SubSeq(s, k + 1, Len(s))[i] = s[i + k]
    OBVIOUS
  <2> QED
    BY <2>2, <2>3 DEF Suffix
<1>2. CASE ~ (Len(s) > n)
  <2>1. LastOf(s, n) = SubSeq(s, 1, Len(s)) /\ SubSeq(s, 1, Len(s)) = s
    BY <1>2 DEF LastOf
  <2>2. 0 \in 0..Len(s) /\ Len(s) = Len(s) - 0 /\ \A i \in 1..Len(s) : s[i] = s[i + 0]
    OBVIOUS
  <2> QED
    BY <2>1, <2>2 DEF Suffix
<1> QED
  BY <1>1, <1>2

(* A short sequence put behind another.                                    *)
LEMMA ConcatShort ==
  ASSUME NEW S, NEW w \in Seq(S)
  PROVE  /\ \A f \in [1..1 -> S] : w \o f = Append(w, f[1])
         /\ \A f \in [1..2 -> S] : w \o f = Append(Append(w, f[1]), f[2])
<1>1. \A n \in Nat : \A f \in [1..n -> S] : f \in Seq(S)
  BY SeqDef
<1>2. ASSUME NEW f \in [1..1 -> S] PROVE w \o f = Append(w, f[1])
  <2>1. f \in Seq(S) /\ Len(f) = 1 /\ f[1] \in S
    <3>1. f \in Seq(S)
      BY <1>1
    <3>2. DOMAIN f = 1..1 /\ DOMAIN f = 1..Len(f) /\ Len(f) \in Nat
      BY <3>1, LenProperties
    <3> QED
      BY <3>1, <3>2
  <2>2. /\ w \o f \in Seq(S) /\ Len(w \o f) = Len(w) + 1 /\ Len(w) \in Nat
        /\ \A i \in 1..(Len(w) + 1) : (w \o f)[i] = IF i <= Len(w) THEN w[i] ELSE f[i - Len(w)]
    <3>1. Len(w) \in Nat
      BY LenProperties
    <3>2. /\ w \o f \in Seq(S) /\ Len(w \o f) = Len(w) + Len(f)
          /\ \A i \in 1..Len(w) + Len(f) :
               (w \o f)[i] = IF i <= Len(w) THEN w[i] ELSE f[i - Len(w)]
      BY <2>1, ConcatProperties, Zenon
    <3> QED
      BY ONLY <2>1, <3>1, <3>2, Zenon
  <2>3. /\ Append(w, f[1]) \in Seq(S) /\ Len(Append(w, f[1])) = Len(w) + 1
        /\ \A i \in 1..Len(w) : Append(w, f[1])[i] = w[i]
        /\ Append(w, f[1])[Len(w) + 1] = f[1]
    BY <2>1, AppendProperties
  <2>4. ASSUME NEW i \in 1..Len(w \o f) PROVE (w \o f)[i] = Append(w, f[1])[i]
    <3>1. i \in 1..Len(w) \/ i = Len(w) + 1
      BY <2>2
    <3> QED
      BY <2>2, <2>3, <3>1
  <2> QED
    BY ONLY <2>2, <2>3, <2>4, SeqEqual
<1>3. ASSUME NEW f \in [1..2 -> S] PROVE w \o f = Append(Append(w, f[1]), f[2])
  <2> DEFINE v == Append(w, f[1])
             r == Append(v, f[2])
  <2>1. f \in Seq(S) /\ Len(f) = 2 /\ f[1] \in S /\ f[2] \in S
    <3>1. f \in Seq(S)
      BY <1>1
    <3>2. DOMAIN f = 1..2 /\ DOMAIN f = 1..Len(f) /\ Len(f) \in Nat
      BY <3>1, LenProperties
    <3> QED
      BY <3>1, <3>2
  <2>2. /\ w \o f \in Seq(S) /\ Len(w \o f) = Len(w) + 2 /\ Len(w) \in Nat
        /\ \A i \in 1..(Len(w) + 2) : (w \o f)[i] = IF i <= Len(w) THEN w[i] ELSE f[i - Len(w)]
    <3>1. Len(w) \in Nat
      BY LenProperties
    <3>2. /\ w \o f \in Seq(S) /\ Len(w \o f) = Len(w) + Len(f)
          /\ \A i \in 1..Len(w) + Len(f) :
               (w \o f)[i] = IF i <= Len(w) THEN w[i] ELSE f[i - Len(w)]
      BY <2>1, ConcatProperties, Zenon
    <3> QED
      BY ONLY <2>1, <3>1, <3>2, Zenon
  <2>3. /\ v \in Seq(S) /\ Len(v) = Len(w) + 1 /\ v[Len(w) + 1] = f[1]
        /\ \A i \in 1..Len(w) : v[i] = w[i]
    BY <2>1, AppendProperties
  <2> HIDE DEF v
  <2>4. /\ r \in Seq(S) /\ Len(r) = Len(w) + 2 /\ r[Len(w) + 2] = f[2]
        /\ \A i \in 1..(Len(w) + 1) : r[i] = v[i]
    <3>1. Len(v) + 1 = Len(w) + 2
      BY <2>2, <2>3
    <3> QED
      BY <2>1, <2>3, <3>1, AppendProperties
  <2> HIDE DEF r
  <2>5. ASSUME NEW i \in 1..Len(w \o f) PROVE (w \o f)[i] = r[i]
    <3>1. i \in 1..Len(w) \/ i = Len(w) + 1 \/ i = Len(w) + 2
      BY <2>2
    <3>2. CASE i \in 1..Len(w)
      BY <2>2, <2>3, <2>4, <3>2
    <3>3. CASE i = Len(w) + 1
      BY <2>2, <2>3, <2>4, <3>3
    <3>4. CASE i = Len(w) + 2
      BY <2>2, <2>4, <3>4
    <3> QED
      BY <3>1, <3>2, <3>3, <3>4
  <2>6. w \o f = r
    BY ONLY <2>2, <2>4, <2>5, SeqEqual
  <2> QED
    BY <2>6 DEF r, v
<1> QED
  BY <1>2, <1>3

LEMMA EmitOne ==
  ASSUME Types, NEW o \in Operation \cup {None}, NEW a \in EventType, Emit(<<a>>, o)
  PROVE  /\ emitted' = emitted + 1
         /\ Occurrence(a, o) \in Event
         /\ event_history' = LastOf(Append(event_history, Occurrence(a, o)),
                                    EventHistoryLimit)
<1> DEFINE x == event_history
           new == [i \in 1..1 |-> Occurrence(<<a>>[i], o)]
<1>1. x \in Seq(Event) /\ Occurrence(a, o) \in Event
  BY DEF Types, Occurrence, Event
<1> HIDE DEF x
<1>2. new \in [1..1 -> Event] /\ new[1] = Occurrence(a, o)
  BY <1>1 DEF Occurrence
<1>3. emitted' = emitted + 1 /\ event_history' = LastOf(x \o new, EventHistoryLimit)
  BY DEF x, Emit, Occurrence
<1> HIDE DEF new
<1> QED
  BY <1>1, <1>2, <1>3, ConcatShort DEF x

LEMMA EmitTwo ==
  ASSUME Types, NEW o \in Operation \cup {None}, NEW a \in EventType, NEW b \in EventType,
         Emit(<<a, b>>, o)
  PROVE  /\ emitted' = emitted + 2
         /\ Occurrence(a, o) \in Event /\ Occurrence(b, o) \in Event
         /\ event_history' =
              LastOf(Append(Append(event_history, Occurrence(a, o)), Occurrence(b, o)),
                     EventHistoryLimit)
<1> DEFINE x == event_history
           new == [i \in 1..2 |-> Occurrence(<<a, b>>[i], o)]
<1>1. x \in Seq(Event) /\ Occurrence(a, o) \in Event /\ Occurrence(b, o) \in Event
  BY DEF Types, Occurrence, Event
<1> HIDE DEF x
<1>2. new \in [1..2 -> Event] /\ new[1] = Occurrence(a, o) /\ new[2] = Occurrence(b, o)
  BY <1>1 DEF Occurrence
<1>3. emitted' = emitted + 2 /\ event_history' = LastOf(x \o new, EventHistoryLimit)
  BY DEF x, Emit, Occurrence
<1> HIDE DEF new
<1> QED
  BY <1>1, <1>2, <1>3, ConcatShort DEF x
-----------------------------------------------------------------------------
(* The story.                                                              *)

Current ==
  [running |-> is_running, paused |-> is_paused,
   suspended |-> {o \in Active : operations[o].state = "PAUSED"}]

(* What may have happened besides: the dispatcher may have been paused or  *)
(* resumed while it was not running, and updates may have written the      *)
(* state of an operation.                                                  *)
Beside == [duty : BOOLEAN, out : SUBSET Operation]

Sofar == [duty |-> off_duty, out |-> rewritten]

Wider(off, more) == (off.duty => more.duty) /\ off.out \subseteq more.out

(* What an event says of the situations before and after it. Pausing the   *)
(* dispatcher may suspend an operation.                                    *)
Follows(before, e, after, off) ==
  /\ after.running = (e.type = "DISPATCHER_STARTED" \/
                      (e.type # "DISPATCHER_STOPPED" /\ before.running))
  /\ after.paused = (e.type = "DISPATCHER_PAUSED" \/
                     (e.type # "DISPATCHER_RESUMED" /\ before.paused))
  /\ e.type = "DISPATCHER_STARTED" => ~before.running
  /\ e.type = "DISPATCHER_STOPPED" => before.running
  /\ e.type \in {"DISPATCHER_PAUSED", "DISPATCHER_RESUMED"} => after.running \/ off.duty
  /\ \A o \in before.suspended \ off.out :
       \/ e.operation = o /\ e.type \in {"OPERATION_RESUMED", "OPERATION_FINISHED"}
       \/ o \in after.suspended
  /\ e.type = "OPERATION_PAUSED" => e.operation \in after.suspended

(* The ticks between the i-th event of x and the next.                     *)
Between(x, i) ==
  {t \in 1..now : (i > 0 => x[i].at < t) /\ (i < Len(x) => t <= x[i+1].at)}

(* A start in the paused situation is followed by the pause at once.       *)
Announced(s, x, i) ==
  x[i].type = "DISPATCHER_STARTED" /\ s[i].paused =>
    x[i+1].type = "DISPATCHER_PAUSED" /\ x[i+1].at = x[i].at

(* s tells the story of x. What passed before the first event is known     *)
(* when x is the whole history.                                            *)
Tells(s, x, whole, off) ==
  /\ \A i \in 1..Len(x) : Follows(s[i-1], x[i], s[i], off)
  /\ \A i \in 0..Len(x) : (i = 0 => whole) => \A t \in Between(x, i) : past[t] = s[i]
  /\ \A i \in 1..Len(x) - 1 : Announced(s, x, i)

(* x has a story that ends in the situation c.                             *)
Told(x, whole, c, off) ==
  \E s \in [0..Len(x) -> Situation] : Tells(s, x, whole, off) /\ s[Len(x)] = c

LEMMA ToldFurther ==
  ASSUME NEW x \in Seq(Event), NEW whole \in BOOLEAN, NEW c, NEW off \in Beside,
         Told(x, whole, c, off), NEW more \in Beside, Wider(off, more),
         NEW e \in Event, e.at = now, NEW d \in Situation, Follows(c, e, d, more),
         Len(x) > 0 /\ x[Len(x)].type = "DISPATCHER_STARTED" /\ c.paused =>
           e.type = "DISPATCHER_PAUSED" /\ x[Len(x)].at = now
  PROVE  Told(Append(x, e), whole, d, more)
<1> DEFINE n == Len(x)
           y == Append(x, e)
<1>1. PICK s \in [0..n -> Situation] : Tells(s, x, whole, off) /\ s[n] = c
  BY DEF Told
<1>2. /\ n \in Nat /\ y \in Seq(Event) /\ Len(y) = n + 1 /\ y[n+1] = e
      /\ \A i \in 1..n : y[i] = x[i]
  OBVIOUS
<1> DEFINE r == [i \in 0..n+1 |-> IF i = n + 1 THEN d ELSE s[i]]
<1>3. /\ r \in [0..n+1 -> Situation] /\ r[n+1] = d
      /\ \A i \in 0..n : r[i] = s[i]
  BY <1>2
<1> HIDE DEF n, y, r
<1>4. ASSUME NEW i \in 1..n+1 PROVE Follows(r[i-1], y[i], r[i], more)
  <2>1. CASE i = n + 1
    <3>1. i - 1 = n /\ n \in 0..n
      BY <1>2, <2>1
    <3>2. r[i-1] = c /\ y[i] = e /\ r[i] = d
      BY <1>1, <1>2, <1>3, <2>1, <3>1
    <3> QED
      BY <3>2
  <2>2. CASE i # n + 1
    <3>1. i \in 1..n /\ i - 1 \in 0..n /\ i \in 0..n
      BY <1>2, <2>2
    <3>2. r[i-1] = s[i-1] /\ y[i] = x[i] /\ r[i] = s[i]
      BY <1>2, <1>3, <3>1
    <3>3. Follows(s[i-1], x[i], s[i], off)
      BY <1>1, <3>1 DEF Tells, n
    <3> QED
      BY <3>2, <3>3 DEF Follows, Wider
  <2> QED
    BY <2>1, <2>2
<1>5. ASSUME NEW i \in 0..n+1, i = 0 => whole, NEW t \in Between(y, i)
      PROVE  past[t] = r[i]
  <2>1. t \in 1..now /\ (i > 0 => y[i].at < t) /\ (i < n + 1 => t <= y[i+1].at)
    BY <1>2, <1>5 DEF Between
  <2>2. now \in Int
    BY DEF Event
  <2>3. CASE i = n + 1
    BY <1>2, <2>1, <2>2, <2>3
  <2>4. CASE i # n + 1
    <3>1. i \in 0..n
      BY <1>2, <2>4
    <3>2. t \in Between(x, i)
      <4>1. i > 0 => x[i].at < t
        <5>1. i > 0 => i \in 1..n
          BY <1>2, <3>1
        <5>2. i > 0 => y[i] = x[i]
          BY <1>2, <5>1
        <5> QED
          BY ONLY <2>1, <5>2, Zenon
      <4>2. i < n => t <= x[i+1].at
        <5>1. i < n => i + 1 \in 1..n /\ i < n + 1
          BY <1>2, <3>1
        <5> QED
          BY <1>2, <2>1, <5>1
      <4> QED
        BY <2>1, <4>1, <4>2 DEF Between, n
    <3> QED
      BY <1>1, <1>3, <1>5, <3>1, <3>2 DEF Tells, n
  <2> QED
    BY <2>3, <2>4
<1>6. ASSUME NEW i \in 1..n PROVE Announced(r, y, i)
  <2>1. i \in 0..n /\ i \in 1..n+1 /\ r[i] = s[i] /\ y[i] = x[i]
    BY <1>2, <1>3
  <2>2. CASE i = n
    <3>1. y[i+1] = e /\ s[i] = c /\ n > 0
      BY <1>1, <1>2, <2>2
    <3> QED
      BY <2>1, <2>2, <3>1 DEF Announced, n
  <2>3. CASE i # n
    <3>1. i \in 1..n-1 /\ i + 1 \in 1..n
      BY <1>2, <2>3
    <3>2. Announced(s, x, i) /\ y[i+1] = x[i+1]
      BY <1>1, <1>2, <3>1 DEF Tells, n
    <3> QED
      BY <2>1, <3>2 DEF Announced
  <2> QED
    BY <2>2, <2>3
<1>7. Tells(r, y, whole, more)
  <2>1. Len(y) = n + 1 /\ Len(y) - 1 = n
    BY <1>2
  <2> QED
    BY <1>4, <1>5, <1>6, <2>1 DEF Tells
<1> QED
  BY <1>2, <1>3, <1>7 DEF Told, y

LEMMA ToldFrom ==
  ASSUME NEW x \in Seq(Event), NEW whole \in BOOLEAN, NEW c, NEW off,
         Told(x, whole, c, off),
         NEW y \in Seq(Event), NEW k \in 0..Len(x), Suffix(y, x, k),
         NEW part \in BOOLEAN, part => whole /\ k = 0
  PROVE  Told(y, part, c, off)
<1> DEFINE n == Len(x)
           m == Len(y)
<1>1. PICK s \in [0..n -> Situation] : Tells(s, x, whole, off) /\ s[n] = c
  BY DEF Told
<1> DEFINE r == [i \in 0..m |-> s[i + k]]
<1>2. n \in Nat /\ m \in Nat /\ n = m + k /\ k \in Nat
  BY DEF Suffix
<1>3. \A i \in 1..m : y[i] = x[i + k]
  BY DEF Suffix
<1>4. /\ r \in [0..m -> Situation] /\ r[m] = c
      /\ \A i \in 0..m : r[i] = s[i + k]
  BY <1>1, <1>2
<1> HIDE DEF n, m, r
<1>5. ASSUME NEW i \in 1..m PROVE Follows(r[i-1], y[i], r[i], off)
  <2>1. i + k \in 1..n /\ i - 1 \in 0..m /\ i \in 0..m /\ (i - 1) + k = (i + k) - 1
    BY <1>2
  <2>2. Follows(s[(i + k) - 1], x[i + k], s[i + k], off)
    BY <1>1, <2>1 DEF Tells, n
  <2>3. r[i-1] = s[(i + k) - 1] /\ r[i] = s[i + k] /\ y[i] = x[i + k]
    BY <1>4, <1>3, <2>1
  <2> QED
    BY <2>2, <2>3
<1>6. ASSUME NEW i \in 0..m, i = 0 => part, NEW t \in Between(y, i)
      PROVE  past[t] = r[i]
  <2>1. i + k \in 0..n /\ (i + k = 0 => whole) /\ (i < m <=> i + k < n)
    BY <1>2, <1>6
  <2>2. t \in Between(x, i + k)
    <3>1. t \in 1..now /\ (i > 0 => y[i].at < t) /\ (i < m => t <= y[i+1].at)
      BY <1>6 DEF Between, m
    <3>2. i + k > 0 => x[i + k].at < t
      <4>1. i + k > 0 => i > 0
        BY <1>2, <1>6
      <4>2. i > 0 => i \in 1..m
        BY <1>2
      <4> QED
        BY <1>3, <3>1, <4>1, <4>2
    <3>3. i + k < n => t <= x[(i + k) + 1].at
      <4>1. i + k < n => i + 1 \in 1..m /\ (i + 1) + k = (i + k) + 1
        BY <1>2
      <4> QED
        BY <1>3, <2>1, <3>1, <4>1
    <3> QED
      BY <3>1, <3>2, <3>3 DEF Between, n
  <2>3. r[i] = s[i + k]
    BY <1>4
  <2> QED
    BY <1>1, <2>1, <2>2, <2>3 DEF Tells, n
<1>7. ASSUME NEW i \in 1..m-1 PROVE Announced(r, y, i)
  <2>1. /\ i + k \in 1..n-1 /\ i \in 1..m /\ i + 1 \in 1..m /\ i \in 0..m
        /\ (i + 1) + k = (i + k) + 1
    BY <1>2
  <2>2. Announced(s, x, i + k)
    BY <1>1, <2>1 DEF Tells, n
  <2>3. r[i] = s[i + k] /\ y[i] = x[i + k] /\ y[i+1] = x[(i + k) + 1]
    BY <1>4, <1>3, <2>1
  <2> QED
    BY <2>2, <2>3 DEF Announced
<1>8. Tells(r, y, part, off)
  BY <1>5, <1>6, <1>7 DEF Tells, m
<1> QED
  BY <1>4, <1>8 DEF Told, m
-----------------------------------------------------------------------------
(* What the records say of an event, and an event of a later one.          *)
Fits(e) ==
  /\ e.at <= now
  /\ e.type = "OPERATION_PAUSED" =>
       /\ e.operation \in Known
       /\ operations[e.operation].bucket # "queued"
       /\ e.operation \notin rewritten => operations[e.operation].start_time \in 0..e.at
  /\ e.type = "OPERATION_FINISHED" =>
       e.operation \in Known /\ operations[e.operation].bucket = "completed"

Precedes(d, e) ==
  /\ d.at <= e.at
  /\ d.type = "OPERATION_FINISHED" /\ e.type = "OPERATION_RESUMED" =>
       d.operation # e.operation

Sorted(x) == \A i, j \in 1..Len(x) : i < j => Precedes(x[i], x[j])

LEMMA SortedFurther ==
  ASSUME NEW x \in Seq(Event), Sorted(x), NEW e \in Event,
         \A d \in Range(x) : Precedes(d, e)
  PROVE  Sorted(Append(x, e))
<1> DEFINE n == Len(x)
           y == Append(x, e)
<1>1. /\ n \in Nat /\ y \in Seq(Event) /\ Len(y) = n + 1 /\ y[n+1] = e
      /\ \A i \in 1..n : y[i] = x[i]
  OBVIOUS
<1>2. \A i \in 1..n : x[i] \in Range(x)
  BY DEF Range
<1> HIDE DEF n, y
<1> SUFFICES ASSUME NEW i \in 1..n+1, NEW j \in 1..n+1, i < j
             PROVE  Precedes(y[i], y[j])
  BY <1>1 DEF Sorted, y
<1>3. i \in 1..n
  BY <1>1
<1>4. CASE j = n + 1
  BY <1>1, <1>2, <1>3, <1>4
<1>5. CASE j # n + 1
  BY <1>1, <1>3, <1>5 DEF Sorted, n
<1> QED
  BY <1>4, <1>5

LEMMA SortedFrom ==
  ASSUME NEW x \in Seq(Event), Sorted(x), NEW y \in Seq(Event), NEW k \in 0..Len(x),
         Suffix(y, x, k)
  PROVE  Sorted(y) /\ Range(y) \subseteq Range(x)
<1> DEFINE n == Len(x)
           m == Len(y)
<1>1. n \in Nat /\ m \in Nat /\ n = m + k /\ k \in Nat
  BY DEF Suffix
<1>2. \A i \in 1..m : y[i] = x[i + k]
  BY DEF Suffix
<1>3. Range(x) = {x[i] : i \in 1..n} /\ Range(y) = {y[i] : i \in 1..m}
  BY DEF Range
<1> HIDE DEF n, m
<1>4. \A i \in 1..m : i + k \in 1..n
  BY <1>1
<1>5. Sorted(y)
  <2> SUFFICES ASSUME NEW i \in 1..m, NEW j \in 1..m, i < j PROVE Precedes(y[i], y[j])
    BY DEF Sorted, m
  <2>1. i + k \in 1..n /\ j + k \in 1..n /\ i + k < j + k
    BY <1>1
  <2>2. Precedes(x[i + k], x[j + k])
    BY <2>1 DEF Sorted, n
  <2> QED
    BY <1>2, <2>2
<1>6. Range(y) \subseteq Range(x)
  BY <1>3, <1>4, <1>2
<1> QED
  BY <1>5, <1>6
-----------------------------------------------------------------------------
(* The invariant.                                                          *)
Recorded ==
  /\ \A e \in Range(event_history) : Fits(e)
  /\ Sorted(event_history)
  /\ Len(event_history) <= emitted

Story ==
  /\ Told(event_history, Complete, Current, Sofar)
  /\ Len(event_history) > 0 /\
       event_history[Len(event_history)].type = "DISPATCHER_STARTED" => ~is_paused

ReportInv == Types /\ Started /\ Recorded /\ Story

(* The history after an action is what is left of x, the history with the  *)
(* events of the action.                                                   *)
LEMMA HistoryCut ==
  ASSUME ReportInv, NEW x \in Seq(Event), UNCHANGED <<now, past>>,
         event_history' = LastOf(x, EventHistoryLimit),
         emitted' = emitted + (Len(x) - Len(event_history)),
         Len(x) >= Len(event_history),
         Sorted(x), \A e \in Range(x) : Fits(e)',
         Told(x, Complete, Current', Sofar'),
         Len(x) > 0 => ~ (x[Len(x)].type = "DISPATCHER_STARTED" /\ is_paused')
  PROVE  Recorded' /\ Story' /\ emitted' \in Nat /\ event_history' \in Seq(Event)
<1> DEFINE y == event_history'
<1>1. EventHistoryLimit \in Nat
  BY HistoryAssumption
<1>2. PICK k \in 0..Len(x) : y \in Seq(Event) /\ Suffix(y, x, k)
  <2>1. /\ LastOf(x, EventHistoryLimit) \in Seq(Event)
        /\ \E k \in 0..Len(x) : Suffix(LastOf(x, EventHistoryLimit), x, k)
    BY <1>1, LastOfFacts
  <2> QED
    BY <2>1
<1>3. /\ emitted \in Nat /\ Len(event_history) \in Nat /\ Len(x) \in Nat
      /\ Len(event_history) <= emitted
  BY DEF ReportInv, Types, Recorded
<1> DEFINE whole == Complete
           part == Complete'
<1>4. whole \in BOOLEAN /\ part \in BOOLEAN /\ (part => whole /\ k = 0)
  BY <1>2, <1>3 DEF Complete, Suffix
<1> HIDE DEF y, whole, part
<1>5. Sorted(y) /\ Range(y) \subseteq Range(x)
  BY <1>2, SortedFrom
<1>6. Told(y, part, Current', Sofar')
  <2> DEFINE c == Current'
             off == Sofar'
  <2>1. Told(x, whole, c, off)
    BY DEF whole
  <2> HIDE DEF c, off
  <2>2. Told(y, part, c, off)
    BY <1>2, <1>4, <2>1, ToldFrom
  <2> QED
    BY <2>2 DEF c, off
<1>7. Told(event_history, Complete, Current, Sofar)'
  <2>1. PICK s \in [0..Len(y) -> Situation] :
          Tells(s, y, part, Sofar') /\ s[Len(y)] = Current'
    BY <1>6 DEF Told
  <2>2. \A i : Between(event_history, i)' = Between(y, i)
    BY DEF Between, y
  <2>3. \A i \in 0..Len(y) : (i = 0 => part) => \A t \in Between(y, i) : past'[t] = s[i]
    BY <2>1 DEF Tells
  <2>4. /\ \A i \in 1..Len(y) : Follows(s[i-1], y[i], s[i], Sofar')
        /\ \A i \in 1..Len(y) - 1 : Announced(s, y, i)
    BY <2>1 DEF Tells
  <2>5. Tells(s, event_history, Complete, Sofar)'
    BY <2>2, <2>3, <2>4 DEF Tells, Follows, Announced, y, part
  <2> QED
    BY <2>1, <2>5 DEF Told, y
<1>8. /\ Len(y) <= emitted'
      /\ Len(y) > 0 => y[Len(y)] = x[Len(x)] /\ Len(x) > 0
  <2>1. /\ Len(y) \in Nat /\ k \in Nat /\ Len(y) + k = Len(x) /\ Len(y) <= Len(x)
        /\ \A i \in 1..Len(y) : y[i] = x[i + k]
    BY <1>2, <1>3 DEF Suffix
  <2>2. ASSUME Len(y) > 0 PROVE y[Len(y)] = x[Len(x)]
    <3>1. Len(y) \in 1..Len(y)
      BY ONLY <2>1, <2>2
    <3> QED
      BY <2>1, <3>1
  <2> QED
    BY <1>3, <2>1, <2>2
<1> QED
  BY <1>2, <1>3, <1>5, <1>7, <1>8 DEF Recorded, Story, y

(* No action puts an operation back into the queue, and only updates       *)
(* change when one was started.                                            *)
Keeps ==
  /\ rewritten \subseteq rewritten'
  /\ \A p \in Known :
       /\ p \in Known'
       /\ operations[p].bucket # "queued" =>
            /\ operations'[p].bucket # "queued"
            /\ p \notin rewritten' => operations'[p].start_time = operations[p].start_time
       /\ operations[p].bucket = "completed" => operations'[p].bucket = "completed"

LEMMA FitsKept ==
  ASSUME Types, Keeps, now' \in Nat, now <= now', NEW d \in Event, Fits(d)
  PROVE  Fits(d)'
BY DEF Fits, Keeps, Types, Event

LEMMA SofarFacts ==
  ASSUME Types
  PROVE  Sofar \in Beside /\ Sofar.duty = off_duty /\ Sofar.out = rewritten
BY DEF Types, Sofar, Beside

(* An action that emits one event.                                         *)
LEMMA OneEvent ==
  ASSUME ReportInv, UNCHANGED <<now, past>>, Keeps,
         NEW o \in Operation \cup {None}, NEW a \in EventType, Emit(<<a>>, o),
         NEW e, e = Occurrence(a, o), Fits(e)',
         a = "OPERATION_RESUMED" => o \in Known /\ operations[o].bucket # "completed",
         Current' \in Situation, Follows(Current, e, Current', Sofar'),
         off_duty => off_duty', Sofar' \in Beside,
         ~ (a = "DISPATCHER_STARTED" /\ is_paused')
  PROVE  Recorded' /\ Story' /\ emitted' \in Nat /\ event_history' \in Seq(Event)
<1> DEFINE h == event_history
           x == Append(h, e)
<1>1. /\ emitted' = emitted + 1 /\ e \in Event
      /\ event_history' = LastOf(x, EventHistoryLimit)
  BY EmitOne DEF ReportInv
<1>2. h \in Seq(Event) /\ Len(h) \in Nat /\ e.type = a /\ e.operation = o /\ e.at = now
  BY DEF ReportInv, Types, Occurrence
<1>3. /\ x \in Seq(Event) /\ Len(x) = Len(h) + 1 /\ x[Len(x)] = e
      /\ Range(x) = Range(h) \cup {e}
  <2> HIDE DEF h
  <2>1. Range(Append(h, e)) = Range(h) \cup {e}
    BY <1>1, <1>2, AppendFacts
  <2> QED
    BY <1>1, <1>2, <2>1
<1>4. Range(h) \subseteq Event
  BY <1>2 DEF Range
<1>5. Sorted(x)
  <2>1. ASSUME NEW d \in Range(h) PROVE Precedes(d, e)
    <3>1. Fits(d)
      BY <2>1 DEF ReportInv, Recorded
    <3> QED
      BY <1>2, <3>1 DEF Fits, Precedes
  <2>2. Sorted(h)
    BY DEF ReportInv, Recorded
  <2> HIDE DEF h
  <2> QED
    BY <1>1, <1>2, <2>1, <2>2, SortedFurther
<1>6. \A d \in Range(x) : Fits(d)'
  <2>1. ASSUME NEW d \in Range(h) PROVE Fits(d)'
    <3>1. Fits(d) /\ d \in Event /\ Types /\ now \in Nat
      BY <1>4, <2>1 DEF ReportInv, Recorded, Types
    <3> QED
      BY <3>1, FitsKept
  <2> QED
    BY <1>3, <2>1
<1>7. Told(x, Complete, Current', Sofar')
  <2> DEFINE whole == Complete
             off == Sofar
             more == Sofar'
             d == Current'
             c == Current
  <2>1. /\ whole \in BOOLEAN /\ off \in Beside /\ more \in Beside
        /\ d \in Situation /\ Follows(c, e, d, more)
    BY SofarFacts DEF Complete, ReportInv
  <2>0. Wider(off, more)
    BY DEF Wider, Sofar, Keeps
  <2>2. Told(h, whole, c, off)
    BY DEF ReportInv, Story
  <2>3. ~ (Len(h) > 0 /\ h[Len(h)].type = "DISPATCHER_STARTED" /\ c.paused)
    BY DEF ReportInv, Story, Current
  <2> HIDE DEF whole, off, more, d, c, h
  <2>4. Told(Append(h, e), whole, d, more)
    BY <1>1, <1>2, <2>0, <2>1, <2>2, <2>3, ToldFurther
  <2> QED
    BY <2>4 DEF whole, d, more
<1>8. /\ emitted' = emitted + (Len(x) - Len(event_history))
      /\ Len(x) >= Len(event_history)
      /\ Len(x) > 0 => ~ (x[Len(x)].type = "DISPATCHER_STARTED" /\ is_paused')
  BY <1>1, <1>2, <1>3
<1> HIDE DEF x, h
<1> QED
  BY <1>1, <1>3, <1>5, <1>6, <1>7, <1>8, HistoryCut

(* A run that begins while the dispatcher is paused says both.             *)
LEMMA TwoEvents ==
  ASSUME ReportInv, UNCHANGED <<now, past, operations, is_paused, off_duty, rewritten>>,
         is_running = FALSE, is_running' = TRUE, is_paused = TRUE,
         Emit(<<"DISPATCHER_STARTED", "DISPATCHER_PAUSED">>, None)
  PROVE  Recorded' /\ Story' /\ emitted' \in Nat /\ event_history' \in Seq(Event)
<1>0. PICK c, b, d, e :
        /\ c = Current
        /\ b = [running |-> TRUE, paused |-> TRUE, suspended |-> c.suspended]
        /\ d = Occurrence("DISPATCHER_STARTED", None)
        /\ e = Occurrence("DISPATCHER_PAUSED", None)
  OBVIOUS
<1> DEFINE h == event_history
           w == Append(h, d)
           x == Append(w, e)
<1>1. /\ emitted' = emitted + 2 /\ d \in Event /\ e \in Event
      /\ event_history' = LastOf(x, EventHistoryLimit)
  <2>1. /\ None \in Operation \cup {None}
        /\ "DISPATCHER_STARTED" \in EventType /\ "DISPATCHER_PAUSED" \in EventType
        /\ Types
    BY DEF ReportInv, EventType, DispatcherEvents
  <2> QED
    BY ONLY <1>0, <2>1, EmitTwo,
            Emit(<<"DISPATCHER_STARTED", "DISPATCHER_PAUSED">>, None)
<1>2. /\ h \in Seq(Event) /\ Len(h) \in Nat
      /\ d.type = "DISPATCHER_STARTED" /\ d.at = now
      /\ e.type = "DISPATCHER_PAUSED" /\ e.at = now
      /\ now \in Nat
  BY <1>0 DEF ReportInv, Types, Occurrence
<1>3. c \in Situation /\ c.running = FALSE /\ c.paused = TRUE
  BY <1>0 DEF ReportInv, Types, Situation, Current, Active
<1>4. b \in Situation /\ b.running = TRUE /\ b.paused = TRUE /\ b.suspended = c.suspended
  BY <1>0, <1>3 DEF Situation
<1>5. Current' = b
  BY <1>0 DEF Current, Active, Known
<1>6. /\ w \in Seq(Event) /\ Len(w) = Len(h) + 1 /\ w[Len(w)] = d
      /\ x \in Seq(Event) /\ Len(x) = Len(h) + 2 /\ x[Len(x)] = e
  <2>1. w \in Seq(Event) /\ Len(w) = Len(h) + 1 /\ w[Len(w)] = d
    BY <1>1, <1>2
  <2> HIDE DEF w
  <2> QED
    BY <1>1, <1>2, <2>1
<1>7. Range(w) = Range(h) \cup {d} /\ Range(x) = Range(w) \cup {e}
  <2> HIDE DEF h
  <2>1. Range(w) = Range(h) \cup {d}
    BY <1>1, <1>2, AppendFacts
  <2> HIDE DEF w
  <2> QED
    BY <1>1, <1>6, <2>1, AppendFacts
<1>8. Range(h) \subseteq Event
  BY <1>2 DEF Range
<1>9. \A a \in Range(h) : Fits(a)
  BY DEF ReportInv, Recorded
<1>10. Sorted(x)
  <2>1. \A a \in Range(h) : Precedes(a, d) /\ Precedes(a, e)
    BY <1>2, <1>9 DEF Fits, Precedes
  <2>2. Precedes(d, e)
    BY <1>2 DEF Precedes
  <2>3. Sorted(h)
    BY DEF ReportInv, Recorded
  <2> HIDE DEF h
  <2>4. Sorted(w)
    BY <1>1, <1>2, <2>1, <2>3, SortedFurther
  <2>5. \A a \in Range(w) : Precedes(a, e)
    BY <1>7, <2>1, <2>2
  <2> HIDE DEF w
  <2> QED
    BY <1>1, <1>6, <2>4, <2>5, SortedFurther
<1>11. \A a \in Range(x) : Fits(a)'
  <2>1. \A a \in Range(h) : Fits(a)'
    BY <1>9 DEF Fits, Known
  <2>2. Fits(d)' /\ Fits(e)'
    BY <1>2 DEF Fits
  <2> QED
    BY <1>7, <2>1, <2>2
<1>12. Told(x, Complete, Current', Sofar')
  <2> DEFINE whole == Complete
             off == Sofar
  <2>1. whole \in BOOLEAN /\ off \in Beside /\ Wider(off, off) /\ Sofar' = off
    BY SofarFacts DEF Complete, ReportInv, Wider, Sofar
  <2>2. Told(h, whole, c, off)
    BY <1>0 DEF ReportInv, Story
  <2>3. ~ (Len(h) > 0 /\ h[Len(h)].type = "DISPATCHER_STARTED" /\ c.paused)
    BY <1>0 DEF ReportInv, Story, Current
  <2>4. Follows(c, d, b, off) /\ Follows(b, e, b, off)
    BY <1>2, <1>3, <1>4 DEF Follows
  <2> HIDE DEF whole, off, h
  <2>5. Told(w, whole, b, off)
    BY <1>1, <1>2, <1>4, <2>1, <2>2, <2>3, <2>4, ToldFurther
  <2>6. w[Len(w)].at = now
    BY <1>2, <1>6
  <2> HIDE DEF w
  <2>7. Told(x, whole, b, off)
    BY <1>1, <1>2, <1>4, <1>6, <2>1, <2>4, <2>5, <2>6, ToldFurther
  <2> QED
    BY <1>5, <2>1, <2>7 DEF whole
<1>13. /\ emitted' = emitted + (Len(x) - Len(event_history))
       /\ Len(x) >= Len(event_history)
       /\ Len(x) > 0 => ~ (x[Len(x)].type = "DISPATCHER_STARTED" /\ is_paused')
  BY <1>1, <1>2, <1>6
<1> HIDE DEF x, w, h
<1> QED
  BY <1>1, <1>6, <1>10, <1>11, <1>12, <1>13, HistoryCut
-----------------------------------------------------------------------------
LEMMA CurrentFacts ==
  ASSUME Types
  PROVE  /\ Current \in Situation
         /\ Current.running = is_running
         /\ Current.paused = is_paused
         /\ Current.suspended = {o \in Known : operations[o].bucket = "active"
                                               /\ operations[o].state = "PAUSED"}
BY DEF Types, Current, Situation, Active

(* The record of an operation is written.                                  *)
Written(o, r) ==
  /\ Known' = Known \cup {o}
  /\ operations'[o] = r
  /\ \A p \in Known \ {o} : operations'[p] = operations[p]

LEMMA RecordsWrite == ASSUME NEW o, NEW r, Records(o, r) PROVE Written(o, r)
BY DEF Records, Written, Known

LEMMA RecordsFacts ==
  ASSUME Types, NEW o \in Operation, NEW r \in Record, Written(o, r),
         rewritten \subseteq rewritten',
         o \in Known =>
           /\ operations[o].bucket # "queued" =>
                /\ r.bucket # "queued"
                /\ o \notin rewritten' => r.start_time = operations[o].start_time
           /\ operations[o].bucket = "completed" => r.bucket = "completed"
  PROVE  /\ Known' = Known \cup {o}
         /\ operations'[o] = r
         /\ \A p \in Known \ {o} : operations'[p] = operations[p]
         /\ Keeps
         /\ Known' \subseteq Operation /\ \A p \in Known' : operations'[p] \in Record
<1>1. /\ Known' = Known \cup {o} /\ operations'[o] = r
      /\ \A p \in Known \ {o} : operations'[p] = operations[p]
  BY DEF Written
<1>2. Keeps
  BY <1>1 DEF Keeps
<1> QED
  BY <1>1, <1>2 DEF Types

Quiet == UNCHANGED <<is_running, is_paused, off_duty, now, past>>

(* An action that writes a record and emits one event of its operation.    *)
LEMMA OperationEvent ==
  ASSUME ReportInv, Quiet, NEW o \in Operation, NEW r \in Record, Written(o, r),
         NEW a \in OperationEvents, Emit(<<a>>, o),
         rewritten \subseteq rewritten', rewritten' \subseteq rewritten \cup {o},
         o \in Known =>
           /\ operations[o].bucket # "queued" =>
                /\ r.bucket # "queued"
                /\ o \notin rewritten' => r.start_time = operations[o].start_time
           /\ operations[o].bucket = "completed" => r.bucket = "completed"
           /\ operations[o].bucket = "active" /\ operations[o].state = "PAUSED" =>
                \/ r.bucket = "active" /\ r.state = "PAUSED"
                \/ a \in {"OPERATION_RESUMED", "OPERATION_FINISHED"}
                \/ o \in rewritten',
         o \notin rewritten' =>
           /\ r.bucket = "active" => r.start_time # None
           /\ r.start_time # None => r.start_time <= now,
         a = "OPERATION_PAUSED" => r.bucket = "active" /\ r.state = "PAUSED",
         a = "OPERATION_FINISHED" => r.bucket = "completed",
         a = "OPERATION_RESUMED" => o \in Known /\ operations[o].bucket # "completed"
  PROVE  ReportInv'
<1>1. Types /\ Started
  BY DEF ReportInv
<1>2. /\ Known' = Known \cup {o} /\ operations'[o] = r
      /\ \A p \in Known \ {o} : operations'[p] = operations[p]
      /\ Keeps /\ Known' \subseteq Operation /\ \A p \in Known' : operations'[p] \in Record
  BY <1>1, RecordsFacts
<1>3. Started'
  BY <1>1, <1>2 DEF Started, Quiet
<1>4. PICK e : e = Occurrence(a, o)
  OBVIOUS
<1>5. e.type = a /\ e.operation = o /\ e.at = now
  BY <1>4 DEF Occurrence
<1>6. Fits(e)'
  <2>1. a = "OPERATION_PAUSED" /\ o \notin rewritten' => r.start_time \in 0..now
    BY <1>1 DEF Record, Time, Types
  <2>2. now' = now /\ now \in Nat
    BY <1>1 DEF Quiet, Types
  <2> QED
    BY <1>2, <1>5, <2>1, <2>2 DEF Fits
<1>7. /\ Current'.running = Current.running /\ Current'.paused = Current.paused
      /\ Current'.suspended = {p \in Known' : operations'[p].bucket = "active"
                                              /\ operations'[p].state = "PAUSED"}
      /\ Current.suspended = {p \in Known : operations[p].bucket = "active"
                                            /\ operations[p].state = "PAUSED"}
      /\ Current' \in Situation
  BY <1>1, <1>2 DEF Types, Current, Situation, Active, Quiet
<1>8. Follows(Current, e, Current', Sofar')
  <2> DEFINE c == Current
             d == Current'
             off == Sofar'
  <2>1. /\ d.running = c.running /\ d.paused = c.paused
        /\ c.suspended = {p \in Known : operations[p].bucket = "active"
                                        /\ operations[p].state = "PAUSED"}
        /\ d.suspended = {p \in Known' : operations'[p].bucket = "active"
                                         /\ operations'[p].state = "PAUSED"}
        /\ c.running \in BOOLEAN /\ c.paused \in BOOLEAN
        /\ off.out = rewritten'
    BY <1>1, <1>7 DEF Types, Current, Sofar
  <2> HIDE DEF c, d, off
  <2>2. ASSUME NEW p \in c.suspended \ off.out
        PROVE  \/ e.operation = p /\ e.type \in {"OPERATION_RESUMED", "OPERATION_FINISHED"}
               \/ p \in d.suspended
    BY <1>2, <1>5, <2>1
  <2>3. Follows(c, e, d, off)
    BY <1>2, <1>5, <2>1, <2>2 DEF Follows, OperationEvents
  <2> QED
    BY <2>3 DEF c, d, off
<1>9. off_duty' = off_duty /\ Sofar' \in Beside /\ UNCHANGED <<now, past>>
      /\ a \in EventType /\ a \notin DispatcherEvents
  BY <1>1 DEF Quiet, Types, EventType, OperationEvents, DispatcherEvents, Sofar, Beside
<1>10. Recorded' /\ Story' /\ emitted' \in Nat /\ event_history' \in Seq(Event)
  BY <1>2, <1>4, <1>6, <1>7, <1>8, <1>9, OneEvent DEF DispatcherEvents
<1>11. Types'
  BY <1>1, <1>2, <1>10 DEF Types, Quiet
<1> QED
  BY <1>3, <1>10, <1>11 DEF ReportInv

(* An action that emits one event of the dispatcher.                       *)
LEMMA DispatcherEvent ==
  ASSUME ReportInv, UNCHANGED <<now, past, rewritten>>, Keeps,
         \A p \in Known : /\ operations'[p] \in Record
                          /\ operations'[p].start_time = operations[p].start_time
                          /\ operations'[p].bucket = operations[p].bucket
                          /\ operations[p].state = "PAUSED" => operations'[p].state = "PAUSED",
         Known' = Known,
         NEW a \in EventType, Emit(<<a>>, None),
         is_running' \in BOOLEAN, is_paused' \in BOOLEAN, off_duty' \in BOOLEAN,
         off_duty => off_duty',
         \/ a = "DISPATCHER_STARTED" /\ ~is_running /\ is_running' /\ ~is_paused
              /\ is_paused' = is_paused
         \/ a = "DISPATCHER_STOPPED" /\ is_running /\ ~is_running' /\ is_paused' = is_paused
         \/ a = "DISPATCHER_PAUSED" /\ is_paused' /\ is_running' = is_running
              /\ (is_running \/ off_duty')
         \/ a = "DISPATCHER_RESUMED" /\ ~is_paused' /\ is_running' = is_running
              /\ (is_running \/ off_duty')
  PROVE  ReportInv'
<1>1. Types /\ Started
  BY DEF ReportInv
<1>2. Started'
  BY <1>1 DEF Started, Active
<1>3. PICK e, c, d : e = Occurrence(a, None) /\ c = Current /\ d = Current'
  OBVIOUS
<1>4. e.type = a /\ e.operation = None /\ e.at = now
  BY <1>3 DEF Occurrence
<1>5. Fits(e)'
  BY <1>1, <1>4 DEF Fits, Types
<1>6. /\ c.running = is_running /\ c.paused = is_paused
      /\ c.suspended = {p \in Known : operations[p].bucket = "active"
                                      /\ operations[p].state = "PAUSED"}
      /\ d.running = is_running' /\ d.paused = is_paused'
      /\ d.suspended = {p \in Known : operations'[p].bucket = "active"
                                      /\ operations'[p].state = "PAUSED"}
  BY <1>1, <1>3 DEF Types, Current, Situation, Active
<1>7. d \in Situation
  <2>1. d.suspended \subseteq Operation
    BY <1>1, <1>6 DEF Types
  <2>2. d = [running |-> d.running, paused |-> d.paused, suspended |-> d.suspended]
    BY <1>3 DEF Current
  <2> QED
    BY <1>6, <2>1, <2>2 DEF Situation
<1>8. Follows(c, e, d, Sofar') /\ Sofar' \in Beside
  <2>1. c.suspended \subseteq d.suspended
    BY <1>6
  <2>2. Sofar' \in Beside /\ Sofar'.duty = off_duty'
    BY <1>1 DEF Types, Sofar, Beside
  <2> QED
    BY <1>1, <1>4, <1>6, <2>1, <2>2 DEF Follows, Types
<1>9. Recorded' /\ Story' /\ emitted' \in Nat /\ event_history' \in Seq(Event)
  <2>1. /\ None \in Operation \cup {None} /\ a # "OPERATION_RESUMED"
        /\ ~ (a = "DISPATCHER_STARTED" /\ is_paused')
    OBVIOUS
  <2> QED
    BY <1>3, <1>5, <1>7, <1>8, <2>1, OneEvent
<1>10. Types'
  BY <1>1, <1>9 DEF Types
<1> QED
  BY <1>2, <1>9, <1>10 DEF ReportInv

LEMMA TickKeeps ==
  ASSUME ReportInv, Tick
  PROVE  ReportInv'
<1> USE DEF Tick
<1>0. Types /\ Started /\ Recorded /\ Story
  BY DEF ReportInv
<1>1. PICK c, h, n, off, whole :
        /\ c = Current /\ h = event_history /\ n = now /\ off = Sofar /\ whole = Complete
  OBVIOUS
<1>2. /\ c \in Situation /\ h \in Seq(Event) /\ n \in Nat /\ now' = n + 1
      /\ past \in Seq(Situation) /\ Len(past) = n
  BY <1>0, <1>1, CurrentFacts DEF Types
<1>3. past' = Append(past, c)
  BY <1>1 DEF Current
<1>4. /\ past' \in Seq(Situation) /\ Len(past') = n + 1 /\ past'[n+1] = c
      /\ \A t \in 1..n : past'[t] = past[t]
  BY <1>2, <1>3, AppendProperties
<1>5. Types' /\ Started'
  <2>1. Types'
    BY <1>0, <1>2, <1>4 DEF Types, runtime, Known
  <2>2. Started'
    BY <1>0, <1>1, <1>2 DEF Started, runtime, Known, Types, Record, Time
  <2> QED
    BY <2>1, <2>2
<1>6. Recorded'
  <2>1. Range(h) \subseteq Event
    BY <1>2 DEF Range
  <2>2. Keeps /\ now' \in Nat /\ now <= now'
    BY <1>1, <1>2 DEF Keeps, runtime, Known
  <2>3. \A e \in Range(h) : Fits(e)'
    BY <1>0, <1>1, <2>1, <2>2, FitsKept DEF Recorded
  <2> QED
    BY <1>0, <1>1, <2>3 DEF Recorded, runtime
<1>7. Told(event_history, Complete, Current, Sofar)'
  <2>1. PICK s \in [0..Len(h) -> Situation] : Tells(s, h, whole, off) /\ s[Len(h)] = c
    BY <1>0, <1>1 DEF Story, Told
  <2>2. /\ event_history' = h /\ Complete' = whole /\ Current' = c /\ Sofar' = off
    BY <1>1 DEF Complete, Current, Active, Known, runtime, Sofar
  <2>3. ASSUME NEW i \in 0..Len(h), i = 0 => whole, NEW t \in Between(h, i)'
        PROVE  past'[t] = s[i]
    <3>1. /\ t \in 1..n+1
          /\ (i > 0 => h[i].at < t) /\ (i < Len(h) => t <= h[i+1].at)
      BY <1>2, <2>3 DEF Between
    <3>2. CASE t = n + 1
      <4>1. i < Len(h) => h[i+1].at <= n /\ h[i+1].at \in Nat
        <5>1. i < Len(h) => i + 1 \in 1..Len(h) /\ h[i+1] \in Event /\ h[i+1] \in Range(h)
          BY <1>2 DEF Range
        <5> QED
          BY <1>0, <1>1, <5>1 DEF Recorded, Fits, Event
      <4>2. i = Len(h)
        BY <1>2, <3>1, <3>2, <4>1
      <4> QED
        BY <1>4, <2>1, <3>2, <4>2
    <3>3. CASE t # n + 1
      <4>1. t \in 1..n
        BY <1>2, <3>1, <3>3
      <4>2. t \in Between(h, i)
        BY <1>1, <3>1, <4>1 DEF Between
      <4> QED
        BY <1>4, <2>1, <2>3, <4>1, <4>2 DEF Tells
    <3> QED
      BY <3>2, <3>3
  <2>4. Tells(s, h, whole, off)'
    BY <2>1, <2>3 DEF Tells, Follows, Announced
  <2> QED
    BY <2>1, <2>2, <2>4 DEF Told
<1>8. Story'
  BY <1>0, <1>7 DEF Story, runtime
<1> QED
  BY <1>5, <1>6, <1>8 DEF ReportInv

LEMMA ReportStarts == Init => ReportInv
<1> SUFFICES ASSUME Init PROVE ReportInv
  OBVIOUS
<1>1. /\ Known = {} /\ Active = {} /\ now = 0 /\ emitted = 0
      /\ event_history = <<>> /\ Len(event_history) = 0 /\ past = <<>> /\ Len(past) = 0
      /\ is_running = FALSE /\ is_paused \in BOOLEAN /\ off_duty = FALSE /\ rewritten = {}
  BY DEF Init, Known, Active
<1>2. Types /\ Started
  <2>1. event_history \in Seq(Event) /\ past \in Seq(Situation)
    BY <1>1
  <2> QED
    BY <1>1, <2>1 DEF Types, Started
<1>3. Recorded
  <2>1. Range(event_history) = {}
    BY <1>1 DEF Range
  <2> QED
    BY <1>1, <2>1 DEF Recorded, Sorted
<1>4. Told(event_history, Complete, Current, Sofar)
  <2> DEFINE s == [i \in 0..0 |-> Current]
  <2>1. s \in [0..0 -> Situation] /\ s[0] = Current
    BY <1>1, <1>2, CurrentFacts
  <2> HIDE DEF s
  <2>2. Tells(s, event_history, Complete, Sofar)
    <3>1. \A i : Between(event_history, i) = {}
      BY <1>1 DEF Between
    <3> QED
      BY <1>1, <2>1, <3>1 DEF Tells
  <2> QED
    BY <1>1, <2>1, <2>2 DEF Told
<1> QED
  BY <1>1, <1>2, <1>3, <1>4 DEF ReportInv, Story

LEMMA ReportKept ==
  ASSUME ReportInv, [Next]_vars
  PROVE  ReportInv'
<1>0. Types /\ Started
  BY DEF ReportInv
<1> USE DEF runtime, history
<1>1. CASE Run
  <2>1. CASE is_paused
    <3>1. /\ is_running = FALSE /\ is_running' = TRUE /\ is_paused = TRUE
          /\ UNCHANGED <<now, past, operations, is_paused, off_duty, rewritten>>
          /\ Emit(<<"DISPATCHER_STARTED", "DISPATCHER_PAUSED">>, None)
      BY <1>0, <1>1, <2>1 DEF Run, Types
    <3>2. Recorded' /\ Story' /\ emitted' \in Nat /\ event_history' \in Seq(Event)
      BY <3>1, TwoEvents
    <3> QED
      BY <1>0, <3>1, <3>2 DEF ReportInv, Types, Started, Known
  <2>2. CASE ~is_paused
    <3>1. Keeps /\ Known' = Known
      BY <1>1 DEF Run, Keeps, Known
    <3> QED
      BY <1>0, <1>1, <2>2, <3>1, DispatcherEvent
         DEF Run, Types, EventType, DispatcherEvents
  <2> QED
    BY <2>1, <2>2
<1>2. CASE RunEnds
  <2>1. Keeps /\ Known' = Known
    BY <1>2 DEF RunEnds, Keeps, Known
  <2> QED
    BY <1>0, <1>2, <2>1, DispatcherEvent
       DEF RunEnds, Types, EventType, DispatcherEvents
<1>3. CASE PauseDispatcher
  <2>1. /\ Known' = Known
        /\ \A p \in Known :
             operations'[p] = IF p \in Active THEN [operations[p] EXCEPT !.state = "PAUSED"]
                                              ELSE operations[p]
    BY <1>3 DEF PauseDispatcher, Known
  <2>2. ASSUME NEW p \in Known
        PROVE  /\ operations'[p] \in Record
               /\ operations'[p].start_time = operations[p].start_time
               /\ operations'[p].bucket = operations[p].bucket
               /\ operations[p].state = "PAUSED" => operations'[p].state = "PAUSED"
    <3>1. operations[p] \in Record
      BY <1>0 DEF Types
    <3> QED
      BY <2>1, <3>1 DEF Record
  <2>3. Keeps
    BY <1>3, <2>1, <2>2 DEF Keeps, PauseDispatcher
  <2> QED
    BY <1>0, <1>3, <2>1, <2>2, <2>3, DispatcherEvent
       DEF PauseDispatcher, Types, EventType, DispatcherEvents
<1>4. CASE ResumeDispatcher
  <2>1. Keeps /\ Known' = Known
    BY <1>4 DEF ResumeDispatcher, Keeps, Known
  <2> QED
    BY <1>0, <1>4, <2>1, DispatcherEvent
       DEF ResumeDispatcher, Types, EventType, DispatcherEvents
<1>5. ASSUME NEW o \in Operation,
             \/ AddOperation(o) \/ StartOperation(o) \/ FinishOperation(o)
             \/ PauseOperation(o) \/ ResumeOperation(o)
             \/ UpdateOperation(o) \/ OtherEvent(o)
      PROVE  ReportInv'
  <2>0. /\ o \in Known => operations[o] \in Record
        /\ now \in Nat /\ now # None
        /\ o \in Known \ rewritten =>
             /\ operations[o].bucket = "active" => operations[o].start_time # None
             /\ operations[o].start_time # None => operations[o].start_time <= now
    BY <1>0, HistoryAssumption DEF Types, Started
  <2>1. CASE AddOperation(o)
    <3> DEFINE r == [bucket |-> "queued", state |-> "QUEUED", created_at |-> now,
                     start_time |-> None, finish_time |-> None]
    <3>1. r \in Record /\ r.bucket = "queued" /\ r.start_time = None
      BY <2>0 DEF Record, Time
    <3>2. /\ Written(o, r) /\ Emit(<<"OPERATION_ADDED">>, o) /\ Quiet /\ o \notin Known
          /\ rewritten' = rewritten
      BY <2>1, RecordsWrite DEF AddOperation, Quiet
    <3> HIDE DEF r
    <3> QED
      BY <2>0, <3>1, <3>2, OperationEvent DEF OperationEvents
  <2>2. CASE StartOperation(o)
    <3> DEFINE start == IF operations[o].start_time = None THEN now
                        ELSE operations[o].start_time
               r == [operations[o] EXCEPT !.bucket = "active", !.state = "RUNNING",
                                          !.start_time = start]
    <3>1. /\ Written(o, r) /\ Emit(<<"OPERATION_STARTED">>, o) /\ Quiet
          /\ o \in Known /\ operations[o].bucket = "queued" /\ rewritten' = rewritten
      BY <2>2, RecordsWrite DEF StartOperation, Quiet
    <3>2. r \in Record /\ r.bucket = "active" /\ r.start_time = start /\ start # None
      BY <2>0, <3>1 DEF Record, Time
    <3>3. o \notin rewritten => start <= now
      BY <2>0, <3>1
    <3> HIDE DEF r, start
    <3> QED
      BY <2>0, <3>1, <3>2, <3>3, OperationEvent DEF OperationEvents
  <2>3. CASE FinishOperation(o)
    <3> DEFINE r == [operations[o] EXCEPT !.bucket = "completed", !.state = "COMPLETED",
                                          !.finish_time = now]
    <3>1. /\ Written(o, r) /\ Emit(<<"OPERATION_FINISHED">>, o) /\ Quiet /\ o \in Known
          /\ rewritten' = rewritten
      BY <2>3, RecordsWrite DEF FinishOperation, Quiet
    <3>2. r \in Record /\ r.bucket = "completed" /\ r.start_time = operations[o].start_time
      BY <2>0, <3>1 DEF Record, Time
    <3> HIDE DEF r
    <3> QED
      BY <2>0, <3>1, <3>2, OperationEvent DEF OperationEvents
  <2>4. CASE PauseOperation(o)
    <3> DEFINE r == [operations[o] EXCEPT !.state = "PAUSED"]
    <3>1. /\ Written(o, r) /\ Emit(<<"OPERATION_PAUSED">>, o) /\ Quiet
          /\ o \in Known /\ operations[o].bucket = "active" /\ rewritten' = rewritten
      BY <2>4, RecordsWrite DEF PauseOperation, Quiet, Active
    <3>2. /\ r \in Record /\ r.bucket = "active" /\ r.state = "PAUSED"
          /\ r.start_time = operations[o].start_time
      BY <2>0, <3>1 DEF Record
    <3> HIDE DEF r
    <3> QED
      BY <2>0, <3>1, <3>2, OperationEvent DEF OperationEvents
  <2>5. CASE ResumeOperation(o)
    <3> DEFINE r == [operations[o] EXCEPT !.state = "RUNNING"]
    <3>1. /\ Written(o, r) /\ Emit(<<"OPERATION_RESUMED">>, o) /\ Quiet
          /\ o \in Known /\ operations[o].bucket = "active" /\ rewritten' = rewritten
      BY <2>5, RecordsWrite DEF ResumeOperation, Quiet, Active
    <3>2. /\ r \in Record /\ r.bucket = "active"
          /\ r.start_time = operations[o].start_time
      BY <2>0, <3>1 DEF Record
    <3> HIDE DEF r
    <3> QED
      BY <2>0, <3>1, <3>2, OperationEvent DEF OperationEvents
  <2>6. CASE UpdateOperation(o)
    <3>1. PICK state \in NewState \cup {operations[o].state},
               start \in NewTime \cup {operations[o].start_time},
               finish \in NewTime \cup {operations[o].finish_time} :
            /\ Records(o, [operations[o] EXCEPT !.state = state, !.start_time = start,
                                                !.finish_time = finish])
            /\ rewritten' = IF state = operations[o].state /\ start = operations[o].start_time
                            THEN rewritten ELSE rewritten \cup {o}
      BY <2>6 DEF UpdateOperation
    <3> DEFINE r == [operations[o] EXCEPT !.state = state, !.start_time = start,
                                          !.finish_time = finish]
    <3>2. /\ Written(o, r) /\ Emit(<<"OPERATION_OTHER">>, o) /\ Quiet /\ o \in Known
      BY <2>6, <3>1, RecordsWrite DEF UpdateOperation, Quiet
    <3>3. /\ r \in Record /\ r.bucket = operations[o].bucket
          /\ r.state = state /\ r.start_time = start
      BY <2>0, <3>2, HistoryAssumption DEF Record, Time
    <3>4. /\ rewritten \subseteq rewritten' /\ rewritten' \subseteq rewritten \cup {o}
          /\ o \notin rewritten' =>
               /\ o \notin rewritten
               /\ state = operations[o].state /\ start = operations[o].start_time
      BY <3>1
    <3> HIDE DEF r
    <3> QED
      BY <2>0, <3>2, <3>3, <3>4, OperationEvent DEF OperationEvents
  <2>7. CASE OtherEvent(o)
    <3> DEFINE r == operations[o]
    <3>1. /\ o \in Known /\ Emit(<<"OPERATION_OTHER">>, o) /\ Quiet /\ UNCHANGED operations
          /\ rewritten' = rewritten
      BY <2>7 DEF OtherEvent, Quiet
    <3>2. Written(o, r)
      BY <3>1 DEF Written, Known
    <3> QED
      BY <2>0, <3>1, <3>2, OperationEvent DEF OperationEvents
  <2> QED
    BY <1>5, <2>1, <2>2, <2>3, <2>4, <2>5, <2>6, <2>7
<1>6. CASE Tick
  BY <1>6, TickKeeps
<1>7. CASE UNCHANGED vars
  <2> USE <1>7 DEF vars
  <2>1. Types' /\ Started'
    BY <1>0 DEF Types, Started, Known
  <2>2. Recorded'
    BY DEF ReportInv, Recorded, Fits, Known
  <2>3. Complete' = Complete /\ Current' = Current /\ Sofar' = Sofar
    BY DEF Complete, Current, Active, Known, Sofar
  <2>4. \A x, i : Between(x, i)' = Between(x, i)
    BY DEF Between
  <2>5. \A s, x, whole, off : Tells(s, x, whole, off)' = Tells(s, x, whole, off)
    BY <2>4 DEF Tells, Follows, Announced
  <2>6. Story'
    BY <2>3, <2>5 DEF ReportInv, Story, Told
  <2> QED
    BY <2>1, <2>2, <2>6 DEF ReportInv
<1> QED
  BY <1>1, <1>2, <1>3, <1>4, <1>5, <1>6, <1>7 DEF Next

LEMMA ReportInvariant == Spec => []ReportInv
BY ReportStarts, ReportKept, PTL DEF Spec
-----------------------------------------------------------------------------
(* The folds of the reports.                                               *)

Status == {"PAUSED", "OPERATION", "DISPATCHER_RUNNING", "DISPATCHER_PAUSED"}

Bar == [start : Nat, finish : Nat, status : Status]

Pauses == [start : Nat, finish : Nat, status : {"PAUSED"}]

LEMMA OneAppended ==
  ASSUME NEW S, NEW rows \in Seq(S), NEW r \in S
  PROVE  rows \o <<r>> = Append(rows, r)
<1> DEFINE one == [i \in 1..1 |-> r]
<1>1. one = <<r>> /\ one \in [1..1 -> S] /\ one[1] = r
  OBVIOUS
<1> HIDE DEF one
<1> QED
  BY <1>1, ConcatShort

(* RowIf adds a bar or none.                                               *)
LEMMA RowFacts ==
  ASSUME NEW S, NEW rows \in Seq(S), NEW start, NEW finish, NEW status,
         start # None /\ finish > start => Row(start, finish, status) \in S
  PROVE  /\ RowIf(start, finish, status) \in Seq(S)
         /\ rows \o RowIf(start, finish, status) =
              IF start # None /\ finish > start THEN Append(rows, Row(start, finish, status))
              ELSE rows
<1>1. CASE start # None /\ finish > start
  <2> DEFINE r == Row(start, finish, status)
  <2>1. RowIf(start, finish, status) = <<r>> /\ r \in S
    BY <1>1 DEF RowIf
  <2> HIDE DEF r
  <2>2. <<r>> \in Seq(S) /\ rows \o <<r>> = Append(rows, r)
    BY <2>1, OneAppended
  <2> QED
    BY <1>1, <2>1, <2>2 DEF r
<1>2. CASE ~ (start # None /\ finish > start)
  BY <1>2, ConcatEmptySeq, EmptySeq, Zenon DEF RowIf
<1> QED
  BY <1>1, <1>2

(* An event of the window is kept.                                         *)
Keep(from, to, kept, e) ==
  IF (from # None => e.at >= from) /\ (to # None => e.at <= to) THEN Append(kept, e) ELSE kept

LEMMA SelectionFold ==
  ASSUME NEW from, NEW to, NEW x \in Seq(Event), x = event_history
  PROVE  \E acc :
           /\ acc[0] = <<>>
           /\ \A i \in 0..Len(x) : acc[i] \in Seq(Event)
           /\ \A i \in 1..Len(x) : acc[i] = Keep(from, to, acc[i-1], x[i])
           /\ Selected(from, to, None).events = acc[Len(x)]
<1> DEFINE n == Len(x)
           b == <<>>
           S == Seq(Event)
           Op(a, e) == Keep(from, to, a, e)
           step == [p \in S \X (1..n) |-> Op(p[1], x[p[2]])]
           Folds(it) == it = [T \in SUBSET (1..n) |->
                                IF T = {} THEN b ELSE Op(it[T \ {Max(T)}], x[Max(T)])]
           fold == CHOOSE it : Folds(it)
           acc == [i \in 0..n |-> fold[1..i]]
<1>1. n \in Nat /\ DOMAIN x = 1..n /\ \A i \in 1..n : x[i] \in Event
  OBVIOUS
<1>2. b \in S /\ \A a \in S, i \in 1..n : Op(a, x[i]) \in S
  BY <1>1, AppendProperties DEF Keep
<1>3. Selected(from, to, None).events = fold[1..n]
  <2>1. Selected(from, to, None).events =
          FoldLeft(LAMBDA a, e : Op(a, e), b, x)
    BY DEF Selected, Keep, Op, b
  <2> QED
    BY <1>1, <2>1, Zenon DEF FoldLeft, MapThenFoldSet
<1> HIDE DEF Op, S, b, n
<1>4. \E it : Folds(it)
  <2>1. /\ Steps(step, n, S)
        /\ \A a \in S, i \in 1..n : step[<<a, i>>] = Op(a, x[i])
    BY <1>2 DEF Steps
  <2> HIDE DEF step
  <2>2. PICK it : Iterates(it, step, b, n, S)
    BY <1>1, <1>2, <2>1, FoldExists
  <2>3. ASSUME NEW T \in SUBSET (1..n), T # {}
        PROVE  it[T] = Op(it[T \ {Max(T)}], x[Max(T)])
    <3>1. Max(T) \in 1..n
      BY <1>1, <2>3, MaxFacts
    <3>2. it[T \ {Max(T)}] \in S
      BY <2>2 DEF Iterates
    <3> QED
      BY <2>1, <2>2, <2>3, <3>1, <3>2 DEF Iterates
  <2> QED
    BY <2>2, <2>3 DEF Iterates
<1>5. Folds(fold)
  BY <1>4, Zenon
<1> HIDE DEF fold
<1>6. fold[1..0] = b
  <2>1. 1..0 = {} /\ 1..0 \in SUBSET (1..n)
    BY <1>1
  <2> QED
    BY <1>5, <2>1
<1>7. ASSUME NEW k \in 1..n PROVE fold[1..k] = Op(fold[1..(k-1)], x[k])
  <2>1. Max(1..k) = k /\ (1..k) \ {k} = 1..(k-1) /\ 1..k # {} /\ 1..k \in SUBSET (1..n)
    BY <1>1, PrefixFacts
  <2> QED
    BY <1>5, <2>1
<1> DEFINE Good == {k \in 0..n : fold[1..k] \in S}
<1>8. \A k \in 0..n : k \in Good
  <2>1. 0 \in Good
    BY <1>1, <1>2, <1>6
  <2>2. \A k \in 1..n : k - 1 \in Good => k \in Good
    BY <1>1, <1>2, <1>7
  <2> HIDE DEF Good
  <2> QED
    BY <1>1, <2>1, <2>2, Induction
<1>9. /\ acc[0] = b /\ acc[n] = fold[1..n]
      /\ \A i \in 0..n : acc[i] \in S
      /\ \A i \in 1..n : acc[i] = Op(acc[i-1], x[i])
  BY <1>1, <1>6, <1>7, <1>8
<1> HIDE DEF acc
<1> QED
  BY <1>3, <1>9 DEF n, b, S, Op, fold, Folds

(* An event ends the pause that is open, or opens one.                     *)
Pair(o, acc, e) ==
  IF e.operation # o THEN acc
  ELSE IF e.type = "OPERATION_PAUSED" THEN [acc EXCEPT !.open = e.at]
  ELSE IF e.type = "OPERATION_RESUMED"
  THEN [open |-> None, intervals |-> acc.intervals \o RowIf(acc.open, e.at, "PAUSED")]
  ELSE acc

Paired == [open : Time, intervals : Seq(Pauses)]

(* The pauses found after each of the events x of h.                       *)
PairsUp(acc, h, x, o) ==
  /\ acc[0] = [open |-> None, intervals |-> <<>>]
  /\ \A i \in 0..Len(x) : acc[i] \in Paired
  /\ \A i \in 1..Len(x) : acc[i] = Pair(o, acc[i-1], x[i])
  /\ PauseIntervals(h, o) = acc[Len(x)].intervals

LEMMA PairFold ==
  ASSUME NEW h, NEW x \in Seq(Event), x = h.events, NEW o
  PROVE  \E acc : PairsUp(acc, h, x, o)
<1> DEFINE n == Len(x)
           b == [open |-> None, intervals |-> <<>>]
           S == Paired
           Op(a, e) == Pair(o, a, e)
           step == [p \in S \X (1..n) |-> Op(p[1], x[p[2]])]
           Folds(it) == it = [T \in SUBSET (1..n) |->
                                IF T = {} THEN b ELSE Op(it[T \ {Max(T)}], x[Max(T)])]
           fold == CHOOSE it : Folds(it)
           acc == [i \in 0..n |-> fold[1..i]]
<1>1. n \in Nat /\ DOMAIN x = 1..n /\ \A i \in 1..n : x[i] \in Event
  OBVIOUS
<1>2. b \in S /\ \A a \in S, i \in 1..n : Op(a, x[i]) \in S
  <2>1. b \in S
    BY DEF Paired, Time
  <2>2. ASSUME NEW a \in S, NEW e \in Event PROVE Op(a, e) \in S
    <3>1. a.open \in Time /\ a.intervals \in Seq(Pauses) /\ e.at \in Nat /\ e.at \in Time
      BY <2>2 DEF Paired, Event, Time
    <3>2. a.open # None => Row(a.open, e.at, "PAUSED") \in Pauses
      BY <3>1 DEF Row, Pauses, Time
    <3>3. a.intervals \o RowIf(a.open, e.at, "PAUSED") \in Seq(Pauses)
      BY <3>1, <3>2, RowFacts, ConcatProperties
    <3>4. /\ [a EXCEPT !.open = e.at] \in Paired
          /\ [open |-> None, intervals |-> a.intervals \o RowIf(a.open, e.at, "PAUSED")] \in Paired
      BY <3>1, <3>3 DEF Paired, Time
    <3> QED
      BY <3>4 DEF Pair
  <2> QED
    BY <1>1, <2>1, <2>2
<1>3. PauseIntervals(h, o) = fold[1..n].intervals
  <2>1. PauseIntervals(h, o) =
          FoldLeft(LAMBDA a, e : Op(a, e), b, x).intervals
    BY DEF PauseIntervals, Pair, Op, b, ResumeAndPop
  <2> QED
    BY <1>1, <2>1, Zenon DEF FoldLeft, MapThenFoldSet
<1> HIDE DEF Op, S, b, n
<1>4. \E it : Folds(it)
  <2>1. /\ Steps(step, n, S)
        /\ \A a \in S, i \in 1..n : step[<<a, i>>] = Op(a, x[i])
    BY <1>2 DEF Steps
  <2> HIDE DEF step
  <2>2. PICK it : Iterates(it, step, b, n, S)
    BY <1>1, <1>2, <2>1, FoldExists
  <2>3. ASSUME NEW T \in SUBSET (1..n), T # {}
        PROVE  it[T] = Op(it[T \ {Max(T)}], x[Max(T)])
    <3>1. Max(T) \in 1..n
      BY <1>1, <2>3, MaxFacts
    <3>2. it[T \ {Max(T)}] \in S
      BY <2>2 DEF Iterates
    <3> QED
      BY <2>1, <2>2, <2>3, <3>1, <3>2 DEF Iterates
  <2> QED
    BY <2>2, <2>3 DEF Iterates
<1>5. Folds(fold)
  BY <1>4, Zenon
<1> HIDE DEF fold
<1>6. fold[1..0] = b
  <2>1. 1..0 = {} /\ 1..0 \in SUBSET (1..n)
    BY <1>1
  <2> QED
    BY <1>5, <2>1
<1>7. ASSUME NEW k \in 1..n PROVE fold[1..k] = Op(fold[1..(k-1)], x[k])
  <2>1. Max(1..k) = k /\ (1..k) \ {k} = 1..(k-1) /\ 1..k # {} /\ 1..k \in SUBSET (1..n)
    BY <1>1, PrefixFacts
  <2> QED
    BY <1>5, <2>1
<1> DEFINE Good == {k \in 0..n : fold[1..k] \in S}
<1>8. \A k \in 0..n : k \in Good
  <2>1. 0 \in Good
    BY <1>1, <1>2, <1>6
  <2>2. \A k \in 1..n : k - 1 \in Good => k \in Good
    BY <1>1, <1>2, <1>7
  <2> HIDE DEF Good
  <2> QED
    BY <1>1, <2>1, <2>2, Induction
<1>9. /\ acc[0] = b /\ acc[n] = fold[1..n]
      /\ \A i \in 0..n : acc[i] \in S
      /\ \A i \in 1..n : acc[i] = Op(acc[i-1], x[i])
  BY <1>1, <1>6, <1>7, <1>8
<1> HIDE DEF acc
<1> QED
  BY <1>3, <1>9 DEF PairsUp, n, b, S, Op, fold, Folds

(* A pause is placed after the time the operation ran.                     *)
Filled(rows, since, until) == rows \o RowIf(since, until, "OPERATION")

Place(acc, pause) ==
  [cursor |-> IF pause.finish > acc.cursor THEN pause.finish ELSE acc.cursor,
   rows |-> Filled(acc.rows, acc.cursor, pause.start) \o <<pause>>]

Placed == [cursor : Nat, rows : Seq(Bar)]

(* The bars drawn after each of the pauses x.                              *)
PlacesUp(acc, h, o, start, x) ==
  /\ acc[0] = [cursor |-> start, rows |-> <<>>]
  /\ \A i \in 0..Len(x) : acc[i] \in Placed
  /\ \A i \in 1..Len(x) : acc[i] = Place(acc[i-1], x[i])
  /\ OperationRows(h, o) =
       Filled(acc[Len(x)].rows, acc[Len(x)].cursor, OperationWindow(operations[o])[2])

LEMMA PlaceFold ==
  ASSUME NEW h, NEW o, NEW start \in Nat, start = OperationWindow(operations[o])[1],
         NEW x \in Seq(Pauses), x = PauseIntervals(h, o)
  PROVE  \E acc : PlacesUp(acc, h, o, start, x)
<1> DEFINE n == Len(x)
           b == [cursor |-> start, rows |-> <<>>]
           S == Placed
           Op(a, e) == Place(a, e)
           step == [p \in S \X (1..n) |-> Op(p[1], x[p[2]])]
           Folds(it) == it = [T \in SUBSET (1..n) |->
                                IF T = {} THEN b ELSE Op(it[T \ {Max(T)}], x[Max(T)])]
           fold == CHOOSE it : Folds(it)
           acc == [i \in 0..n |-> fold[1..i]]
<1>1. n \in Nat /\ DOMAIN x = 1..n /\ \A i \in 1..n : x[i] \in Pauses
  OBVIOUS
<1>2. b \in S /\ \A a \in S, i \in 1..n : Op(a, x[i]) \in S
  <2>1. b \in S
    BY DEF Placed
  <2>2. ASSUME NEW a \in S, NEW e \in Pauses PROVE Op(a, e) \in S
    <3>1. a.cursor \in Nat /\ a.rows \in Seq(Bar) /\ e.start \in Nat /\ e.finish \in Nat /\ e \in Bar
      BY <2>2 DEF Placed, Pauses, Bar, Status
    <3>2. Row(a.cursor, e.start, "OPERATION") \in Bar
      BY <3>1 DEF Row, Bar, Status
    <3>3. a.rows \o RowIf(a.cursor, e.start, "OPERATION") \in Seq(Bar) /\ <<e>> \in Seq(Bar)
      BY <3>1, <3>2, RowFacts, ConcatProperties
    <3>4. a.rows \o RowIf(a.cursor, e.start, "OPERATION") \o <<e>> \in Seq(Bar)
      BY <3>3, ConcatProperties
    <3> QED
      BY <3>1, <3>4 DEF Place, Placed, Filled
  <2> QED
    BY <1>1, <2>1, <2>2
<1>3. OperationRows(h, o) =
        Filled(fold[1..n].rows, fold[1..n].cursor, OperationWindow(operations[o])[2])
  <2> DEFINE placed == FoldLeft(LAMBDA a, e : Op(a, e), b, x)
  <2>1. OperationRows(h, o) =
          Filled(placed.rows, placed.cursor, OperationWindow(operations[o])[2])
    BY DEF OperationRows, Place, Filled
  <2>2. placed = fold[1..n]
    BY <1>1, Zenon DEF FoldLeft, MapThenFoldSet
  <2> QED
    BY <2>1, <2>2
<1> HIDE DEF Op, S, b, n
<1>4. \E it : Folds(it)
  <2>1. /\ Steps(step, n, S)
        /\ \A a \in S, i \in 1..n : step[<<a, i>>] = Op(a, x[i])
    BY <1>2 DEF Steps
  <2> HIDE DEF step
  <2>2. PICK it : Iterates(it, step, b, n, S)
    BY <1>1, <1>2, <2>1, FoldExists
  <2>3. ASSUME NEW T \in SUBSET (1..n), T # {}
        PROVE  it[T] = Op(it[T \ {Max(T)}], x[Max(T)])
    <3>1. Max(T) \in 1..n
      BY <1>1, <2>3, MaxFacts
    <3>2. it[T \ {Max(T)}] \in S
      BY <2>2 DEF Iterates
    <3> QED
      BY <2>1, <2>2, <2>3, <3>1, <3>2 DEF Iterates
  <2> QED
    BY <2>2, <2>3 DEF Iterates
<1>5. Folds(fold)
  BY <1>4, Zenon
<1> HIDE DEF fold
<1>6. fold[1..0] = b
  <2>1. 1..0 = {} /\ 1..0 \in SUBSET (1..n)
    BY <1>1
  <2> QED
    BY <1>5, <2>1
<1>7. ASSUME NEW k \in 1..n PROVE fold[1..k] = Op(fold[1..(k-1)], x[k])
  <2>1. Max(1..k) = k /\ (1..k) \ {k} = 1..(k-1) /\ 1..k # {} /\ 1..k \in SUBSET (1..n)
    BY <1>1, PrefixFacts
  <2> QED
    BY <1>5, <2>1
<1> DEFINE Good == {k \in 0..n : fold[1..k] \in S}
<1>8. \A k \in 0..n : k \in Good
  <2>1. 0 \in Good
    BY <1>1, <1>2, <1>6
  <2>2. \A k \in 1..n : k - 1 \in Good => k \in Good
    BY <1>1, <1>2, <1>7
  <2> HIDE DEF Good
  <2> QED
    BY <1>1, <2>1, <2>2, Induction
<1>9. /\ acc[0] = b /\ acc[n] = fold[1..n]
      /\ \A i \in 0..n : acc[i] \in S
      /\ \A i \in 1..n : acc[i] = Op(acc[i-1], x[i])
  BY <1>1, <1>6, <1>7, <1>8
<1> HIDE DEF acc
<1> QED
  BY <1>3, <1>9 DEF PlacesUp, n, b, S, Op, fold, Folds

LEMMA ClosedBarsType ==
  ASSUME NEW open \in [running : Time, paused : Time], NEW at \in Nat, NEW type
  PROVE  ClosedBars(open, type, at) \in Seq(Bar)
<1>1. /\ open.running # None => Row(open.running, at, "DISPATCHER_RUNNING") \in Bar
      /\ open.paused # None => Row(open.paused, at, "DISPATCHER_PAUSED") \in Bar
  BY DEF Row, Bar, Status, Time
<1>2. /\ RowIf(open.running, at, "DISPATCHER_RUNNING") \in Seq(Bar)
      /\ RowIf(open.paused, at, "DISPATCHER_PAUSED") \in Seq(Bar)
      /\ <<>> \in Seq(Bar)
  BY <1>1, RowFacts DEF RowIf
<1> QED
  BY <1>2, Zenon DEF ClosedBars

(* An event ends the bar that is open and may begin one.                   *)
Draw(acc, e) == [open |-> OpenBars(acc.open, e),
                 rows |-> acc.rows \o ClosedBars(acc.open, e.type, e.at)]

Open == [running : Time, paused : Time]

Drawn == [open : Open, rows : Seq(Bar)]

(* The dispatcher's bars after each of the events x of h.                  *)
DrawsUp(acc, h, x) ==
  /\ acc[0] = [open |-> Idle, rows |-> <<>>]
  /\ \A i \in 0..Len(x) : acc[i] \in Drawn
  /\ \A i \in 1..Len(x) : acc[i] = Draw(acc[i-1], x[i])
  /\ DispatcherRows(h) =
       IF h.end = None THEN acc[Len(x)].rows
       ELSE acc[Len(x)].rows \o ClosedBars(acc[Len(x)].open, "END", h.end)

LEMMA DrawFold ==
  ASSUME NEW h, NEW x \in Seq(Event), x = h.events
  PROVE  \E acc : DrawsUp(acc, h, x)
<1> DEFINE n == Len(x)
           b == [open |-> Idle, rows |-> <<>>]
           S == Drawn
           Op(a, e) == Draw(a, e)
           step == [p \in S \X (1..n) |-> Op(p[1], x[p[2]])]
           Folds(it) == it = [T \in SUBSET (1..n) |->
                                IF T = {} THEN b ELSE Op(it[T \ {Max(T)}], x[Max(T)])]
           fold == CHOOSE it : Folds(it)
           acc == [i \in 0..n |-> fold[1..i]]
<1>1. n \in Nat /\ DOMAIN x = 1..n /\ \A i \in 1..n : x[i] \in Event
  OBVIOUS
<1>2. b \in S /\ \A a \in S, i \in 1..n : Op(a, x[i]) \in S
  <2>1. b \in S
    BY DEF Drawn, Open, Idle, Time
  <2>2. ASSUME NEW a \in S, NEW e \in Event PROVE Op(a, e) \in S
    <3>1. a.open \in Open /\ a.rows \in Seq(Bar) /\ e.at \in Nat
      BY <2>2 DEF Drawn, Event
    <3>2. OpenBars(a.open, e) \in Open
      BY <3>1 DEF OpenBars, Open, Idle, StopClosesOpen, Time
    <3>3. ClosedBars(a.open, e.type, e.at) \in Seq(Bar)
      BY <3>1, ClosedBarsType DEF Open
    <3> QED
      BY <3>1, <3>2, <3>3, ConcatProperties DEF Draw, Drawn
  <2> QED
    BY <1>1, <2>1, <2>2
<1>3. DispatcherRows(h) =
        IF h.end = None THEN fold[1..n].rows
        ELSE fold[1..n].rows \o ClosedBars(fold[1..n].open, "END", h.end)
  <2> DEFINE drawn == FoldLeft(LAMBDA a, e : Op(a, e), b, x)
  <2>1. DispatcherRows(h) = IF h.end = None THEN drawn.rows
                            ELSE drawn.rows \o ClosedBars(drawn.open, "END", h.end)
    BY DEF DispatcherRows, Draw
  <2>2. drawn = fold[1..n]
    BY <1>1, Zenon DEF FoldLeft, MapThenFoldSet
  <2> QED
    BY <2>1, <2>2
<1> HIDE DEF Op, S, b, n
<1>4. \E it : Folds(it)
  <2>1. /\ Steps(step, n, S)
        /\ \A a \in S, i \in 1..n : step[<<a, i>>] = Op(a, x[i])
    BY <1>2 DEF Steps
  <2> HIDE DEF step
  <2>2. PICK it : Iterates(it, step, b, n, S)
    BY <1>1, <1>2, <2>1, FoldExists
  <2>3. ASSUME NEW T \in SUBSET (1..n), T # {}
        PROVE  it[T] = Op(it[T \ {Max(T)}], x[Max(T)])
    <3>1. Max(T) \in 1..n
      BY <1>1, <2>3, MaxFacts
    <3>2. it[T \ {Max(T)}] \in S
      BY <2>2 DEF Iterates
    <3> QED
      BY <2>1, <2>2, <2>3, <3>1, <3>2 DEF Iterates
  <2> QED
    BY <2>2, <2>3 DEF Iterates
<1>5. Folds(fold)
  BY <1>4, Zenon
<1> HIDE DEF fold
<1>6. fold[1..0] = b
  <2>1. 1..0 = {} /\ 1..0 \in SUBSET (1..n)
    BY <1>1
  <2> QED
    BY <1>5, <2>1
<1>7. ASSUME NEW k \in 1..n PROVE fold[1..k] = Op(fold[1..(k-1)], x[k])
  <2>1. Max(1..k) = k /\ (1..k) \ {k} = 1..(k-1) /\ 1..k # {} /\ 1..k \in SUBSET (1..n)
    BY <1>1, PrefixFacts
  <2> QED
    BY <1>5, <2>1
<1> DEFINE Good == {k \in 0..n : fold[1..k] \in S}
<1>8. \A k \in 0..n : k \in Good
  <2>1. 0 \in Good
    BY <1>1, <1>2, <1>6
  <2>2. \A k \in 1..n : k - 1 \in Good => k \in Good
    BY <1>1, <1>2, <1>7
  <2> HIDE DEF Good
  <2> QED
    BY <1>1, <2>1, <2>2, Induction
<1>9. /\ acc[0] = b /\ acc[n] = fold[1..n]
      /\ \A i \in 0..n : acc[i] \in S
      /\ \A i \in 1..n : acc[i] = Op(acc[i-1], x[i])
  BY <1>1, <1>6, <1>7, <1>8
<1> HIDE DEF acc
<1> QED
  BY <1>3, <1>9 DEF DrawsUp, n, b, S, Op, fold, Folds

(* An event switches something on or off.                                  *)
Count(on, off, sum, e) ==
  CASE e.type = on -> [sum EXCEPT !.since = SwitchedOn(@, e.at)]
    [] e.type = off -> [since |-> None, seconds |-> sum.seconds + Interval(sum.since, e.at)]
    [] OTHER -> sum

Counted == [since : Time, seconds : Nat]

Total(sum, until) == sum.seconds + Interval(sum.since, until)

Relevant(x, on, off) == {i \in DOMAIN x : x[i].type \in {on, off}}

(* The sums after each of the events x of h, from since on.                *)
CountsUp(acc, h, x, on, off, since) ==
  /\ acc[0] = [since |-> since, seconds |-> 0]
  /\ \A i \in 0..Len(x) : acc[i] \in Counted
  /\ \A i \in 1..Len(x) : acc[i] = Count(on, off, acc[i-1], x[i])
  /\ TimeBetween(h, on, off) = Total(acc[Len(x)], GetEnd(h))

LEMMA CountFold ==
  ASSUME NEW h, NEW x \in Seq(Event), x = h.events, NEW on, NEW off, on # off,
         Relevant(x, on, off) # {},
         NEW q, q = Min(Relevant(x, on, off)),
         NEW since \in Time, since = OnSince(h, x[q], off)
  PROVE  \E acc : CountsUp(acc, h, x, on, off, since)
<1> DEFINE n == Len(x)
           b == [since |-> since, seconds |-> 0]
           S == Counted
           Op(a, e) == Count(on, off, a, e)
           step == [p \in S \X (1..n) |-> Op(p[1], x[p[2]])]
           Folds(it) == it = [T \in SUBSET (1..n) |->
                                IF T = {} THEN b ELSE Op(it[T \ {Max(T)}], x[Max(T)])]
           fold == CHOOSE it : Folds(it)
           acc == [i \in 0..n |-> fold[1..i]]
<1>1. n \in Nat /\ DOMAIN x = 1..n /\ \A i \in 1..n : x[i] \in Event
  OBVIOUS
<1>2. b \in S /\ \A a \in S, i \in 1..n : Op(a, x[i]) \in S
  <2>1. b \in S
    BY DEF Counted
  <2>2. ASSUME NEW a \in S, NEW e \in Event PROVE Op(a, e) \in S
    <3>1. a.since \in Time /\ a.seconds \in Nat /\ e.at \in Nat
      BY <2>2 DEF Counted, Event
    <3>2. Interval(a.since, e.at) \in Nat
      BY <3>1 DEF Interval, Time
    <3>3. SwitchedOn(a.since, e.at) \in Time
      BY <3>1 DEF SwitchedOn, Time
    <3>4. /\ [a EXCEPT !.since = SwitchedOn(@, e.at)] \in Counted
          /\ [since |-> None, seconds |-> a.seconds + Interval(a.since, e.at)] \in Counted
      BY <3>1, <3>2, <3>3 DEF Counted, Time
    <3> QED
      BY <2>2, <3>4 DEF Count
  <2> QED
    BY <1>1, <2>1, <2>2
<1>3. TimeBetween(h, on, off) = Total(fold[1..n], GetEnd(h))
  <2> DEFINE total == FoldLeft(LAMBDA a, e : Op(a, e), b, x)
  <2>1. TimeBetween(h, on, off) = Total(total, GetEnd(h))
    BY DEF TimeBetween, Count, Relevant, Total
  <2>2. total = fold[1..n]
    BY <1>1, Zenon DEF FoldLeft, MapThenFoldSet
  <2> QED
    BY <2>1, <2>2
<1> HIDE DEF Op, S, b, n
<1>4. \E it : Folds(it)
  <2>1. /\ Steps(step, n, S)
        /\ \A a \in S, i \in 1..n : step[<<a, i>>] = Op(a, x[i])
    BY <1>2 DEF Steps
  <2> HIDE DEF step
  <2>2. PICK it : Iterates(it, step, b, n, S)
    BY <1>1, <1>2, <2>1, FoldExists
  <2>3. ASSUME NEW T \in SUBSET (1..n), T # {}
        PROVE  it[T] = Op(it[T \ {Max(T)}], x[Max(T)])
    <3>1. Max(T) \in 1..n
      BY <1>1, <2>3, MaxFacts
    <3>2. it[T \ {Max(T)}] \in S
      BY <2>2 DEF Iterates
    <3> QED
      BY <2>1, <2>2, <2>3, <3>1, <3>2 DEF Iterates
  <2> QED
    BY <2>2, <2>3 DEF Iterates
<1>5. Folds(fold)
  BY <1>4, Zenon
<1> HIDE DEF fold
<1>6. fold[1..0] = b
  <2>1. 1..0 = {} /\ 1..0 \in SUBSET (1..n)
    BY <1>1
  <2> QED
    BY <1>5, <2>1
<1>7. ASSUME NEW k \in 1..n PROVE fold[1..k] = Op(fold[1..(k-1)], x[k])
  <2>1. Max(1..k) = k /\ (1..k) \ {k} = 1..(k-1) /\ 1..k # {} /\ 1..k \in SUBSET (1..n)
    BY <1>1, PrefixFacts
  <2> QED
    BY <1>5, <2>1
<1> DEFINE Good == {k \in 0..n : fold[1..k] \in S}
<1>8. \A k \in 0..n : k \in Good
  <2>1. 0 \in Good
    BY <1>1, <1>2, <1>6
  <2>2. \A k \in 1..n : k - 1 \in Good => k \in Good
    BY <1>1, <1>2, <1>7
  <2> HIDE DEF Good
  <2> QED
    BY <1>1, <2>1, <2>2, Induction
<1>9. /\ acc[0] = b /\ acc[n] = fold[1..n]
      /\ \A i \in 0..n : acc[i] \in S
      /\ \A i \in 1..n : acc[i] = Op(acc[i-1], x[i])
  BY <1>1, <1>6, <1>7, <1>8
<1> HIDE DEF acc
<1> QED
  BY <1>3, <1>9 DEF CountsUp, n, b, S, Op, fold, Folds
-----------------------------------------------------------------------------
(* What is selected.                                                       *)

Ascending(x) == \A i, j \in 1..Len(x) : i < j => x[i].at <= x[j].at

(* y is what lies in x behind lo, up to hi.                                *)
Stretch(y, x, lo, hi) == Len(y) = hi - lo /\ \A i \in 1..Len(y) : y[i] = x[i + lo]

LEMMA WindowCuts ==
  ASSUME NEW x \in Seq(Event), Ascending(x), NEW from \in Time, NEW to \in Time,
         from # None /\ to # None => from <= to
  PROVE  \E lo \in 0..Len(x), hi \in 0..Len(x) :
           /\ lo <= hi
           /\ lo > 0 => from # None /\ x[lo].at < from
           /\ hi < Len(x) => to # None /\ x[hi+1].at > to
           /\ \A i \in 1..Len(x) :
                (lo < i /\ i <= hi) <=> ((from # None => x[i].at >= from) /\ (to # None => x[i].at <= to))
<1> DEFINE n == Len(x)
           Late(k) == \A i \in 1..n : k < i => (from # None => x[i].at >= from)
           Past(k) == \A i \in 1..n : k < i => (to # None /\ x[i].at > to)
           Los == {k \in 0..n : Late(k)}
           His == {k \in 0..n : Past(k)}
<1>1. n \in Nat /\ \A i \in 1..n : x[i].at \in Nat
  <2>1. n \in Nat /\ \A i \in 1..n : x[i] \in Event
    OBVIOUS
  <2> QED
    BY <2>1 DEF Event
<1>2. \A i, j \in 1..n : i <= j => x[i].at <= x[j].at
  BY <1>1 DEF Ascending
<1>3. /\ from # None => from \in Nat
      /\ to # None => to \in Nat
  BY DEF Time
<1> HIDE DEF n
<1>4. PICK lo \in Los : \A k \in Los : lo <= k
  <2>1. n \in Los
    BY <1>1
  <2>2. Los \in SUBSET Nat
    BY <1>1
  <2> HIDE DEF Los
  <2> QED
    BY <2>1, <2>2, LeastNatural
<1>5. PICK hi \in His : \A k \in His : hi <= k
  <2>1. n \in His
    BY <1>1
  <2>2. His \in SUBSET Nat
    BY <1>1
  <2> HIDE DEF His
  <2> QED
    BY <2>1, <2>2, LeastNatural
<1>6. lo \in 0..n /\ Late(lo) /\ hi \in 0..n /\ Past(hi)
  BY <1>4, <1>5
<1>7. ASSUME lo > 0 PROVE from # None /\ x[lo].at < from
  <2>1. lo - 1 \in 0..n /\ lo \in 1..n /\ lo - 1 < lo
    BY <1>1, <1>6, <1>7
  <2>2. ~ Late(lo - 1)
    BY <1>1, <1>4, <2>1
  <2>3. PICK i \in 1..n : lo - 1 < i /\ from # None /\ ~ (x[i].at >= from)
    BY <2>2
  <2>4. i = lo
    BY <1>1, <1>6, <2>1, <2>3
  <2> QED
    BY <1>1, <1>3, <2>1, <2>3, <2>4
<1>8. ASSUME hi > 0 PROVE to # None => x[hi].at <= to
  <2>1. hi - 1 \in 0..n /\ hi \in 1..n /\ hi - 1 < hi
    BY <1>1, <1>6, <1>8
  <2>2. ~ Past(hi - 1)
    BY <1>1, <1>5, <2>1
  <2>3. PICK i \in 1..n : hi - 1 < i /\ ~ (to # None /\ x[i].at > to)
    BY <2>2
  <2>4. i = hi
    BY <1>1, <1>6, <2>1, <2>3
  <2> QED
    BY <1>1, <1>3, <2>1, <2>3, <2>4
<1>9. ASSUME hi < n PROVE to # None /\ x[hi+1].at > to
  <2>1. hi + 1 \in 1..n /\ hi < hi + 1
    BY <1>1, <1>6, <1>9
  <2> QED
    BY <1>6, <2>1
<1>10. lo <= hi
  <2> SUFFICES ASSUME lo > hi PROVE FALSE
    BY <1>1, <1>6
  <2>1. lo \in 1..n /\ hi < lo /\ lo > 0
    BY <1>1, <1>6
  <2> QED
    BY <1>1, <1>3, <1>6, <1>7, <2>1
<1>11. ASSUME NEW i \in 1..n
       PROVE  (lo < i /\ i <= hi) <=> ((from # None => x[i].at >= from) /\ (to # None => x[i].at <= to))
  <2>1. CASE i <= lo
    <3>1. lo \in 1..n /\ lo > 0 /\ x[i].at <= x[lo].at
      BY <1>1, <1>2, <1>6, <2>1
    <3> QED
      BY <1>1, <1>3, <1>6, <1>7, <2>1, <3>1
  <2>2. CASE lo < i /\ i <= hi
    <3>1. hi \in 1..n /\ hi > 0 /\ x[i].at <= x[hi].at
      BY <1>1, <1>2, <1>6, <2>2
    <3> QED
      BY <1>1, <1>3, <1>6, <1>8, <2>2, <3>1
  <2>3. CASE hi < i
    BY <1>1, <1>3, <1>6, <2>3
  <2> QED
    BY <1>1, <1>6, <2>1, <2>2, <2>3
<1> QED
  BY <1>6, <1>7, <1>9, <1>10, <1>11 DEF n

(* What get_history returns is a stretch of the history.                   *)
LEMMA WithinStretch ==
  ASSUME NEW x \in Seq(Event), x = event_history, NEW from, NEW to,
         NEW lo \in 0..Len(x), NEW hi \in 0..Len(x), lo <= hi,
         \A i \in 1..Len(x) :
           (lo < i /\ i <= hi) <=> ((from # None => x[i].at >= from) /\ (to # None => x[i].at <= to))
  PROVE  /\ Selected(from, to, None).events \in Seq(Event)
         /\ Stretch(Selected(from, to, None).events, x, lo, hi)
<1> DEFINE n == Len(x)
           kept(k) == IF k <= lo THEN 0 ELSE IF k <= hi THEN k - lo ELSE hi - lo
<1>1. n \in Nat /\ \A i \in 1..n : x[i] \in Event
  OBVIOUS
<1>2. PICK acc : /\ acc[0] = <<>>
                 /\ \A i \in 0..n : acc[i] \in Seq(Event)
                 /\ \A i \in 1..n : acc[i] = Keep(from, to, acc[i-1], x[i])
                 /\ Selected(from, to, None).events = acc[n]
  BY SelectionFold
<1> DEFINE Good == {k \in 0..n : /\ Len(acc[k]) = kept(k)
                                 /\ \A i \in 1..kept(k) : acc[k][i] = x[i + lo]}
<1>3. 0 \in Good
  <2>1. kept(0) = 0 /\ Len(acc[0]) = 0
    BY <1>2
  <2> QED
    BY <1>1, <2>1
<1>4. ASSUME NEW k \in 1..n, k - 1 \in Good PROVE k \in Good
  <2>1. acc[k-1] \in Seq(Event) /\ x[k] \in Event
    BY <1>1, <1>2
  <2>2. /\ Len(acc[k-1]) = kept(k-1)
        /\ \A i \in 1..kept(k-1) : acc[k-1][i] = x[i + lo]
        /\ k \in 0..n
    BY <1>1, <1>4
  <2>3. SUFFICES /\ Len(acc[k]) = kept(k)
                 /\ \A i \in 1..kept(k) : acc[k][i] = x[i + lo]
    BY <2>2
  <2> HIDE DEF Good
  <2>4. CASE lo < k /\ k <= hi
    <3>1. acc[k] = Append(acc[k-1], x[k])
      BY <1>2, <2>4 DEF Keep
    <3>2. /\ Len(acc[k]) = Len(acc[k-1]) + 1
          /\ \A i \in 1..Len(acc[k-1]) : acc[k][i] = acc[k-1][i]
          /\ acc[k][Len(acc[k-1]) + 1] = x[k]
      BY <2>1, <3>1
    <3>3. kept(k-1) = k - 1 - lo /\ kept(k) = k - lo
      BY <1>1, <2>4
    <3>4. \A i \in 1..(k - lo) : i \in 1..(k - 1 - lo) \/ i = k - lo
      BY <1>1
    <3>5. k - 1 - lo + 1 = k - lo /\ (k - lo) + lo = k
      BY <1>1
    <3> HIDE DEF kept
    <3>6. acc[k][k - lo] = x[k]
      BY <2>2, <3>2, <3>3, <3>5
    <3> QED
      BY <2>2, <3>2, <3>3, <3>4, <3>5, <3>6
  <2>5. CASE ~ (lo < k /\ k <= hi)
    <3>1. acc[k] = acc[k-1]
      BY <1>2, <2>5 DEF Keep
    <3>2. kept(k) = kept(k-1)
      BY <1>1, <2>5
    <3> QED
      BY <2>2, <3>1, <3>2
  <2> QED
    BY <2>4, <2>5
<1>5. n \in Good
  <2>1. \A k \in 1..n : k - 1 \in Good => k \in Good
    BY <1>4
  <2> HIDE DEF Good, n, kept
  <2>2. \A k \in 0..n : k \in Good
    BY <1>1, <1>3, <2>1, Induction
  <2> QED
    BY <1>1, <2>2
<1>6. kept(n) = hi - lo
  BY <1>1
<1> QED
  BY <1>1, <1>2, <1>5, <1>6 DEF Stretch

(* h is selected from x, which has the events behind lo up to hi in it.    *)
Slice(h, x, from, to, limit, lo, hi) ==
  /\ lo <= hi
  /\ hi < Len(x) => to # None /\ x[hi+1].at > to
  /\ limit = None /\ lo > 0 => from # None /\ x[lo].at < from
  /\ h.start = from /\ h.end = to /\ h.events \in Seq(Event)
  /\ Stretch(h.events, x, lo, hi)
  /\ \A i \in 1..Len(h.events) : /\ from # None => h.events[i].at >= from
                                 /\ to # None => h.events[i].at <= to

LEMMA SelectedFacts ==
  ASSUME ReportInv, NEW x \in Seq(Event), x = event_history,
         NEW from \in Time, NEW to \in Time, from # None /\ to # None => from <= to,
         NEW limit \in Time, NEW h, h = Selected(from, to, limit)
  PROVE  \E lo \in 0..Len(x), hi \in 0..Len(x) :
           Slice(h, x, from, to, limit, lo, hi)
<1>1. Ascending(x)
  BY DEF ReportInv, Recorded, Sorted, Precedes, Ascending
<1>2. PICK lo \in 0..Len(x), hi \in 0..Len(x) :
           /\ lo <= hi
           /\ lo > 0 => from # None /\ x[lo].at < from
           /\ hi < Len(x) => to # None /\ x[hi+1].at > to
           /\ \A i \in 1..Len(x) :
                (lo < i /\ i <= hi) <=> ((from # None => x[i].at >= from) /\ (to # None => x[i].at <= to))
  BY <1>1, WindowCuts
<1> DEFINE y == Selected(from, to, None).events
<1>3. y \in Seq(Event) /\ Stretch(y, x, lo, hi)
  BY <1>2, WithinStretch
<1>4. /\ h.start = from /\ h.end = to
      /\ h.events = IF limit = None THEN y ELSE LastOf(y, limit)
  BY DEF Selected
<1> HIDE DEF y
<1>5. PICK k \in 0..Len(y) : /\ h.events \in Seq(Event)
                             /\ Suffix(h.events, y, k)
                             /\ limit = None => k = 0
  <2>1. CASE limit = None
    <3>1. Suffix(y, y, 0)
      BY <1>3 DEF Suffix
    <3> QED
      BY <1>3, <1>4, <2>1, <3>1
  <2>2. CASE limit # None
    <3>1. limit \in Nat
      BY <2>2 DEF Time
    <3> QED
      BY <1>3, <1>4, <2>2, <3>1, LastOfFacts
  <2> QED
    BY <2>1, <2>2
<1>6. /\ Len(y) = hi - lo /\ Len(y) \in Nat /\ Len(h.events) = Len(y) - k /\ Len(h.events) \in Nat
      /\ Len(x) \in Nat
      /\ lo + k \in 0..Len(x) /\ lo + k <= hi
  BY <1>2, <1>3, <1>5 DEF Stretch, Suffix
<1>7. \A i \in 1..Len(h.events) :
        /\ h.events[i] = x[i + (lo + k)]
        /\ i + (lo + k) \in 1..Len(x)
        /\ lo < i + (lo + k) /\ i + (lo + k) <= hi
  <2> SUFFICES ASSUME NEW i \in 1..Len(h.events)
               PROVE  /\ h.events[i] = x[i + (lo + k)]
                      /\ i + (lo + k) \in 1..Len(x)
                      /\ lo < i + (lo + k) /\ i + (lo + k) <= hi
    OBVIOUS
  <2>1. i + k \in 1..Len(y) /\ (i + k) + lo = i + (lo + k)
    BY <1>6
  <2>2. h.events[i] = y[i + k] /\ y[i + k] = x[(i + k) + lo]
    BY <1>3, <1>5, <2>1 DEF Stretch, Suffix
  <2>3. h.events[i] = x[i + (lo + k)]
    BY <2>1, <2>2
  <2>4. i + (lo + k) \in 1..Len(x) /\ lo < i + (lo + k) /\ i + (lo + k) <= hi
    BY <1>6
  <2> QED
    BY <2>3, <2>4
<1>8. Stretch(h.events, x, lo + k, hi)
  <2>1. Len(h.events) = hi - (lo + k)
    BY <1>6
  <2> QED
    BY <1>7, <2>1, Zenon DEF Stretch
<1>9. \A i \in 1..Len(h.events) : /\ from # None => h.events[i].at >= from
                                  /\ to # None => h.events[i].at <= to
  BY <1>2, <1>7
<1>10. limit = None /\ lo + k > 0 => from # None /\ x[lo + k].at < from
  BY <1>2, <1>5
<1> QED
  BY <1>2, <1>4, <1>5, <1>6, <1>8, <1>9, <1>10 DEF Slice
-----------------------------------------------------------------------------
(* The story of what is selected.                                          *)

(* Until when things are as they are after the i-th event.                 *)
Until(h, i) == IF i < Len(h.events) THEN h.events[i+1].at ELSE GetEnd(h)

(* The events of h are in order, in its window and fit the records.        *)
Read(h) ==
  /\ h.start \in Time /\ h.end \in Time
  /\ h.events \in Seq(Event)
  /\ Sorted(h.events)
  /\ \A i \in 1..Len(h.events) :
       /\ Fits(h.events[i])
       /\ h.start # None => h.start <= h.events[i].at
       /\ h.end # None => h.events[i].at <= h.end

(* r is the situation before the events of h and after each. lead: what    *)
(* passed before the first is known.                                       *)
Chapter(h, r, lead, off) ==
  /\ r \in [0..Len(h.events) -> Situation]
  /\ \A i \in 1..Len(h.events) :
       /\ Follows(r[i-1], h.events[i], r[i], off)
       /\ \A t \in Ticks(h.events[i].at, Until(h, i)) : past[t] = r[i]
       /\ h.events[i].type = "DISPATCHER_STARTED" /\ r[i].paused =>
            /\ i < Len(h.events)
            /\ h.events[i+1].type = "DISPATCHER_PAUSED"
            /\ h.events[i+1].at = h.events[i].at
  /\ lead /\ h.events # <<>> => \A t \in Ticks(GetStart(h), Until(h, 0)) : past[t] = r[0]

LEMMA EndFacts ==
  ASSUME NEW h, Read(h), NEW m, m = Len(h.events), m > 0
  PROVE  /\ m \in Nat
         /\ GetStart(h) = IF h.start # None THEN h.start ELSE h.events[1].at
         /\ GetEnd(h) = IF h.end # None THEN h.end ELSE h.events[m].at
         /\ GetStart(h) \in Nat /\ GetEnd(h) \in Nat
         /\ GetStart(h) <= h.events[1].at /\ h.events[m].at <= GetEnd(h)
         /\ \A i \in 1..m : /\ h.events[i] \in Event
                            /\ h.events[i].at \in Nat
                            /\ Until(h, i) \in Nat /\ Until(h, i - 1) = h.events[i].at
                            /\ h.events[i].at <= Until(h, i)
<1> DEFINE x == h.events
<1>1. x \in Seq(Event) /\ m = Len(x) /\ m \in Nat /\ m > 0 /\ 1 \in 1..m /\ m \in 1..m
  BY DEF Read
<1>2. x # <<>> /\ Head(x) = x[1] /\ Last(x) = x[m]
  BY <1>1 DEF Last
<1>3. \A i \in 1..m : x[i] \in Event /\ x[i].at \in Nat
  <2>1. \A i \in 1..m : x[i] \in Event
    BY <1>1
  <2> QED
    BY <2>1 DEF Event
<1>4. /\ GetStart(h) = IF h.start # None THEN h.start ELSE x[1].at
      /\ GetEnd(h) = IF h.end # None THEN h.end ELSE x[m].at
  BY <1>2, Zenon DEF GetStart, GetEnd
<1>5. /\ GetStart(h) \in Nat /\ GetEnd(h) \in Nat
      /\ GetStart(h) <= x[1].at /\ x[m].at <= GetEnd(h)
  BY <1>1, <1>3, <1>4 DEF Read, Time
<1>6. ASSUME NEW i \in 1..m
      PROVE  /\ Until(h, i) \in Nat /\ Until(h, i - 1) = x[i].at /\ x[i].at <= Until(h, i)
  <2>1. Until(h, i - 1) = x[i].at
    <3>1. i - 1 < m /\ i - 1 + 1 = i
      BY <1>1
    <3> QED
      BY <3>1 DEF Until
  <2>2. CASE i < m
    <3>1. i + 1 \in 1..m /\ i < i + 1
      BY <1>1, <2>2
    <3>2. x[i].at <= x[i+1].at
      BY <1>1, <3>1 DEF Read, Sorted, Precedes
    <3>3. Until(h, i) = x[i+1].at
      BY <2>2 DEF Until
    <3> QED
      BY <1>3, <2>1, <3>1, <3>2, <3>3
  <2>3. CASE ~ (i < m)
    <3>1. i = m /\ Until(h, i) = GetEnd(h)
      BY <1>1, <2>3 DEF Until
    <3> QED
      BY <1>5, <2>1, <3>1
  <2> QED
    BY <2>2, <2>3
<1> QED
  BY <1>1, <1>3, <1>4, <1>5, <1>6

LEMMA ChapterOfStory ==
  ASSUME ReportInv, NEW from \in Bound, NEW to \in Bound, from # None /\ to # None => from <= to,
         NEW limit \in Time, NEW h, h = Selected(from, to, limit)
  PROVE  /\ Read(h) /\ h.start = from /\ h.end = to
         /\ \E r : Chapter(h, r, from = None \/ (Complete /\ limit = None), Sofar)
<1>1. /\ event_history \in Seq(Event) /\ now \in Nat
      /\ from \in Time /\ to \in Time
      /\ from # None => from \in 0..now
      /\ to # None => to \in 0..now
  BY DEF ReportInv, Types, Bound, Time
<1>2. PICK x, n : x = event_history /\ n = Len(x)
  OBVIOUS
<1>3. x \in Seq(Event) /\ n \in Nat /\ Sorted(x) /\ \A i \in 1..n : x[i] \in Event /\ Fits(x[i])
  <2>1. x \in Seq(Event) /\ n \in Nat /\ \A i \in 1..n : x[i] \in Event /\ x[i] \in Range(x)
    BY <1>1, <1>2 DEF Range
  <2> QED
    BY <1>2, <2>1 DEF ReportInv, Recorded
<1>4. PICK lo \in 0..n, hi \in 0..n :
        /\ lo <= hi
        /\ hi < n => to # None /\ x[hi+1].at > to
        /\ limit = None /\ lo > 0 => from # None /\ x[lo].at < from
        /\ h.start = from /\ h.end = to /\ h.events \in Seq(Event)
        /\ Stretch(h.events, x, lo, hi)
        /\ \A i \in 1..Len(h.events) : /\ from # None => h.events[i].at >= from
                                       /\ to # None => h.events[i].at <= to
  <2>1. from \in Time /\ to \in Time /\ x \in Seq(Event) /\ x = event_history /\ n = Len(x)
    BY <1>1, <1>2, <1>3
  <2>2. PICK lo \in 0..Len(x), hi \in 0..Len(x) : Slice(h, x, from, to, limit, lo, hi)
    BY <2>1, SelectedFacts
  <2> QED
    BY <2>1, <2>2 DEF Slice
<1>5. PICK y, m : y = h.events /\ m = Len(y)
  OBVIOUS
<1>6. /\ y \in Seq(Event) /\ m \in Nat /\ m = hi - lo
      /\ \A i \in 1..m : y[i] = x[i + lo] /\ i + lo \in 1..n /\ y[i] \in Event
      /\ \A i \in 0..m : i + lo \in 0..n
  <2>1. y \in Seq(Event) /\ m \in Nat /\ m = hi - lo
    BY <1>4, <1>5 DEF Stretch
  <2>2. \A i \in 1..m : y[i] = x[i + lo]
    BY <1>4, <1>5 DEF Stretch
  <2>3. /\ \A i \in 1..m : i + lo \in 1..n
        /\ \A i \in 0..m : i + lo \in 0..n
    BY <1>3, <2>1
  <2> QED
    BY <1>3, <2>1, <2>2, <2>3
<1>7. Sorted(y)
  <2> SUFFICES ASSUME NEW i \in 1..m, NEW j \in 1..m, i < j PROVE Precedes(y[i], y[j])
    BY <1>5, Zenon DEF Sorted
  <2>1. i + lo \in 1..n /\ j + lo \in 1..n /\ i + lo < j + lo
    BY <1>6
  <2>2. Precedes(x[i + lo], x[j + lo])
    BY <1>2, <1>3, <2>1, Zenon DEF Sorted
  <2> QED
    BY <1>6, <2>2
<1>8. Read(h)
  <2>1. \A i \in 1..m : /\ Fits(y[i]) /\ y[i].at \in Nat
                        /\ from # None => from <= y[i].at
                        /\ to # None => y[i].at <= to
    <3>1. \A i \in 1..m : Fits(y[i]) /\ y[i].at \in Nat
      BY <1>3, <1>6 DEF Event
    <3> QED
      BY <1>1, <1>4, <1>5, <3>1
  <2> QED
    BY <1>1, <1>4, <1>5, <1>6, <1>7, <2>1 DEF Read
<1>9. PICK s \in [0..n -> Situation] :
        /\ \A i \in 1..n : Follows(s[i-1], x[i], s[i], Sofar)
        /\ \A i \in 0..n : (i = 0 => Complete) => \A t \in Between(x, i) : past[t] = s[i]
        /\ \A i \in 1..n-1 : Announced(s, x, i)
        /\ s[n] = Current
  BY <1>2, Zenon DEF ReportInv, Story, Told, Tells
<1> DEFINE r == [i \in 0..m |-> s[i + lo]]
<1>10. /\ r \in [0..m -> Situation]
       /\ \A i \in 0..m : r[i] = s[i + lo]
       /\ \A i \in 1..m : r[i-1] = s[i + lo - 1]
  <2>1. \A i \in 0..m : i + lo \in 0..n /\ s[i + lo] \in Situation
    BY <1>6, <1>9
  <2>2. \A i \in 1..m : i - 1 \in 0..m /\ i - 1 + lo = i + lo - 1
    BY <1>6
  <2> QED
    BY <2>1, <2>2
<1> HIDE DEF r
<1>11. \A i \in 1..m : Follows(r[i-1], y[i], r[i], Sofar)
  <2> SUFFICES ASSUME NEW i \in 1..m PROVE Follows(r[i-1], y[i], r[i], Sofar)
    OBVIOUS
  <2>1. i + lo \in 1..n /\ i \in 0..m
    BY <1>6
  <2>2. Follows(s[i + lo - 1], x[i + lo], s[i + lo], Sofar)
    BY <1>9, <2>1
  <2> QED
    BY <1>6, <1>10, <2>1, <2>2
<1>12. ASSUME NEW i \in 1..m, NEW t \in Ticks(y[i].at, Until(h, i))
       PROVE  past[t] = r[i]
  <2>0. i + lo \in 1..n /\ i \in 0..m /\ i + lo > 0 /\ i + lo \in 0..n
    BY <1>6
  <2>1. /\ m > 0 /\ Until(h, i) \in Nat /\ y[i].at \in Nat
        /\ GetEnd(h) = IF to # None THEN to ELSE y[m].at
    <3>1. m > 0 /\ m = Len(h.events)
      BY <1>5, <1>6
    <3>2. /\ Until(h, i) \in Nat /\ h.events[i].at \in Nat
          /\ GetEnd(h) = IF h.end # None THEN h.end ELSE h.events[m].at
      BY <1>8, <3>1, EndFacts
    <3> QED
      BY <1>4, <1>5, <3>1, <3>2
  <2>2. t \in Int /\ y[i].at < t /\ t <= Until(h, i)
    BY <1>12, <2>1 DEF Ticks
  <2>3. \A j \in 1..m : y[j].at \in Nat /\ y[j].at <= now
    BY <1>5, <1>6, <1>8 DEF Read, Fits, Event
  <2>4. t \in 1..now
    <3>1. CASE i < m
      <4>1. Until(h, i) = y[i+1].at /\ i + 1 \in 1..m
        BY <1>5, <1>6, <3>1 DEF Until
      <4> QED
        BY <1>1, <2>1, <2>2, <2>3, <4>1
    <3>2. CASE ~ (i < m)
      <4>1. Until(h, i) = GetEnd(h) /\ m \in 1..m
        BY <1>5, <1>6, <3>2 DEF Until
      <4>2. GetEnd(h) <= now
        BY <1>1, <2>1, <2>3, <4>1
      <4> QED
        BY <1>1, <2>1, <2>2, <4>1, <4>2
    <3> QED
      BY <3>1, <3>2
  <2>5. i + lo < n => t <= x[i + lo + 1].at
    <3> SUFFICES ASSUME i + lo < n PROVE t <= x[i + lo + 1].at
      OBVIOUS
    <3>1. CASE i < m
      <4>1. Until(h, i) = y[i+1].at /\ i + 1 \in 1..m /\ i + 1 + lo = i + lo + 1
        <5>1. Until(h, i) = y[i+1].at
          BY ONLY <1>5, <3>1 DEF Until
        <5>2. i + 1 \in 1..m /\ i + 1 + lo = i + lo + 1
          BY <1>6, <3>1
        <5> QED
          BY ONLY <5>1, <5>2
      <4>2. y[i+1] = x[i + lo + 1]
        <5>1. y[i+1] = x[i + 1 + lo]
          BY ONLY <1>6, <4>1, Zenon
        <5> QED
          BY ONLY <4>1, <5>1, Zenon
      <4> QED
        BY <2>2, <4>1, <4>2
    <3>2. CASE ~ (i < m)
      <4>1. Until(h, i) = GetEnd(h) /\ i + lo = hi /\ hi < n /\ hi + 1 \in 1..n
        BY <1>3, <1>5, <1>6, <3>2 DEF Until
      <4>2. x[hi+1].at > to /\ to # None /\ to \in Nat /\ x[hi+1].at \in Nat
        BY <1>1, <1>3, <1>4, <4>1 DEF Event
      <4> QED
        BY <2>1, <2>2, <4>1, <4>2
    <3> QED
      BY <3>1, <3>2
  <2>6. t \in Between(x, i + lo)
    BY <1>2, <1>6, <2>0, <2>2, <2>4, <2>5 DEF Between
  <2>7. past[t] = s[i + lo]
    BY <1>9, <2>0, <2>6
  <2> QED
    BY <1>10, <2>0, <2>7
<1>13. ASSUME NEW i \in 1..m, y[i].type = "DISPATCHER_STARTED", r[i].paused
       PROVE  i < m /\ y[i+1].type = "DISPATCHER_PAUSED" /\ y[i+1].at = y[i].at
  <2>0. i + lo \in 1..n /\ i \in 0..m
    BY <1>6
  <2>1. x[i + lo].type = "DISPATCHER_STARTED" /\ s[i + lo].paused
    BY <1>6, <1>10, <1>13, <2>0
  <2>2. i + lo < n
    <3> SUFFICES ASSUME i + lo = n PROVE FALSE
      BY <1>3, <2>0
    <3>1. n > 0 /\ x[n].type = "DISPATCHER_STARTED" /\ is_paused
      BY <1>3, <1>9, <2>0, <2>1 DEF Current
    <3> QED
      BY <1>2, <3>1 DEF ReportInv, Story
  <2>3. x[i + lo + 1].type = "DISPATCHER_PAUSED" /\ x[i + lo + 1].at = x[i + lo].at
    <3>1. i + lo \in 1..n-1
      BY <1>3, <2>0, <2>2
    <3>2. Announced(s, x, i + lo)
      BY <1>9, <3>1
    <3> QED
      BY <2>1, <3>2 DEF Announced
  <2>4. i < m
    <3> SUFFICES ASSUME i = m PROVE FALSE
      BY <1>6
    <3>1. i + lo = hi /\ hi < n /\ hi + 1 \in 1..n
      BY <1>3, <1>6, <2>2
    <3>2. x[hi+1].at > to /\ to # None /\ to \in Nat /\ x[hi+1].at \in Nat
      <4>1. x[hi+1].at > to /\ to # None
        BY <1>4, <3>1
      <4>2. to \in Nat
        BY <1>1, <4>1
      <4>3. x[hi+1].at \in Nat
        BY <1>3, <3>1 DEF Event
      <4> QED
        BY <4>1, <4>2, <4>3
    <3>3. x[hi+1].at = y[i].at /\ y[i].at <= to
      BY <1>4, <1>5, <1>6, <2>3, <3>1
    <3> QED
      BY <3>2, <3>3
  <2>5. i + 1 \in 1..m /\ i + 1 + lo = i + lo + 1
    BY <1>6, <2>4
  <2> QED
    BY <1>6, <2>3, <2>4, <2>5
<1> DEFINE lead == from = None \/ (Complete /\ limit = None)
<1>14. ASSUME lead, y # <<>>, NEW t \in Ticks(GetStart(h), Until(h, 0))
       PROVE  past[t] = r[0]
  <2>0. 0 \in 0..m /\ lo \in 0..n /\ 0 + lo = lo
    BY <1>6
  <2>1. m > 0 /\ 1 \in 1..m /\ 1 + lo = lo + 1
    <3>1. m # 0
      BY <1>5, <1>6, <1>14, EmptySeq
    <3> QED
      BY <1>6, <3>1
  <2>2. /\ GetStart(h) = IF from # None THEN from ELSE y[1].at
        /\ GetStart(h) \in Nat
        /\ Until(h, 0) = y[1].at
        /\ y[1].at \in Nat
    BY <1>4, <1>5, <1>8, <2>1, EndFacts DEF Until
  <2>3. t \in Int /\ GetStart(h) < t /\ t <= y[1].at
    BY <1>14, <2>2 DEF Ticks
  <2>4. from # None /\ from < t
    BY <2>2, <2>3
  <2>5. t \in 1..now /\ lo < n /\ t <= x[lo+1].at
    <3>1. y[1].at <= now /\ y[1] = x[lo+1]
      BY <1>5, <1>6, <1>8, <2>1 DEF Read, Fits
    <3> QED
      BY <1>1, <1>3, <1>6, <2>1, <2>2, <2>3, <3>1
  <2>6. lo > 0 => x[lo].at < t
    <3> SUFFICES ASSUME lo > 0 PROVE x[lo].at < t
      OBVIOUS
    <3>1. x[lo].at < from /\ lo \in 1..n
      BY <1>4, <1>14, <2>4
    <3>2. x[lo].at \in Nat /\ from \in Nat
      BY <1>1, <1>3, <2>4, <3>1 DEF Event
    <3> QED
      BY <2>3, <2>4, <3>1, <3>2
  <2>7. t \in Between(x, lo)
    BY <1>2, <2>5, <2>6 DEF Between
  <2>8. past[t] = s[lo]
    <3>1. Complete
      BY <1>14, <2>4
    <3> QED
      BY <1>9, <2>0, <2>7, <3>1
  <2> QED
    BY <1>10, <2>0, <2>8
<1> HIDE DEF lead
<1>15. Chapter(h, r, lead, Sofar)
  <2>1. r \in [0..Len(h.events) -> Situation]
    BY <1>5, <1>10
  <2>2. \A i \in 1..Len(h.events) :
          /\ Follows(r[i-1], h.events[i], r[i], Sofar)
          /\ \A t \in Ticks(h.events[i].at, Until(h, i)) : past[t] = r[i]
          /\ h.events[i].type = "DISPATCHER_STARTED" /\ r[i].paused =>
               /\ i < Len(h.events)
               /\ h.events[i+1].type = "DISPATCHER_PAUSED"
               /\ h.events[i+1].at = h.events[i].at
    BY <1>5, <1>11, <1>12, <1>13, Zenon
  <2>3. lead /\ h.events # <<>> => \A t \in Ticks(GetStart(h), Until(h, 0)) : past[t] = r[0]
    BY <1>5, <1>14, Zenon
  <2> QED
    BY <2>1, <2>2, <2>3, Zenon DEF Chapter
<1> QED
  BY <1>4, <1>8, <1>15 DEF lead
-----------------------------------------------------------------------------
(* The dispatcher's bars.                                                  *)

TrueBar(row) ==
  \A t \in Ticks(row.start, row.finish) :
    past[t].running /\ past[t].paused = (row.status = "DISPATCHER_PAUSED")

TrueBars(rows) == rows \in Seq(Bar) /\ \A i \in 1..Len(rows) : TrueBar(rows[i])

(* Since then the dispatcher has been running, and paused or not.          *)
TrueSince(since, at, paused) ==
  since # None => \A t \in Ticks(since, at) : past[t].running /\ past[t].paused = paused

(* The open bar is true so far, and s is the situation it shows. Only if   *)
(* the pause that ends it at once is next, s is paused already.            *)
TrueOpen(h, open, i, s) ==
  /\ TrueSince(open.running, Until(h, i), FALSE)
  /\ TrueSince(open.paused, Until(h, i), TRUE)
  /\ open.running # None =>
       s.running /\ (s.paused => i < Len(h.events) /\ h.events[i+1].type = "DISPATCHER_PAUSED")
  /\ open.paused # None => s.running /\ s.paused

LEMMA ClosedBarsTrue ==
  ASSUME NEW rows, TrueBars(rows), NEW open \in Open, NEW at \in Nat, NEW type,
         TrueSince(open.running, at, FALSE), TrueSince(open.paused, at, TRUE)
  PROVE  TrueBars(rows \o ClosedBars(open, type, at))
<1>1. ASSUME NEW since \in Time, NEW status \in {"DISPATCHER_RUNNING", "DISPATCHER_PAUSED"},
             TrueSince(since, at, status = "DISPATCHER_PAUSED")
      PROVE  TrueBars(rows \o RowIf(since, at, status))
  <2>1. rows \in Seq(Bar)
    BY DEF TrueBars
  <2>2. CASE since # None /\ at > since
    <3> DEFINE row == Row(since, at, status)
    <3>1. row \in Bar /\ row.start = since /\ row.finish = at /\ row.status = status
      BY <2>2 DEF Row, Bar, Status, Time
    <3>2. TrueBar(row)
      BY <1>1, <2>2, <3>1 DEF TrueBar, TrueSince
    <3>3. rows \o RowIf(since, at, status) = Append(rows, row)
      BY <2>1, <2>2, <3>1, RowFacts
    <3> HIDE DEF row
    <3>4. /\ Append(rows, row) \in Seq(Bar)
          /\ Len(Append(rows, row)) = Len(rows) + 1
          /\ \A i \in 1..Len(rows) : Append(rows, row)[i] = rows[i]
          /\ Append(rows, row)[Len(rows) + 1] = row
      BY <2>1, <3>1
    <3>5. \A i \in 1..Len(rows) + 1 : i \in 1..Len(rows) \/ i = Len(rows) + 1
      BY <2>1
    <3> QED
      BY <3>2, <3>3, <3>4, <3>5 DEF TrueBars
  <2>3. CASE ~ (since # None /\ at > since)
    <3>1. rows \o RowIf(since, at, status) = rows
      BY <2>1, <2>3, RowFacts
    <3> QED
      BY <3>1
  <2> QED
    BY <2>2, <2>3
<1>2. /\ TrueBars(rows \o RowIf(open.running, at, "DISPATCHER_RUNNING"))
      /\ TrueBars(rows \o RowIf(open.paused, at, "DISPATCHER_PAUSED"))
  <2>1. open.running \in Time /\ open.paused \in Time
    BY DEF Open
  <2>2. ("DISPATCHER_RUNNING" = "DISPATCHER_PAUSED") = FALSE
    OBVIOUS
  <2>3. ("DISPATCHER_PAUSED" = "DISPATCHER_PAUSED") = TRUE
    OBVIOUS
  <2> QED
    BY <1>1, <2>1, <2>2, <2>3
<1>3. rows \o <<>> = rows
  BY ConcatEmptySeq DEF TrueBars
<1>4. ClosedBars(open, type, at) \in
        {<<>>, RowIf(open.running, at, "DISPATCHER_RUNNING"),
               RowIf(open.paused, at, "DISPATCHER_PAUSED")}
  BY Zenon DEF ClosedBars
<1> QED
  BY <1>2, <1>3, <1>4

LEMMA DrawKeeps ==
  ASSUME NEW h, Read(h), NEW r, NEW lead,
         NEW off, off.duty = FALSE, Chapter(h, r, lead, off),
         NEW i \in 1..Len(h.events), NEW acc \in Drawn,
         TrueBars(acc.rows), TrueOpen(h, acc.open, i - 1, r[i-1])
  PROVE  /\ TrueBars(Draw(acc, h.events[i]).rows)
         /\ TrueOpen(h, Draw(acc, h.events[i]).open, i, r[i])
<1> DEFINE m == Len(h.events)
<1>1. PICK e, s, d, at, until :
        e = h.events[i] /\ s = r[i-1] /\ d = r[i] /\ at = e.at /\ until = Until(h, i)
  OBVIOUS
<1>2. PICK open : open = acc.open
  OBVIOUS
<1>3. /\ open \in Open /\ open.running \in Time /\ open.paused \in Time
      /\ acc.rows \in Seq(Bar)
  BY <1>2 DEF Drawn, Open
<1>4. /\ m \in Nat /\ at \in Nat /\ until \in Nat /\ at <= until /\ Until(h, i - 1) = at
      /\ i - 1 < m /\ i - 1 + 1 = i
  <2>1. m \in Nat
    BY DEF Read
  <2> QED
    BY <1>1, <2>1, EndFacts
<1>5. /\ Follows(s, e, d, off)
      /\ \A t \in Ticks(at, until) : past[t] = d
      /\ e.type = "DISPATCHER_STARTED" /\ d.paused =>
           i < m /\ h.events[i+1].type = "DISPATCHER_PAUSED"
  BY <1>1 DEF Chapter
<1>6. s \in Situation /\ d \in Situation
  <2>1. i - 1 \in 0..m /\ i \in 0..m
    BY <1>4
  <2> QED
    BY <1>1, <2>1 DEF Chapter
<1>7. /\ s.running \in BOOLEAN /\ s.paused \in BOOLEAN
      /\ d.running \in BOOLEAN /\ d.paused \in BOOLEAN
  BY <1>6 DEF Situation
<1>8. /\ TrueSince(open.running, at, FALSE)
      /\ TrueSince(open.paused, at, TRUE)
      /\ open.running # None => s.running /\ (s.paused => e.type = "DISPATCHER_PAUSED")
      /\ open.paused # None => s.running /\ s.paused
  BY <1>1, <1>2, <1>4 DEF TrueOpen
<1>9. TrueBars(Draw(acc, e).rows)
  <2>1. Draw(acc, e).rows = acc.rows \o ClosedBars(open, e.type, at)
    BY <1>1, <1>2 DEF Draw
  <2> QED
    BY <1>3, <1>4, <1>8, <2>1, ClosedBarsTrue
<1>10. ASSUME d.running PROVE TrueSince(at, until, d.paused)
  BY <1>4, <1>5, <1>10 DEF TrueSince, Ticks
<1>11. ASSUME NEW since \in Time, NEW paused \in BOOLEAN, TrueSince(since, at, paused),
              d.running, d.paused = paused
       PROVE  TrueSince(since, until, paused)
  <2> SUFFICES ASSUME since # None, NEW t \in Ticks(since, until)
               PROVE  past[t].running /\ past[t].paused = paused
    BY DEF TrueSince
  <2>1. since \in Nat /\ t \in Int /\ since < t /\ t <= until
    BY <1>4 DEF Ticks, Time
  <2>2. CASE t <= at
    <3>1. t \in Ticks(since, at)
      BY <1>4, <2>1, <2>2 DEF Ticks
    <3> QED
      BY <1>11, <3>1 DEF TrueSince
  <2>3. CASE at < t
    <3>1. t \in Ticks(at, until)
      BY <1>4, <2>1, <2>3 DEF Ticks
    <3> QED
      BY <1>5, <1>11, <3>1
  <2> QED
    BY <1>4, <2>1, <2>2, <2>3
<1>12. TrueOpen(h, OpenBars(open, e), i, d)
  <2>0. /\ d.running = (e.type = "DISPATCHER_STARTED" \/ (e.type # "DISPATCHER_STOPPED" /\ s.running))
        /\ d.paused = (e.type = "DISPATCHER_PAUSED" \/ (e.type # "DISPATCHER_RESUMED" /\ s.paused))
        /\ e.type \in {"DISPATCHER_PAUSED", "DISPATCHER_RESUMED"} => d.running
    BY <1>5 DEF Follows
  <2>1. at # None
    BY <1>4, HistoryAssumption
  <2>2. CASE e.type = "DISPATCHER_STARTED"
    <3>1. OpenBars(open, e) = [running |-> at, paused |-> None] /\ d.running
      BY <1>1, <2>0, <2>2 DEF OpenBars
    <3>2. CASE d.paused
      <4>1. i < m /\ h.events[i+1].type = "DISPATCHER_PAUSED" /\ h.events[i+1].at = at
        BY <1>1, <2>2, <3>2 DEF Chapter
      <4>2. until = at
        BY <1>1, <4>1 DEF Until
      <4>3. Ticks(at, until) = {}
        BY <1>4, <4>2 DEF Ticks
      <4> QED
        BY <1>1, <3>1, <4>1, <4>3 DEF TrueOpen, TrueSince
    <3>3. CASE ~d.paused
      <4>1. TrueSince(at, until, FALSE)
        BY <1>7, <1>10, <3>1, <3>3
      <4> QED
        BY <1>1, <3>1, <3>3, <4>1 DEF TrueOpen, TrueSince
    <3> QED
      BY <3>2, <3>3
  <2>3. CASE e.type = "DISPATCHER_PAUSED"
    <3>1. OpenBars(open, e) = [running |-> None, paused |-> at] /\ d.running /\ d.paused
      BY <1>1, <2>0, <2>3 DEF OpenBars
    <3>2. TrueSince(at, until, TRUE)
      BY <1>7, <1>10, <3>1
    <3> QED
      BY <1>1, <3>1, <3>2 DEF TrueOpen, TrueSince
  <2>4. CASE e.type = "DISPATCHER_RESUMED"
    <3>1. OpenBars(open, e) = [running |-> at, paused |-> None] /\ d.running /\ ~d.paused
      BY <1>1, <2>0, <2>4 DEF OpenBars
    <3>2. TrueSince(at, until, FALSE)
      BY <1>7, <1>10, <3>1
    <3> QED
      BY <1>1, <3>1, <3>2 DEF TrueOpen, TrueSince
  <2>5. CASE e.type = "DISPATCHER_STOPPED"
    <3>1. OpenBars(open, e) = [running |-> None, paused |-> None]
      BY <2>5 DEF OpenBars, StopClosesOpen, Idle
    <3> QED
      BY <3>1 DEF TrueOpen, TrueSince
  <2>6. CASE e.type \notin {"DISPATCHER_STARTED", "DISPATCHER_PAUSED", "DISPATCHER_RESUMED",
                            "DISPATCHER_STOPPED"}
    <3>1. OpenBars(open, e) = open
      BY <2>6 DEF OpenBars
    <3>2. d.running = s.running /\ d.paused = s.paused
      BY <1>7, <2>0, <2>6
    <3>3. open.running # None => d.running /\ ~d.paused
      BY <1>7, <1>8, <2>6, <3>2
    <3>4. open.paused # None => d.running /\ d.paused
      BY <1>8, <3>2
    <3>5. TrueSince(open.running, until, FALSE)
      <4>1. CASE open.running = None
        BY <4>1 DEF TrueSince
      <4>2. CASE open.running # None
        BY <1>3, <1>7, <1>8, <1>11, <3>3, <4>2
      <4> QED
        BY <4>1, <4>2
    <3>6. TrueSince(open.paused, until, TRUE)
      <4>1. CASE open.paused = None
        BY <4>1 DEF TrueSince
      <4>2. CASE open.paused # None
        BY <1>3, <1>7, <1>8, <1>11, <3>4, <4>2
      <4> QED
        BY <4>1, <4>2
    <3> QED
      BY <1>1, <3>1, <3>3, <3>4, <3>5, <3>6 DEF TrueOpen
  <2> QED
    BY <2>2, <2>3, <2>4, <2>5, <2>6
<1>13. Draw(acc, e).open = OpenBars(open, e)
  BY <1>2 DEF Draw
<1> QED
  BY <1>1, <1>9, <1>12, <1>13

LEMMA DispatcherRowsTrue ==
  ASSUME NEW h, Read(h), NEW r, NEW lead,
         NEW off, off.duty = FALSE, Chapter(h, r, lead, off)
  PROVE  TrueBars(DispatcherRows(h))
<1>1. PICK x, n : x = h.events /\ n = Len(x)
  OBVIOUS
<1>2. x \in Seq(Event) /\ n \in Nat /\ h.end \in Time
  BY <1>1 DEF Read
<1>3. PICK acc :
        /\ acc[0] = [open |-> Idle, rows |-> <<>>]
        /\ \A i \in 0..n : acc[i] \in Drawn
        /\ \A i \in 1..n : acc[i] = Draw(acc[i-1], x[i])
        /\ DispatcherRows(h) = IF h.end = None THEN acc[n].rows
                               ELSE acc[n].rows \o ClosedBars(acc[n].open, "END", h.end)
  <2>1. PICK acc : DrawsUp(acc, h, x)
    BY <1>1, <1>2, DrawFold
  <2> QED
    BY <1>1, <2>1 DEF DrawsUp
<1> DEFINE Good == {k \in 0..n : TrueBars(acc[k].rows) /\ TrueOpen(h, acc[k].open, k, r[k])}
<1>4. \A k \in 0..n : k \in Good
  <2>1. 0 \in Good
    <3>1. acc[0].rows = <<>> /\ acc[0].open.running = None /\ acc[0].open.paused = None
      BY <1>3 DEF Idle
    <3>2. TrueBars(<<>>)
      BY EmptySeq DEF TrueBars
    <3> QED
      BY <1>2, <3>1, <3>2 DEF TrueOpen, TrueSince
  <2>2. ASSUME NEW k \in 1..n, k - 1 \in Good PROVE k \in Good
    <3>1. k - 1 \in 0..n /\ k \in 0..n
      BY <1>2
    <3>2. /\ TrueBars(acc[k-1].rows) /\ TrueOpen(h, acc[k-1].open, k-1, r[k-1])
          /\ acc[k-1] \in Drawn
          /\ acc[k] = Draw(acc[k-1], h.events[k])
          /\ k \in 1..Len(h.events)
      BY <1>1, <1>3, <2>2, <3>1
    <3>3. TrueBars(acc[k].rows) /\ TrueOpen(h, acc[k].open, k, r[k])
      BY <3>2, DrawKeeps
    <3> QED
      BY <3>1, <3>3
  <2> HIDE DEF Good
  <2> QED
    BY <1>2, <2>1, <2>2, Induction
<1>5. n \in 0..n /\ TrueBars(acc[n].rows) /\ TrueOpen(h, acc[n].open, n, r[n])
  BY <1>2, <1>4
<1>6. CASE h.end = None
  BY <1>3, <1>5, <1>6
<1>7. CASE h.end # None
  <2>1. Until(h, n) = h.end /\ h.end \in Nat
    BY <1>1, <1>2, <1>7 DEF Until, GetEnd, Time
  <2>2. acc[n].open \in Open
    BY <1>3, <1>5 DEF Drawn
  <2> QED
    BY <1>3, <1>5, <1>7, <2>1, <2>2, ClosedBarsTrue DEF TrueOpen
<1> QED
  BY <1>6, <1>7

LEMMA DispatcherRowsFollow == ReportInv => DispatcherRowsAreTrue
<1> SUFFICES ASSUME ReportInv, NEW w \in Window, NEW limit \in Limit, ~off_duty,
                    NEW rows, rows = DispatcherRows(Selected(w[1], w[2], limit)),
                    NEW i \in DOMAIN rows, NEW t \in Ticks(rows[i].start, rows[i].finish)
             PROVE  past[t].running /\ past[t].paused = (rows[i].status = "DISPATCHER_PAUSED")
  BY DEF DispatcherRowsAreTrue
<1>1. /\ w[1] \in Bound /\ w[2] \in Bound
      /\ w[1] # None /\ w[2] # None => w[1] <= w[2]
      /\ limit \in Time
  BY DEF Window, Limit, Time
<1>2. PICK h : h = Selected(w[1], w[2], limit)
  OBVIOUS
<1>3. Sofar.duty = FALSE
  BY SofarFacts DEF ReportInv, Types
<1>4. /\ Read(h)
      /\ \E r : Chapter(h, r, w[1] = None \/ (Complete /\ limit = None), Sofar)
  BY <1>1, <1>2, ChapterOfStory
<1>5. TrueBars(rows)
  BY <1>2, <1>3, <1>4, DispatcherRowsTrue
<1>6. i \in 1..Len(rows)
  BY <1>5 DEF TrueBars
<1> QED
  BY <1>5, <1>6 DEF TrueBars, TrueBar
-----------------------------------------------------------------------------
(* The bars of an operation.                                               *)

Suspended(o, since, until) == \A t \in Ticks(since, until) : o \in past[t].suspended

(* The pauses found in the first i events, one after the other.            *)
Found(h, o, start, pauses, i) ==
  /\ pauses \in Seq(Pauses)
  /\ \A j \in 1..Len(pauses) :
       /\ start <= pauses[j].start /\ pauses[j].start < pauses[j].finish
       /\ Suspended(o, pauses[j].start, pauses[j].finish)
       /\ \E k \in 1..i : pauses[j].finish = h.events[k].at
  /\ \A j \in 1..Len(pauses) - 1 : pauses[j].finish <= pauses[j+1].start

(* The pause that is open is over, if the operation is, or lasts.          *)
Lasts(h, o, start, open, pauses, i, s) ==
  open # None =>
    /\ start <= open
    /\ \A j \in 1..Len(pauses) : pauses[j].finish <= open
    /\ \/ \E k \in 1..i : h.events[k].type = "OPERATION_FINISHED" /\ h.events[k].operation = o
       \/ o \in s.suspended /\ Suspended(o, open, Until(h, i))

LEMMA SuspendedLonger ==
  ASSUME NEW o, NEW since \in Nat, NEW at \in Nat, NEW until \in Nat,
         Suspended(o, since, at), Suspended(o, at, until)
  PROVE  Suspended(o, since, until)
<1> SUFFICES ASSUME NEW t \in Ticks(since, until) PROVE o \in past[t].suspended
  BY DEF Suspended
<1>1. t \in Int /\ since < t /\ t <= until
  BY DEF Ticks
<1>2. t \in Ticks(since, at) \/ t \in Ticks(at, until)
  BY <1>1 DEF Ticks
<1> QED
  BY <1>2 DEF Suspended

LEMMA FoundFurther ==
  ASSUME NEW h, NEW o, NEW start \in Nat, NEW i \in Nat, i > 0, NEW pauses,
         Found(h, o, start, pauses, i - 1)
  PROVE  /\ Found(h, o, start, pauses, i)
         /\ \A open \in Nat :
              /\ start <= open /\ open < h.events[i].at
              /\ \A j \in 1..Len(pauses) : pauses[j].finish <= open
              /\ Suspended(o, open, h.events[i].at)
              /\ h.events[i].at \in Nat
              => Found(h, o, start, Append(pauses, Row(open, h.events[i].at, "PAUSED")), i)
<1>1. \A k \in 1..i-1 : k \in 1..i
  OBVIOUS
<1>2. Found(h, o, start, pauses, i)
  BY <1>1 DEF Found
<1>3. ASSUME NEW open \in Nat, start <= open, open < h.events[i].at, h.events[i].at \in Nat,
             \A j \in 1..Len(pauses) : pauses[j].finish <= open,
             Suspended(o, open, h.events[i].at)
      PROVE  Found(h, o, start, Append(pauses, Row(open, h.events[i].at, "PAUSED")), i)
  <2> DEFINE at == h.events[i].at
             row == Row(open, at, "PAUSED")
             n == Len(pauses)
             more == Append(pauses, row)
  <2>1. row \in Pauses /\ row.start = open /\ row.finish = at
    BY <1>3 DEF Row, Pauses
  <2> HIDE DEF row
  <2>2. pauses \in Seq(Pauses) /\ n \in Nat
    BY DEF Found
  <2>3. /\ more \in Seq(Pauses) /\ Len(more) = n + 1
        /\ \A j \in 1..n : more[j] = pauses[j]
        /\ more[n+1] = row
    BY <2>1, <2>2
  <2> HIDE DEF more
  <2>4. ASSUME NEW j \in 1..n + 1
        PROVE  /\ start <= more[j].start /\ more[j].start < more[j].finish
               /\ Suspended(o, more[j].start, more[j].finish)
               /\ \E k \in 1..i : more[j].finish = h.events[k].at
    <3>1. CASE j = n + 1
      <4>1. i \in 1..i
        OBVIOUS
      <4> QED
        BY <1>3, <2>1, <2>3, <3>1, <4>1
    <3>2. CASE j # n + 1
      <4>1. j \in 1..n /\ more[j] = pauses[j]
        BY <2>2, <2>3, <3>2
      <4> QED
        BY <1>2, <4>1 DEF Found
    <3> QED
      BY <3>1, <3>2
  <2>5. ASSUME NEW j \in 1..n PROVE more[j].finish <= more[j+1].start
    <3>1. CASE j = n
      <4>1. n \in 1..n
        BY <3>1
      <4> QED
        BY <1>3, <2>1, <2>3, <3>1, <4>1
    <3>2. CASE j # n
      <4>1. j \in 1..n-1 /\ j + 1 \in 1..n
        BY <2>2, <3>2
      <4> QED
        BY <1>2, <2>3, <4>1 DEF Found
    <3> QED
      BY <3>1, <3>2
  <2>6. Len(more) - 1 = n
    BY <2>2, <2>3
  <2> QED
    BY <2>3, <2>4, <2>5, <2>6 DEF Found, more, row
<1> QED
  BY <1>2, <1>3

LEMMA WindowFacts ==
  ASSUME Types, NEW o \in Known
  PROVE  /\ OperationWindow(operations[o])[1] \in Nat
         /\ OperationWindow(operations[o])[2] \in Nat
         /\ OperationWindow(operations[o])[1] < OperationWindow(operations[o])[2]
         /\ operations[o].start_time # None =>
              OperationWindow(operations[o])[1] = operations[o].start_time
<1>1. PICK record : record = operations[o] /\ record \in Record
  BY DEF Types
<1>2. /\ record.created_at \in Nat
      /\ record.start_time # None => record.start_time \in Nat
      /\ record.finish_time # None => record.finish_time \in Nat
  BY <1>1 DEF Record, Time
<1>3. DefaultDuration \in Nat /\ DefaultDuration > 0
  BY HistoryAssumption
<1> DEFINE start == IF record.start_time # None THEN record.start_time ELSE record.created_at
           finish == IF record.finish_time # None /\ record.finish_time > start
                     THEN record.finish_time ELSE start + DefaultDuration
<1>4. OperationWindow(record) = <<start, finish>>
  BY DEF OperationWindow
<1>5. start \in Nat /\ finish \in Nat /\ start < finish
  BY <1>2, <1>3
<1> QED
  BY <1>1, <1>4, <1>5

LEMMA PairKeeps ==
  ASSUME Types, NEW o \in Known \ rewritten, NEW start, start = OperationWindow(operations[o])[1],
         NEW h, Read(h), NEW r, NEW lead, NEW off, Chapter(h, r, lead, off), o \notin off.out,
         NEW i \in 1..Len(h.events), NEW acc \in Paired,
         Found(h, o, start, acc.intervals, i - 1),
         Lasts(h, o, start, acc.open, acc.intervals, i - 1, r[i-1]),
         NEW new, new = Pair(o, acc, h.events[i])
  PROVE  /\ Found(h, o, start, new.intervals, i)
         /\ Lasts(h, o, start, new.open, new.intervals, i, r[i])
<1> DEFINE m == Len(h.events)
<1>1. PICK e, s, d, at, until :
        e = h.events[i] /\ s = r[i-1] /\ d = r[i] /\ at = e.at /\ until = Until(h, i)
  OBVIOUS
<1>2. PICK open, pauses : open = acc.open /\ pauses = acc.intervals
  OBVIOUS
<1>3. start \in Nat /\ open \in Time /\ pauses \in Seq(Pauses)
      /\ \A j \in 1..Len(pauses) : pauses[j].finish \in Nat
  <2>1. start \in Nat /\ open \in Time /\ pauses \in Seq(Pauses)
    BY <1>2, WindowFacts DEF Paired
  <2>2. \A j \in 1..Len(pauses) : pauses[j] \in Pauses
    BY <2>1
  <2> QED
    BY <2>1, <2>2 DEF Pauses
<1>4. /\ m \in Nat /\ i \in Nat /\ i > 0
      /\ at \in Nat /\ until \in Nat /\ at <= until /\ Until(h, i - 1) = at
      /\ \A k \in 1..m : h.events[k].at \in Nat
  <2>1. m \in Nat /\ i \in Nat /\ i > 0 /\ i \in 1..m /\ m > 0 /\ m = Len(h.events)
    BY DEF Read
  <2>2. \A k \in 1..m : /\ h.events[k].at \in Nat
                        /\ Until(h, k) \in Nat /\ Until(h, k - 1) = h.events[k].at
                        /\ h.events[k].at <= Until(h, k)
    BY <2>1, EndFacts
  <2> QED
    BY <1>1, <2>1, <2>2
<1>5. /\ Follows(s, e, d, off)
      /\ \A t \in Ticks(at, until) : past[t] = d
  BY <1>1 DEF Chapter
<1>6. /\ Fits(e)
      /\ \A k \in 1..i-1 : Precedes(h.events[k], e)
  BY <1>1, <1>4 DEF Read, Sorted
<1>7. Found(h, o, start, pauses, i - 1) /\ Lasts(h, o, start, open, pauses, i - 1, s)
  BY <1>1, <1>2
<1>8. Found(h, o, start, pauses, i)
  BY <1>3, <1>4, <1>7, FoundFurther
<1>9. o \in d.suspended => Suspended(o, at, until)
  BY <1>5 DEF Suspended
<1>10. CASE e.operation = o /\ e.type = "OPERATION_PAUSED"
  <2>1. new.open = at /\ new.intervals = pauses
    BY <1>1, <1>2, <1>10 DEF Pair, Paired
  <2>2. start <= at
    <3>1. operations[o].start_time \in 0..at
      BY <1>1, <1>6, <1>10 DEF Fits
    <3>2. operations[o].start_time # None
      BY <1>4, <3>1, HistoryAssumption
    <3> QED
      BY <1>4, <3>1, <3>2, WindowFacts
  <2>3. ASSUME NEW j \in 1..Len(pauses) PROVE pauses[j].finish <= at
    <3>1. PICK k \in 1..i-1 : pauses[j].finish = h.events[k].at
      BY <1>7 DEF Found
    <3> QED
      BY <1>1, <1>6, <3>1 DEF Precedes
  <2>4. o \in d.suspended
    BY <1>5, <1>10 DEF Follows
  <2> QED
    BY <1>1, <1>8, <1>9, <2>1, <2>2, <2>3, <2>4 DEF Lasts
<1>11. CASE e.operation = o /\ e.type = "OPERATION_RESUMED"
  <2>1. new.open = None /\ new.intervals = pauses \o RowIf(open, at, "PAUSED")
    BY <1>1, <1>2, <1>11 DEF Pair
  <2>2. open # None => Row(open, at, "PAUSED") \in Pauses
    BY <1>3, <1>4 DEF Row, Pauses, Time
  <2>3. CASE open # None /\ at > open
    <3>1. new.intervals = Append(pauses, Row(open, at, "PAUSED"))
      BY <1>3, <2>1, <2>2, <2>3, RowFacts
    <3>2. ~ \E k \in 1..i-1 : h.events[k].type = "OPERATION_FINISHED" /\ h.events[k].operation = o
      BY <1>6, <1>11 DEF Precedes
    <3>3. /\ open \in Nat /\ start <= open /\ open < at
          /\ \A j \in 1..Len(pauses) : pauses[j].finish <= open
          /\ Suspended(o, open, at)
      BY <1>3, <1>4, <1>7, <2>3, <3>2 DEF Lasts, Time
    <3>4. Found(h, o, start, new.intervals, i)
      <4>1. at = h.events[i].at
        BY <1>1
      <4>2. start \in Nat /\ i \in Nat /\ i > 0 /\ Found(h, o, start, pauses, i - 1)
        BY ONLY <1>3, <1>4, <1>7
      <4>3. /\ open \in Nat /\ start <= open /\ open < h.events[i].at
            /\ \A j \in 1..Len(pauses) : pauses[j].finish <= open
            /\ Suspended(o, open, h.events[i].at)
            /\ h.events[i].at \in Nat
        BY ONLY <1>4, <3>3, <4>1
      <4>4. Found(h, o, start, Append(pauses, Row(open, h.events[i].at, "PAUSED")), i)
        BY ONLY <4>2, <4>3, FoundFurther
      <4>5. new.intervals = Append(pauses, Row(open, h.events[i].at, "PAUSED"))
        BY ONLY <3>1, <4>1
      <4> QED
        BY ONLY <4>4, <4>5
    <3> QED
      BY <2>1, <3>4 DEF Lasts
  <2>4. CASE ~ (open # None /\ at > open)
    <3>1. new.intervals = pauses
      BY <1>3, <2>1, <2>4, RowFacts
    <3> QED
      BY <1>8, <2>1, <3>1 DEF Lasts
  <2> QED
    BY <2>3, <2>4
<1>12. CASE ~ (e.operation = o /\ e.type \in {"OPERATION_PAUSED", "OPERATION_RESUMED"})
  <2>1. new.open = open /\ new.intervals = pauses
    BY <1>1, <1>2, <1>12 DEF Pair
  <2>2. Lasts(h, o, start, open, pauses, i, d)
    <3> SUFFICES ASSUME open # None
                 PROVE  \/ \E k \in 1..i : /\ h.events[k].type = "OPERATION_FINISHED"
                                           /\ h.events[k].operation = o
                        \/ o \in d.suspended /\ Suspended(o, open, until)
      BY <1>1, <1>7 DEF Lasts
    <3>1. CASE \E k \in 1..i-1 : h.events[k].type = "OPERATION_FINISHED" /\ h.events[k].operation = o
      <4>1. PICK k \in 1..i-1 : h.events[k].type = "OPERATION_FINISHED" /\ h.events[k].operation = o
        BY <3>1
      <4>2. k \in 1..i
        BY <1>4
      <4> QED
        BY <4>1, <4>2
    <3>2. CASE e.operation = o /\ e.type = "OPERATION_FINISHED"
      <4>1. i \in 1..i
        BY <1>4
      <4> QED
        BY <1>1, <3>2, <4>1
    <3>3. CASE /\ ~ \E k \in 1..i-1 : /\ h.events[k].type = "OPERATION_FINISHED"
                                      /\ h.events[k].operation = o
               /\ ~ (e.operation = o /\ e.type = "OPERATION_FINISHED")
      <4>1. o \in s.suspended /\ Suspended(o, open, at)
        BY <1>4, <1>7, <3>3 DEF Lasts
      <4>2. o \in d.suspended
        BY <1>5, <1>12, <3>3, <4>1 DEF Follows
      <4>3. open \in Nat
        BY <1>3 DEF Time
      <4> QED
        BY <1>4, <1>9, <4>1, <4>2, <4>3, SuspendedLonger
    <3> QED
      BY <3>1, <3>2, <3>3
  <2> QED
    BY <1>1, <1>8, <2>1, <2>2
<1> QED
  BY <1>10, <1>11, <1>12

LEMMA PausesFound ==
  ASSUME Types, NEW o \in Known \ rewritten, NEW start, start = OperationWindow(operations[o])[1],
         NEW h, Read(h), NEW r, NEW lead, NEW off, Chapter(h, r, lead, off), o \notin off.out
  PROVE  Found(h, o, start, PauseIntervals(h, o), Len(h.events))
<1>1. PICK x, n : x = h.events /\ n = Len(x)
  OBVIOUS
<1>2. x \in Seq(Event) /\ n \in Nat
  BY <1>1 DEF Read
<1>3. PICK acc :
        /\ acc[0] = [open |-> None, intervals |-> <<>>]
        /\ \A i \in 0..n : acc[i] \in Paired
        /\ \A i \in 1..n : acc[i] = Pair(o, acc[i-1], x[i])
        /\ PauseIntervals(h, o) = acc[n].intervals
  <2>1. PICK acc : PairsUp(acc, h, x, o)
    BY ONLY <1>1, <1>2, PairFold
  <2> QED
    BY <1>1, <2>1 DEF PairsUp
<1> DEFINE Good == {k \in 0..n : /\ Found(h, o, start, acc[k].intervals, k)
                                 /\ Lasts(h, o, start, acc[k].open, acc[k].intervals, k, r[k])}
<1>4. \A k \in 0..n : k \in Good
  <2>1. 0 \in Good
    <3>1. acc[0].open = None /\ acc[0].intervals = <<>>
      BY <1>3
    <3>2. <<>> \in Seq(Pauses) /\ Len(<<>>) = 0
      BY EmptySeq
    <3>3. Found(h, o, start, <<>>, 0)
      BY <3>2 DEF Found
    <3>4. Lasts(h, o, start, None, <<>>, 0, r[0])
      BY DEF Lasts
    <3> QED
      BY <1>2, <3>1, <3>3, <3>4
  <2>2. ASSUME NEW k \in 1..n, k - 1 \in Good PROVE k \in Good
    <3>1. k - 1 \in 0..n /\ k \in 0..n
      BY <1>2
    <3>2. /\ Found(h, o, start, acc[k-1].intervals, k-1)
          /\ Lasts(h, o, start, acc[k-1].open, acc[k-1].intervals, k-1, r[k-1])
          /\ acc[k-1] \in Paired
          /\ acc[k] = Pair(o, acc[k-1], h.events[k])
          /\ k \in 1..Len(h.events)
      BY <1>1, <1>3, <2>2, <3>1
    <3>3. /\ Found(h, o, start, acc[k].intervals, k)
          /\ Lasts(h, o, start, acc[k].open, acc[k].intervals, k, r[k])
      BY <3>2, PairKeeps
    <3> QED
      BY <3>1, <3>3
  <2> HIDE DEF Good
  <2> QED
    BY <1>2, <2>1, <2>2, Induction
<1> QED
  BY <1>1, <1>2, <1>3, <1>4

(* The rows go from one time to another.                                   *)
Tiles(o, rows, from, to) ==
  /\ rows \in Seq(Bar)
  /\ IF Len(rows) = 0 THEN from = to ELSE rows[1].start = from /\ rows[Len(rows)].finish = to
  /\ \A i \in 1..Len(rows) - 1 : rows[i+1].start = rows[i].finish
  /\ \A i \in 1..Len(rows) :
       rows[i].status = "PAUSED" => Suspended(o, rows[i].start, rows[i].finish)

LEMMA TilesFurther ==
  ASSUME NEW o, NEW rows, NEW from, NEW to, Tiles(o, rows, from, to),
         NEW row \in Bar, row.start = to,
         row.status = "PAUSED" => Suspended(o, row.start, row.finish)
  PROVE  Tiles(o, Append(rows, row), from, row.finish) /\ Len(Append(rows, row)) > 0
<1> DEFINE n == Len(rows)
           more == Append(rows, row)
<1>1. rows \in Seq(Bar) /\ n \in Nat
  BY DEF Tiles
<1>2. /\ more \in Seq(Bar) /\ Len(more) = n + 1
      /\ \A j \in 1..n : more[j] = rows[j]
      /\ more[n+1] = row
  BY <1>1
<1> HIDE DEF more
<1>3. more[1].start = from
  <2>1. CASE n = 0
    BY <1>2, <2>1 DEF Tiles
  <2>2. CASE n # 0
    <3>1. 1 \in 1..n
      BY <1>1, <2>2
    <3> QED
      BY <1>2, <2>2, <3>1 DEF Tiles
  <2> QED
    BY <2>1, <2>2
<1>4. ASSUME NEW j \in 1..n PROVE more[j+1].start = more[j].finish
  <2>1. CASE j = n
    BY <1>1, <1>2, <2>1 DEF Tiles
  <2>2. CASE j # n
    <3>1. j \in 1..n-1 /\ j + 1 \in 1..n
      BY <1>1, <2>2
    <3> QED
      BY <1>2, <3>1 DEF Tiles
  <2> QED
    BY <2>1, <2>2
<1>5. ASSUME NEW j \in 1..n+1, more[j].status = "PAUSED"
      PROVE  Suspended(o, more[j].start, more[j].finish)
  <2>1. CASE j = n + 1
    BY <1>2, <1>5, <2>1
  <2>2. CASE j # n + 1
    <3>1. j \in 1..n
      BY <1>1, <2>2
    <3> QED
      BY <1>2, <1>5, <3>1 DEF Tiles
  <2> QED
    BY <2>1, <2>2
<1>6. Len(more) - 1 = n /\ Len(more) # 0 /\ Len(more) > 0
  BY <1>1, <1>2
<1> QED
  BY <1>2, <1>3, <1>4, <1>5, <1>6 DEF Tiles, more

(* A bar up to a later time fills the gap.                                 *)
LEMMA TilesUpTo ==
  ASSUME NEW o, NEW rows, NEW from, NEW to \in Nat, Tiles(o, rows, from, to),
         NEW next \in Nat, NEW more, more = Filled(rows, to, next)
  PROVE  /\ to <= next => Tiles(o, more, from, next)
         /\ to < next \/ Len(rows) > 0 => Len(more) > 0
         /\ \E until : Tiles(o, more, from, until)
<1>1. rows \in Seq(Bar) /\ to # None
  BY HistoryAssumption DEF Tiles
<1> DEFINE row == Row(to, next, "OPERATION")
<1>2. row \in Bar /\ row.start = to /\ row.finish = next /\ row.status # "PAUSED"
  BY DEF Row, Bar, Status
<1>3. more = IF next > to THEN Append(rows, row) ELSE rows
  BY <1>1, <1>2, RowFacts DEF Filled
<1> HIDE DEF row
<1>4. CASE next > to
  <2>1. Tiles(o, Append(rows, row), from, next) /\ Len(Append(rows, row)) > 0
    BY <1>2, TilesFurther
  <2> QED
    BY <1>3, <1>4, <2>1
<1>5. CASE ~ (next > to)
  <2>1. to <= next => to = next
    BY <1>5
  <2> QED
    BY <1>3, <1>5, <2>1
<1> QED
  BY <1>4, <1>5

LEMMA RowsTiled ==
  ASSUME Types, NEW o \in Known, NEW start, start = OperationWindow(operations[o])[1],
         NEW h, NEW m, Found(h, o, start, PauseIntervals(h, o), m)
  PROVE  \E until : Tiles(o, OperationRows(h, o), start, until) /\ Len(OperationRows(h, o)) > 0
<1>1. PICK x, n : x = PauseIntervals(h, o) /\ n = Len(x)
  OBVIOUS
<1>2. PICK finish : finish = OperationWindow(operations[o])[2]
  OBVIOUS
<1>3. start \in Nat /\ finish \in Nat /\ start < finish
  BY <1>2, WindowFacts
<1>4. x \in Seq(Pauses) /\ n \in Nat /\ \A k \in 1..n : x[k] \in Pauses
  BY <1>1 DEF Found
<1>5. /\ \A k \in 1..n : /\ x[k].start \in Nat /\ x[k].finish \in Nat
                         /\ start <= x[k].start /\ x[k].start < x[k].finish
                         /\ Suspended(o, x[k].start, x[k].finish)
                         /\ x[k] \in Bar
      /\ \A k \in 1..n-1 : x[k].finish <= x[k+1].start
  BY <1>1, <1>4 DEF Found, Pauses, Bar, Status
<1>6. PICK acc :
        /\ acc[0] = [cursor |-> start, rows |-> <<>>]
        /\ \A i \in 0..n : acc[i] \in Placed
        /\ \A i \in 1..n : acc[i] = Place(acc[i-1], x[i])
        /\ OperationRows(h, o) = Filled(acc[n].rows, acc[n].cursor, finish)
  <2>1. PICK acc : PlacesUp(acc, h, o, start, x)
    <3>1. x \in Seq(Pauses) /\ x = PauseIntervals(h, o) /\ start \in Nat
          /\ start = OperationWindow(operations[o])[1]
      BY <1>1, <1>3, <1>4
    <3> QED
      BY ONLY <3>1, PlaceFold
  <2> QED
    BY <1>1, <1>2, <2>1 DEF PlacesUp
<1> DEFINE Good == {k \in 0..n : /\ Tiles(o, acc[k].rows, start, acc[k].cursor)
                                 /\ k < n => acc[k].cursor <= x[k+1].start}
<1>7. \A k \in 0..n : k \in Good
  <2>1. 0 \in Good
    <3>1. acc[0].cursor = start /\ acc[0].rows = <<>>
      BY <1>6
    <3>2. <<>> \in Seq(Bar) /\ Len(<<>>) = 0
      BY EmptySeq
    <3>3. Tiles(o, <<>>, start, start)
      BY <3>2 DEF Tiles
    <3>4. 0 < n => start <= x[0+1].start
      BY <1>4, <1>5
    <3> QED
      BY <1>4, <3>1, <3>3, <3>4
  <2>2. ASSUME NEW k \in 1..n, k - 1 \in Good PROVE k \in Good
    <3>1. k - 1 \in 0..n /\ k \in 0..n /\ k - 1 < n /\ k - 1 + 1 = k
      BY <1>4
    <3>2. PICK cursor, rows, pause : cursor = acc[k-1].cursor /\ rows = acc[k-1].rows /\ pause = x[k]
      OBVIOUS
    <3>3. /\ Tiles(o, rows, start, cursor) /\ cursor \in Nat
          /\ cursor <= pause.start
      BY <1>6, <2>2, <3>1, <3>2 DEF Placed
    <3>4. /\ pause.start \in Nat /\ pause.finish \in Nat /\ pause.start < pause.finish
          /\ Suspended(o, pause.start, pause.finish) /\ pause \in Bar
      BY <1>5, <3>2
    <3> DEFINE filled == Filled(rows, cursor, pause.start)
    <3>5. Tiles(o, filled, start, pause.start)
      BY <3>3, <3>4, TilesUpTo
    <3>6. acc[k].rows = filled \o <<pause>> /\ acc[k].cursor = pause.finish
      <4>1. acc[k] = Place(acc[k-1], pause)
        BY <1>6, <3>2
      <4>2. pause.finish > cursor
        BY <3>3, <3>4
      <4>3. PICK all : all = filled \o <<pause>>
        OBVIOUS
      <4>4. acc[k] = [cursor |-> IF pause.finish > cursor THEN pause.finish ELSE cursor,
                      rows |-> all]
        BY <3>2, <4>1, <4>3, Zenon DEF Place
      <4> HIDE DEF filled
      <4> QED
        BY <4>2, <4>3, <4>4
    <3> HIDE DEF filled
    <3>7. acc[k].rows = Append(filled, pause)
      <4>1. filled \in Seq(Bar)
        BY <3>5 DEF Tiles
      <4> QED
        BY <3>4, <3>6, <4>1, OneAppended
    <3>8. Tiles(o, acc[k].rows, start, acc[k].cursor)
      BY <3>4, <3>5, <3>6, <3>7, TilesFurther
    <3>9. k < n => acc[k].cursor <= x[k+1].start
      <4>1. k < n => k \in 1..n-1
        BY <1>4
      <4> QED
        BY <1>5, <3>2, <3>6, <4>1
    <3> QED
      BY <3>1, <3>8, <3>9
  <2> HIDE DEF Good
  <2> QED
    BY <1>4, <2>1, <2>2, Induction
<1>8. PICK cursor, rows : cursor = acc[n].cursor /\ rows = acc[n].rows
  OBVIOUS
<1>9. Tiles(o, rows, start, cursor) /\ cursor \in Nat
  <2>1. n \in 0..n
    BY <1>4
  <2> QED
    BY <1>6, <1>7, <1>8, <2>1 DEF Placed
<1>10. cursor < finish \/ Len(rows) > 0
  <2>1. Len(rows) \in Nat
    BY <1>9 DEF Tiles
  <2>2. CASE Len(rows) = 0
    BY <1>3, <1>9, <2>2 DEF Tiles
  <2> QED
    BY <2>1, <2>2
<1> QED
  <2>1. PICK more : more = Filled(rows, cursor, finish) /\ more = OperationRows(h, o)
    BY <1>6, <1>8
  <2>2. \E until : Tiles(o, more, start, until)
    BY <1>3, <1>9, <2>1, TilesUpTo
  <2>3. Len(more) > 0
    <3>1. finish \in Nat /\ cursor \in Nat /\ Tiles(o, rows, start, cursor)
          /\ more = Filled(rows, cursor, finish)
      BY <1>3, <1>9, <2>1
    <3>2. cursor < finish \/ Len(rows) > 0 => Len(more) > 0
      BY ONLY <3>1, TilesUpTo
    <3> QED
      BY <1>10, <3>2
  <2> QED
    BY <2>1, <2>2, <2>3

(* What RowsTile says of the bars of o.                                    *)
TileItsTime(o, rows) ==
  /\ rows # <<>> /\ rows[1].start = OperationWindow(operations[o])[1]
  /\ \A i \in 1..Len(rows) - 1 : rows[i + 1].start = rows[i].finish
  /\ \A i \in DOMAIN rows : rows[i].status = "PAUSED" =>
       \A t \in Ticks(rows[i].start, rows[i].finish) : o \in past[t].suspended

LEMMA RowsFollow == ReportInv => RowsTile
<1> SUFFICES ASSUME ReportInv
             PROVE  \A w \in Window, limit \in Limit, o \in Known \ rewritten :
                      TileItsTime(o, OperationRows(Selected(w[1], w[2], limit), o))
  BY Zenon DEF RowsTile, TileItsTime
<1> SUFFICES ASSUME NEW w \in Window, NEW limit \in Limit, NEW o \in Known \ rewritten
             PROVE  TileItsTime(o, OperationRows(Selected(w[1], w[2], limit), o))
  OBVIOUS
<1>0. PICK rows : rows = OperationRows(Selected(w[1], w[2], limit), o)
  OBVIOUS
<1>1. /\ w[1] \in Bound /\ w[2] \in Bound
      /\ w[1] # None /\ w[2] # None => w[1] <= w[2]
      /\ limit \in Time
  BY DEF Window, Limit, Time
<1>2. PICK h : h = Selected(w[1], w[2], limit)
  OBVIOUS
<1>3. /\ Read(h)
      /\ \E r : Chapter(h, r, w[1] = None \/ (Complete /\ limit = None), Sofar)
  BY <1>1, <1>2, ChapterOfStory
<1>4. Types /\ o \notin Sofar.out
  BY SofarFacts DEF ReportInv
<1>5. PICK start : start = OperationWindow(operations[o])[1]
  OBVIOUS
<1>6. Found(h, o, start, PauseIntervals(h, o), Len(h.events))
  BY <1>3, <1>4, <1>5, PausesFound
<1>7. PICK until : Tiles(o, rows, start, until) /\ Len(rows) > 0
  BY <1>0, <1>2, <1>4, <1>5, <1>6, RowsTiled
<1>8. rows \in Seq(Bar) /\ DOMAIN rows = 1..Len(rows) /\ rows # <<>>
  BY <1>7 DEF Tiles
<1> QED
  BY <1>0, <1>5, <1>7, <1>8 DEF Tiles, Suspended, TileItsTime
-----------------------------------------------------------------------------
(* The reported times.                                                     *)

Switches(on, off) ==
  \/ on = "DISPATCHER_STARTED" /\ off = "DISPATCHER_STOPPED"
  \/ on = "DISPATCHER_PAUSED" /\ off = "DISPATCHER_RESUMED"

(* What these events switch.                                               *)
Shows(s, on) == IF on = "DISPATCHER_STARTED" THEN s.running ELSE s.paused

TicksOn(since, until, on) == {t \in Ticks(since, until) : Shows(past[t], on)}

LEMMA TicksAdd ==
  ASSUME NEW a \in Nat, NEW b \in Nat, NEW c \in Nat, a <= b, b <= c, NEW on,
         NEW p \in BOOLEAN, \A t \in Ticks(b, c) : Shows(past[t], on) = p
  PROVE  /\ Cardinality(TicksOn(a, c, on)) =
              Cardinality(TicksOn(a, b, on)) + (IF p THEN c - b ELSE 0)
         /\ Cardinality(TicksOn(a, b, on)) \in Nat
<1> DEFINE A == TicksOn(a, b, on)
           B == TicksOn(b, c, on)
<1>1. /\ IsFiniteSet(Ticks(a, b)) /\ IsFiniteSet(Ticks(b, c))
      /\ Cardinality(Ticks(b, c)) = c - b
  <2>1. a + 1 \in Int /\ b + 1 \in Int /\ b \in Int /\ c \in Int
    OBVIOUS
  <2>2. IsFiniteSet(a + 1 .. b) /\ IsFiniteSet(b + 1 .. c)
        /\ Cardinality(b + 1 .. c) = IF b + 1 > c THEN 0 ELSE c - (b + 1) + 1
    BY <2>1, FS_Interval
  <2>3. (IF b + 1 > c THEN 0 ELSE c - (b + 1) + 1) = c - b
    OBVIOUS
  <2> QED
    BY <2>2, <2>3 DEF Ticks
<1>2. IsFiniteSet(A) /\ IsFiniteSet(B)
  <2>1. A \in SUBSET Ticks(a, b) /\ B \in SUBSET Ticks(b, c)
    BY DEF TicksOn
  <2> QED
    BY <1>1, <2>1, FS_Subset
<1>3. A \cup B = TicksOn(a, c, on)
  <2>1. \A t : t \in Ticks(a, c) <=> t \in Ticks(a, b) \/ t \in Ticks(b, c)
    BY DEF Ticks
  <2> QED
    BY <2>1 DEF TicksOn
<1>4. A \cap B = {}
  <2>1. \A t : ~ (t \in Ticks(a, b) /\ t \in Ticks(b, c))
    BY DEF Ticks
  <2> QED
    BY <2>1 DEF TicksOn
<1>5. Cardinality(B) = IF p THEN c - b ELSE 0
  <2>1. CASE p
    <3>1. B = Ticks(b, c)
      BY <2>1 DEF TicksOn
    <3> QED
      BY <1>1, <2>1, <3>1
  <2>2. CASE ~p
    <3>1. B = {}
      BY <2>2 DEF TicksOn
    <3> QED
      BY <2>2, <3>1, FS_EmptySet
  <2> QED
    BY <2>1, <2>2
<1>6. Cardinality(A) \in Nat /\ Cardinality(B) \in Nat
  BY <1>2, FS_CardinalityType
<1>7. Cardinality(A \cup B) = Cardinality(A) + Cardinality(B) - Cardinality(A \cap B)
  BY <1>2, FS_Union
<1>8. Cardinality(A \cap B) = 0
  BY <1>4, FS_EmptySet
<1> HIDE DEF A, B
<1>9. Cardinality(A \cup B) = Cardinality(A) + Cardinality(B)
  BY <1>6, <1>7, <1>8
<1> QED
  BY <1>3, <1>5, <1>6, <1>9 DEF A, B

LEMMA SwitchFollows ==
  ASSUME NEW on, NEW off, Switches(on, off), NEW s \in Situation, NEW d \in Situation,
         NEW e, NEW duty, Follows(s, e, d, duty)
  PROVE  /\ Shows(s, on) \in BOOLEAN /\ Shows(d, on) \in BOOLEAN
         /\ Shows(d, on) = (e.type = on \/ (e.type # off /\ Shows(s, on)))
         /\ on = "DISPATCHER_STARTED" => /\ e.type = off => Shows(s, on)
                                         /\ e.type = on => ~Shows(s, on)
<1>1. /\ s.running \in BOOLEAN /\ s.paused \in BOOLEAN
      /\ d.running \in BOOLEAN /\ d.paused \in BOOLEAN
  BY DEF Situation
<1>2. /\ d.running = (e.type = "DISPATCHER_STARTED" \/ (e.type # "DISPATCHER_STOPPED" /\ s.running))
      /\ d.paused = (e.type = "DISPATCHER_PAUSED" \/ (e.type # "DISPATCHER_RESUMED" /\ s.paused))
      /\ e.type = "DISPATCHER_STARTED" => ~s.running
      /\ e.type = "DISPATCHER_STOPPED" => s.running
  BY DEF Follows
<1>3. CASE on = "DISPATCHER_STARTED" /\ off = "DISPATCHER_STOPPED"
  <2>1. Shows(s, on) = s.running /\ Shows(d, on) = d.running
    BY <1>3 DEF Shows
  <2> QED
    BY <1>1, <1>2, <1>3, <2>1
<1>4. CASE on = "DISPATCHER_PAUSED" /\ off = "DISPATCHER_RESUMED"
  <2>1. Shows(s, on) = s.paused /\ Shows(d, on) = d.paused /\ on # "DISPATCHER_STARTED"
    BY <1>4 DEF Shows
  <2> QED
    BY <1>1, <1>2, <1>4, <2>1
<1> QED
  BY <1>3, <1>4 DEF Switches

(* The seconds counted up to at are those in which it was on.              *)
Tally(h, on, sum, s, at) ==
  /\ (sum.since # None) = Shows(s, on)
  /\ sum.since # None => sum.since <= at
  /\ Cardinality(TicksOn(GetStart(h), at, on)) = Total(sum, at)

LEMMA TallyLater ==
  ASSUME NEW h, NEW on, NEW sum \in Counted, NEW s, Shows(s, on) \in BOOLEAN,
         NEW at \in Nat, NEW next \in Nat, at <= next,
         GetStart(h) \in Nat, GetStart(h) <= at,
         Tally(h, on, sum, s, at), \A t \in Ticks(at, next) : past[t] = s
  PROVE  Tally(h, on, sum, s, next)
<1>1. PICK since, seconds, start, p :
        since = sum.since /\ seconds = sum.seconds /\ start = GetStart(h) /\ p = Shows(s, on)
  OBVIOUS
<1>2. since \in Time /\ seconds \in Nat /\ start \in Nat /\ p \in BOOLEAN /\ start <= at
  BY <1>1 DEF Counted
<1>3. /\ (since # None) = p /\ (since # None => since <= at)
      /\ Cardinality(TicksOn(start, at, on)) = seconds + Interval(since, at)
  BY <1>1 DEF Tally, Total
<1>4. \A t \in Ticks(at, next) : Shows(past[t], on) = p
  BY <1>1
<1>5. Cardinality(TicksOn(start, next, on)) =
        Cardinality(TicksOn(start, at, on)) + (IF p THEN next - at ELSE 0)
  BY <1>2, <1>4, TicksAdd
<1>6. Interval(since, next) = Interval(since, at) + (IF p THEN next - at ELSE 0)
      /\ Interval(since, at) \in Nat
  BY <1>2, <1>3 DEF Interval, Time
<1>7. Cardinality(TicksOn(start, next, on)) = seconds + Interval(since, next)
  BY <1>2, <1>3, <1>5, <1>6
<1>8. since # None => since <= next
  BY <1>2, <1>3 DEF Time
<1> QED
  BY <1>1, <1>3, <1>7, <1>8 DEF Tally, Total

LEMMA TallyCounts ==
  ASSUME NEW h, NEW on, NEW off, Switches(on, off), NEW sum \in Counted,
         NEW s \in Situation, NEW d \in Situation, NEW e \in Event, NEW duty,
         Follows(s, e, d, duty), Tally(h, on, sum, s, e.at)
  PROVE  Tally(h, on, Count(on, off, sum, e), d, e.at)
<1>1. PICK since, seconds, at, new :
        since = sum.since /\ seconds = sum.seconds /\ at = e.at /\ new = Count(on, off, sum, e)
  OBVIOUS
<1>2. since \in Time /\ seconds \in Nat /\ at \in Nat /\ on # off /\ at # None
  BY <1>1, HistoryAssumption DEF Counted, Event, Switches
<1>3. /\ Shows(s, on) \in BOOLEAN /\ Shows(d, on) \in BOOLEAN
      /\ Shows(d, on) = (e.type = on \/ (e.type # off /\ Shows(s, on)))
  BY SwitchFollows
<1>4. /\ (since # None) = Shows(s, on) /\ (since # None => since <= at)
      /\ Cardinality(TicksOn(GetStart(h), at, on)) = seconds + Interval(since, at)
  BY <1>1 DEF Tally, Total
<1>5. CASE e.type = on
  <2>1. new = [sum EXCEPT !.since = SwitchedOn(@, at)]
    <3>1. e.type # off
      BY <1>2, <1>5
    <3>2. Count(on, off, sum, e) = [sum EXCEPT !.since = SwitchedOn(@, e.at)]
      BY <1>5, <3>1, Zenon DEF Count
    <3> QED
      BY <1>1, <3>2
  <2>2. new.since = SwitchedOn(since, at) /\ new.seconds = seconds
    BY <1>1, <2>1 DEF Counted
  <2>3. CASE since = None
    <3>1. new.since = at /\ Interval(since, at) = 0 /\ Interval(at, at) = 0
      BY <1>2, <2>2, <2>3 DEF SwitchedOn, Interval
    <3>2. Cardinality(TicksOn(GetStart(h), at, on)) = new.seconds + Interval(new.since, at)
      BY <1>4, <2>2, <3>1
    <3>3. new.since # None /\ new.since <= at /\ Shows(d, on) = TRUE
      <4>1. new.since # None /\ new.since <= at
        BY <1>2, <3>1
      <4>2. Shows(d, on) = TRUE
        BY <1>3, <1>5
      <4> QED
        BY <4>1, <4>2
    <3>4. (new.since # None) = Shows(d, on)
      BY <3>3
    <3> QED
      BY <1>1, <3>2, <3>3, <3>4 DEF Tally, Total
  <2>4. CASE since # None
    <3>1. new.since = since
      BY <2>2, <2>4 DEF SwitchedOn
    <3>2. Shows(d, on) = TRUE /\ Shows(s, on) = TRUE
      BY <1>3, <1>4, <1>5, <2>4
    <3> QED
      BY <1>1, <1>4, <2>2, <3>1, <3>2 DEF Tally, Total
  <2> QED
    BY <2>3, <2>4
<1>6. CASE e.type = off
  <2>1. new = [since |-> None, seconds |-> seconds + Interval(since, at)]
    BY <1>1, <1>2, <1>6 DEF Count
  <2>2. new.since = None /\ new.seconds = seconds + Interval(since, at)
    BY <2>1
  <2>3. Interval(None, at) = 0 /\ Interval(since, at) \in Nat
    BY <1>2 DEF Interval, Time
  <2>4. Cardinality(TicksOn(GetStart(h), at, on)) = new.seconds + Interval(new.since, at)
    BY <1>2, <1>4, <2>2, <2>3
  <2>5. Shows(d, on) = FALSE
    BY <1>2, <1>3, <1>6
  <2>6. (new.since # None) = Shows(d, on)
    BY <2>2, <2>5
  <2> QED
    BY <1>1, <2>2, <2>4, <2>6 DEF Tally, Total
<1>7. CASE e.type \notin {on, off}
  <2>1. new = sum
    BY <1>1, <1>7 DEF Count
  <2>2. Shows(d, on) = Shows(s, on)
    BY <1>3, <1>7
  <2> QED
    BY <1>1, <2>1, <2>2 DEF Tally, Total
<1> QED
  BY <1>5, <1>6, <1>7

LEMMA FirstRelevant ==
  ASSUME NEW x \in Seq(Event), NEW on, NEW off, Relevant(x, on, off) # {},
         NEW q, q = Min(Relevant(x, on, off))
  PROVE  /\ q \in 1..Len(x) /\ x[q].type \in {on, off}
         /\ \A k \in 1..Len(x) : k < q => x[k].type \notin {on, off}
<1>1. PICK n : n = Len(x) /\ n \in Nat /\ DOMAIN x = 1..n
  OBVIOUS
<1>2. q \in Relevant(x, on, off) /\ \A k \in Relevant(x, on, off) : q <= k
  <2>1. Relevant(x, on, off) \in SUBSET Nat /\ Relevant(x, on, off) # {}
    BY <1>1 DEF Relevant
  <2>2. \E m \in Relevant(x, on, off) : \A k \in Relevant(x, on, off) : m <= k
    BY <2>1, LeastNatural
  <2> QED
    BY <2>2 DEF Min
<1>3. \A k : k \in Relevant(x, on, off) <=> k \in 1..n /\ x[k].type \in {on, off}
  BY <1>1 DEF Relevant
<1>4. q \in 1..n /\ x[q].type \in {on, off}
  BY <1>2, <1>3
<1>5. ASSUME NEW k \in 1..n, k < q PROVE x[k].type \notin {on, off}
  <2>1. k \in Nat /\ q \in Nat /\ ~ (q <= k)
    BY <1>1, <1>4, <1>5
  <2> QED
    BY <1>2, <1>3, <2>1
<1> QED
  BY <1>1, <1>4, <1>5

(* Until the q-th event, the first that switches, it was what the analyzer *)
(* takes it to have been.                                                  *)
Guessed(h, on, off, q) ==
  \A t \in Ticks(GetStart(h), h.events[q].at) : Shows(past[t], on) = (h.events[q].type = off)

(* A dispatcher starts when it does not run and stops when it does, so for *)
(* the uptime the guess is right.                                          *)
LEMMA RunGuessed ==
  ASSUME NEW h, Read(h), NEW r, NEW duty, Chapter(h, r, TRUE, duty),
         NEW on, NEW off, on = "DISPATCHER_STARTED", off = "DISPATCHER_STOPPED",
         Relevant(h.events, on, off) # {},
         NEW q, q = Min(Relevant(h.events, on, off))
  PROVE  Guessed(h, on, off, q)
<1>1. PICK x, n, start : x = h.events /\ n = Len(x) /\ start = GetStart(h)
  OBVIOUS
<1>2. x \in Seq(Event) /\ n \in Nat
  BY <1>1 DEF Read
<1>3. /\ q \in 1..n /\ x[q].type \in {on, off}
      /\ \A k \in 1..n : k < q => x[k].type \notin {on, off}
  BY <1>1, <1>2, FirstRelevant
<1>4. /\ n > 0 /\ 1 \in 1..n /\ start \in Nat /\ start <= x[1].at
      /\ \A k \in 1..n : x[k] \in Event /\ x[k].at \in Nat /\ Until(h, k - 1) = x[k].at
                         /\ x[k].at <= Until(h, k)
  <2>1. n = Len(h.events) /\ n > 0 /\ 1 \in 1..n
    BY <1>1, <1>2, <1>3
  <2> QED
    BY <1>1, <2>1, EndFacts
<1>5. /\ \A k \in 0..n : r[k] \in Situation
      /\ \A k \in 1..n : Follows(r[k-1], x[k], r[k], duty)
      /\ \A k \in 1..n : \A t \in Ticks(x[k].at, Until(h, k)) : past[t] = r[k]
      /\ \A t \in Ticks(start, x[1].at) : past[t] = r[0]
  <2>1. x # <<>>
    BY <1>1, <1>4, EmptySeq
  <2>2. Until(h, 0) = x[1].at
    <3>1. Until(h, 1 - 1) = x[1].at
      BY <1>4
    <3> QED
      BY <3>1
  <2> QED
    BY <1>1, <2>1, <2>2 DEF Chapter
<1>6. ASSUME NEW k \in 1..n
      PROVE  /\ Shows(r[k-1], on) \in BOOLEAN /\ Shows(r[k], on) \in BOOLEAN
             /\ Shows(r[k], on) = (x[k].type = on \/ (x[k].type # off /\ Shows(r[k-1], on)))
             /\ x[k].type = off => Shows(r[k-1], on)
             /\ x[k].type = on => ~Shows(r[k-1], on)
  <2>1. k - 1 \in 0..n /\ k \in 0..n
    BY <1>2
  <2>2. Switches(on, off)
    BY DEF Switches
  <2> QED
    BY <1>5, <2>1, <2>2, SwitchFollows
<1> DEFINE Same == {k \in 0..(q-1) : Shows(r[k], on) = Shows(r[0], on)}
<1>7. \A k \in 0..(q-1) : k \in Same
  <2>1. 0 \in Same
    BY <1>3
  <2>2. ASSUME NEW k \in 1..(q-1), k - 1 \in Same PROVE k \in Same
    <3>1. k \in 1..n /\ k < q /\ k \in 0..(q-1)
      BY <1>2, <1>3
    <3>2. x[k].type \notin {on, off}
      BY <1>3, <3>1
    <3>3. Shows(r[k], on) = Shows(r[k-1], on)
      BY <1>6, <3>1, <3>2
    <3> QED
      BY <2>2, <3>1, <3>3
  <2>3. q - 1 \in Nat
    BY <1>3
  <2> HIDE DEF Same
  <2> QED
    BY <2>1, <2>2, <2>3, Induction
<1>8. PICK b : b = (x[q].type = off) /\ \A k \in 0..(q-1) : Shows(r[k], on) = b
  <2>1. Shows(r[q-1], on) = Shows(r[0], on)
    <3>1. q - 1 \in 0..(q-1)
      BY <1>3
    <3> QED
      BY <1>7, <3>1
  <2>2. Shows(r[q-1], on) = (x[q].type = off)
    BY <1>3, <1>6
  <2> QED
    BY <1>7, <2>1, <2>2
<1> HIDE DEF Same
<1> DEFINE Right == {k \in 0..(q-1) : \A t \in Ticks(start, x[k+1].at) : Shows(past[t], on) = b}
<1>9. \A k \in 0..(q-1) : k \in Right
  <2>1. 0 \in Right
    <3>1. 0 \in 0..(q-1) /\ 0 + 1 = 1
      BY <1>3
    <3> QED
      BY <1>5, <1>8, <3>1
  <2>2. ASSUME NEW k \in 1..(q-1), k - 1 \in Right PROVE k \in Right
    <3>1. k \in 1..n /\ k + 1 \in 1..n /\ k \in 0..(q-1) /\ k + 1 - 1 = k /\ k - 1 + 1 = k
      BY <1>2, <1>3
    <3>2. x[k].at \in Nat /\ x[k+1].at \in Nat /\ Until(h, k) = x[k+1].at
      BY <1>4, <3>1
    <3>3. \A t \in Ticks(start, x[k].at) : Shows(past[t], on) = b
      BY <2>2, <3>1
    <3>4. \A t \in Ticks(x[k].at, x[k+1].at) : Shows(past[t], on) = b
      BY <1>5, <1>8, <3>1, <3>2
    <3>5. \A t \in Ticks(start, x[k+1].at) : t \in Ticks(start, x[k].at) \cup Ticks(x[k].at, x[k+1].at)
      BY <1>4, <3>2 DEF Ticks
    <3> QED
      BY <3>1, <3>3, <3>4, <3>5
  <2>3. q - 1 \in Nat
    BY <1>3
  <2> HIDE DEF Right
  <2> QED
    BY <2>1, <2>2, <2>3, Induction
<1>10. \A t \in Ticks(start, x[q].at) : Shows(past[t], on) = b
  <2>1. q - 1 \in 0..(q-1) /\ q - 1 + 1 = q
    BY <1>3
  <2> QED
    BY <1>9, <2>1
<1> QED
  BY <1>1, <1>8, <1>10 DEF Guessed

(* With a right guess the sums are right after the first that switches.    *)
LEMMA TallyBegins ==
  ASSUME NEW h, NEW on, NEW off, Switches(on, off), NEW e \in Event, e.type \in {on, off},
         GetStart(h) \in Nat, GetStart(h) <= e.at,
         \A t \in Ticks(GetStart(h), e.at) : Shows(past[t], on) = (e.type = off),
         NEW since, since = OnSince(h, e, off),
         NEW s \in Situation, NEW d \in Situation, NEW duty, Follows(s, e, d, duty)
  PROVE  Tally(h, on, Count(on, off, [since |-> since, seconds |-> 0], e), d, e.at)
<1>1. PICK start, at, new :
        start = GetStart(h) /\ at = e.at
        /\ new = Count(on, off, [since |-> since, seconds |-> 0], e)
  OBVIOUS
<1>2. /\ start \in Nat /\ at \in Nat /\ start <= at /\ start # None /\ at # None /\ on # off
      /\ since = IF e.type = off THEN start ELSE None
  BY <1>1, HistoryAssumption DEF Event, OnSince, Switches
<1>3. Cardinality(TicksOn(start, at, on)) = IF e.type = off THEN at - start ELSE 0
  <2>1. PICK p \in BOOLEAN : p = (e.type = off)
    OBVIOUS
  <2>2. /\ start \in Nat /\ at \in Nat /\ start <= start /\ start <= at /\ p \in BOOLEAN
        /\ \A t \in Ticks(start, at) : Shows(past[t], on) = p
    BY <1>1, <1>2, <2>1
  <2>3. Cardinality(TicksOn(start, at, on)) =
          Cardinality(TicksOn(start, start, on)) + (IF p THEN at - start ELSE 0)
    BY ONLY <2>2, TicksAdd
  <2>4. Cardinality(TicksOn(start, start, on)) = 0
    <3>1. TicksOn(start, start, on) = {}
      BY <2>2 DEF TicksOn, Ticks
    <3> QED
      BY <3>1, FS_EmptySet
  <2>5. Cardinality(TicksOn(start, at, on)) = IF p THEN at - start ELSE 0
    BY ONLY <2>2, <2>3, <2>4
  <2> QED
    BY ONLY <2>1, <2>5
<1>4. Shows(d, on) = (e.type = on) /\ Shows(d, on) \in BOOLEAN
  BY <1>2, SwitchFollows
<1>5. CASE e.type = off
  <2>1. new = [since |-> None, seconds |-> 0 + Interval(since, at)]
    BY <1>1, <1>2, <1>5 DEF Count
  <2>2. new.since = None /\ new.seconds = at - start /\ Interval(None, at) = 0
    BY <1>2, <1>5, <2>1 DEF Interval
  <2>3. Cardinality(TicksOn(start, at, on)) = new.seconds + Interval(new.since, at)
    BY <1>2, <1>3, <1>5, <2>2
  <2>4. Shows(d, on) = FALSE
    BY <1>2, <1>4, <1>5
  <2> QED
    BY <1>1, <2>2, <2>3, <2>4 DEF Tally, Total
<1>6. CASE e.type = on
  <2>1. since = None /\ e.type # off
    BY <1>2, <1>6
  <2>2. new = [since |-> at, seconds |-> 0]
    BY <1>1, <1>6, <2>1 DEF Count, SwitchedOn
  <2>3. new.since = at /\ new.seconds = 0 /\ Interval(at, at) = 0
    BY <1>2, <2>2 DEF Interval
  <2>4. Cardinality(TicksOn(start, at, on)) = new.seconds + Interval(new.since, at)
    BY <1>3, <2>1, <2>3
  <2>5. new.since # None /\ new.since <= at
    BY <1>2, <2>3
  <2>6. Shows(d, on) = TRUE
    BY <1>4, <1>6
  <2> QED
    BY <1>1, <2>4, <2>5, <2>6 DEF Tally, Total
<1> QED
  BY <1>5, <1>6

LEMMA TimeExact ==
  ASSUME NEW h, Read(h), NEW r, NEW lead, NEW duty, Chapter(h, r, lead, duty),
         NEW on, NEW off, Switches(on, off), TimeBetween(h, on, off) # None,
         NEW q, q = Min(Relevant(h.events, on, off)), Guessed(h, on, off, q)
  PROVE  TimeBetween(h, on, off) = Cardinality(TicksOn(GetStart(h), GetEnd(h), on))
<1>1. PICK x, n, start, end :
        x = h.events /\ n = Len(x) /\ start = GetStart(h) /\ end = GetEnd(h)
  OBVIOUS
<1>2. Relevant(x, on, off) # {} /\ q = Min(Relevant(x, on, off))
  BY <1>1 DEF TimeBetween, Relevant
<1>3. /\ x \in Seq(Event) /\ n \in Nat
      /\ q \in 1..n /\ x[q].type \in {on, off}
      /\ \A k \in 1..n : k < q => x[k].type \notin {on, off}
  <2>1. x \in Seq(Event) /\ n \in Nat
    BY <1>1 DEF Read
  <2> QED
    BY <1>1, <1>2, <2>1, FirstRelevant
<1>4. /\ 1 \in 1..n /\ n \in 1..n
      /\ start \in Nat /\ end \in Nat /\ start # None
      /\ start <= x[1].at /\ x[n].at <= end
      /\ \A i \in 1..n : x[i] \in Event /\ x[i].at \in Nat
      /\ \A i \in 1..n : Until(h, i - 1) = x[i].at
      /\ \A i, j \in 1..n : i < j => x[i].at <= x[j].at
  <2>1. n = Len(h.events) /\ n > 0 /\ 1 \in 1..n /\ n \in 1..n
    BY <1>1, <1>3
  <2>2. /\ GetStart(h) \in Nat /\ GetEnd(h) \in Nat
        /\ GetStart(h) <= h.events[1].at /\ h.events[n].at <= GetEnd(h)
        /\ \A i \in 1..n : h.events[i] \in Event /\ h.events[i].at \in Nat
                           /\ Until(h, i - 1) = h.events[i].at
    BY <2>1, EndFacts
  <2>3. \A i, j \in 1..n : i < j => x[i].at <= x[j].at
    BY <1>1 DEF Read, Sorted, Precedes
  <2> QED
    BY <1>1, <2>1, <2>2, <2>3, HistoryAssumption
<1>5. \A i \in 1..n : start <= x[i].at
  <2> SUFFICES ASSUME NEW i \in 1..n PROVE start <= x[i].at
    OBVIOUS
  <2>1. i = 1 \/ 1 < i
    BY <1>3
  <2>2. i = 1 \/ x[1].at <= x[i].at
    BY <1>4, <2>1
  <2> QED
    BY <1>4, <2>2
<1>6. PICK since : since = OnSince(h, x[q], off) /\ since \in Time
  BY <1>1, <1>4 DEF OnSince, Time
<1>7. PICK acc :
        /\ acc[0] = [since |-> since, seconds |-> 0]
        /\ \A i \in 0..n : acc[i] \in Counted
        /\ \A i \in 1..n : acc[i] = Count(on, off, acc[i-1], x[i])
        /\ TimeBetween(h, on, off) = Total(acc[n], end)
  <2>1. on # off
    BY DEF Switches
  <2>2. x \in Seq(Event) /\ x = h.events
    BY <1>1, <1>3
  <2>3. PICK acc : CountsUp(acc, h, x, on, off, since)
    BY <1>2, <1>6, <2>1, <2>2, CountFold
  <2> QED
    BY <1>1, <2>3 DEF CountsUp
<1>8. /\ \A i \in 0..n : r[i] \in Situation
      /\ \A i \in 1..n : Follows(r[i-1], x[i], r[i], duty)
      /\ \A i \in 1..n : \A t \in Ticks(x[i].at, Until(h, i)) : past[t] = r[i]
  BY <1>1 DEF Chapter
<1>9. \A i \in 0..n : Shows(r[i], on) \in BOOLEAN
  BY <1>8, Zenon DEF Situation, Shows
<1> DEFINE Still == {k \in 0..(q-1) : acc[k] = acc[0]}
<1>10. \A k \in 0..(q-1) : k \in Still
  <2>1. 0 \in Still
    BY <1>3
  <2>2. ASSUME NEW k \in 1..(q-1), k - 1 \in Still PROVE k \in Still
    <3>1. k \in 1..n /\ k < q /\ k \in 0..(q-1)
      BY <1>3
    <3>2. x[k].type # on /\ x[k].type # off
      BY <1>3, <3>1
    <3>3. acc[k] = acc[k-1]
      BY <1>7, <3>1, <3>2 DEF Count
    <3> QED
      BY <2>2, <3>1, <3>3
  <2>3. q - 1 \in Nat
    BY <1>3
  <2> HIDE DEF Still
  <2> QED
    BY <2>1, <2>2, <2>3, Induction
<1> DEFINE Good == {k \in 0..(n-q) : Tally(h, on, acc[q+k], r[q+k], x[q+k].at)}
<1>11. \A k \in 0..(n-q) : k \in Good
  <2>1. 0 \in Good
    <3>1. q - 1 \in 0..(q-1) /\ q - 1 \in 0..n /\ q \in 0..n /\ q + 0 = q /\ 0 \in 0..(n-q)
      BY <1>3
    <3>2. acc[q] = Count(on, off, [since |-> since, seconds |-> 0], x[q])
      BY <1>3, <1>7, <1>10, <3>1
    <3>3. /\ x[q] \in Event /\ GetStart(h) \in Nat /\ GetStart(h) <= x[q].at
          /\ r[q-1] \in Situation /\ r[q] \in Situation /\ Follows(r[q-1], x[q], r[q], duty)
          /\ \A t \in Ticks(GetStart(h), x[q].at) : Shows(past[t], on) = (x[q].type = off)
      BY <1>1, <1>3, <1>4, <1>5, <1>8, <3>1 DEF Guessed
    <3>4. Tally(h, on, Count(on, off, [since |-> since, seconds |-> 0], x[q]), r[q], x[q].at)
      BY <1>3, <1>6, <3>3, TallyBegins
    <3> QED
      BY <3>1, <3>2, <3>4
  <2>2. ASSUME NEW k \in 1..(n-q), k - 1 \in Good PROVE k \in Good
    <3>1. PICK i : i = q + k
      OBVIOUS
    <3>2. i \in 1..n /\ i - 1 \in 1..n /\ i - 1 < i /\ i - 1 \in 0..n /\ i \in 0..n
          /\ q + (k - 1) = i - 1 /\ k \in 0..(n-q)
      <4>1. n \in Nat /\ q \in Nat /\ k \in Nat /\ 1 <= q /\ 1 <= k /\ k <= n - q
        BY <1>3
      <4> QED
        BY ONLY <3>1, <4>1
    <3>3. Tally(h, on, acc[i-1], r[i-1], x[i-1].at)
      BY <2>2, <3>2
    <3>4. /\ acc[i-1] \in Counted /\ x[i] \in Event
          /\ r[i-1] \in Situation /\ r[i] \in Situation
          /\ x[i-1].at \in Nat /\ x[i].at \in Nat /\ x[i-1].at <= x[i].at
          /\ GetStart(h) \in Nat /\ GetStart(h) <= x[i-1].at
          /\ Shows(r[i-1], on) \in BOOLEAN
      BY <1>1, <1>4, <1>5, <1>7, <1>8, <1>9, <3>2
    <3>5. \A t \in Ticks(x[i-1].at, x[i].at) : past[t] = r[i-1]
      BY <1>4, <1>8, <3>2
    <3>6. Tally(h, on, acc[i-1], r[i-1], x[i].at)
      BY ONLY <3>3, <3>4, <3>5, TallyLater
    <3>7. /\ Follows(r[i-1], x[i], r[i], duty)
          /\ acc[i] = Count(on, off, acc[i-1], x[i])
      BY <1>7, <1>8, <3>2
    <3>8. Tally(h, on, Count(on, off, acc[i-1], x[i]), r[i], x[i].at)
      BY <3>4, <3>6, <3>7, TallyCounts, Zenon
    <3> QED
      BY <3>1, <3>2, <3>7, <3>8
  <2>3. n - q \in Nat
    BY <1>3
  <2> HIDE DEF Good
  <2> QED
    BY <2>1, <2>2, <2>3, Induction
<1>12. Tally(h, on, acc[n], r[n], x[n].at) /\ n \in 0..n
  <2>1. n - q \in 0..(n-q) /\ q + (n - q) = n /\ n \in 0..n
    BY <1>3
  <2> QED
    BY <1>11, <2>1
<1>13. \A t \in Ticks(x[n].at, end) : past[t] = r[n]
  <2>1. Until(h, n) = end
    BY <1>1, <1>3 DEF Until
  <2> QED
    BY <1>4, <1>8, <2>1
<1>14. Tally(h, on, acc[n], r[n], end)
  <2>1. /\ acc[n] \in Counted /\ Shows(r[n], on) \in BOOLEAN
        /\ x[n].at \in Nat /\ end \in Nat /\ x[n].at <= end
        /\ GetStart(h) \in Nat /\ GetStart(h) <= x[n].at
    BY <1>1, <1>4, <1>5, <1>7, <1>9, <1>12
  <2>2. Tally(h, on, acc[n], r[n], x[n].at)
    BY <1>12
  <2> QED
    BY ONLY <2>1, <2>2, <1>13, TallyLater
<1> QED
  BY <1>1, <1>7, <1>14 DEF Tally, Total

LEMMA UptimeFollows == ReportInv => UptimeIsExact
<1> SUFFICES ASSUME ReportInv, NEW w \in Window, NEW limit \in Limit,
                    NEW h, h = Selected(w[1], w[2], limit), Uptime(h) # None,
                    w[1] = None \/ (Complete /\ limit = None)
             PROVE  Uptime(h) = Cardinality({t \in Ticks(GetStart(h), GetEnd(h)) : past[t].running})
  BY DEF UptimeIsExact
<1>1. /\ w[1] \in Bound /\ w[2] \in Bound
      /\ w[1] # None /\ w[2] # None => w[1] <= w[2]
      /\ limit \in Time
  BY DEF Window, Limit, Time
<1> DEFINE on == "DISPATCHER_STARTED"
           off == "DISPATCHER_STOPPED"
<1>2. PICK r : Read(h) /\ Chapter(h, r, TRUE, Sofar)
  <2>1. /\ Read(h)
        /\ \E r : Chapter(h, r, w[1] = None \/ (Complete /\ limit = None), Sofar)
    BY <1>1, ChapterOfStory
  <2>2. (w[1] = None \/ (Complete /\ limit = None)) = TRUE
    OBVIOUS
  <2> QED
    BY <2>1, <2>2
<1>3. PICK q : q = Min(Relevant(h.events, on, off))
  OBVIOUS
<1>4. TimeBetween(h, on, off) # None /\ Relevant(h.events, on, off) # {} /\ Switches(on, off)
  BY DEF Uptime, TimeBetween, Relevant, Switches
<1>5. Guessed(h, on, off, q)
  BY <1>2, <1>3, <1>4, RunGuessed
<1>6. TimeBetween(h, on, off) = Cardinality(TicksOn(GetStart(h), GetEnd(h), on))
  BY <1>2, <1>3, <1>4, <1>5, TimeExact
<1>7. TicksOn(GetStart(h), GetEnd(h), on) =
        {t \in Ticks(GetStart(h), GetEnd(h)) : past[t].running}
  BY DEF TicksOn, Shows
<1> QED
  BY <1>6, <1>7 DEF Uptime

LEMMA PausedTimeFollows == ReportInv => PausedTimeIsExact
<1> SUFFICES ASSUME ReportInv, NEW w \in Window, NEW limit \in Limit,
                    NEW h, h = Selected(w[1], w[2], limit), PausedTime(h) # None,
                    GuessesRight(h)
             PROVE  PausedTime(h) = Cardinality({t \in Ticks(GetStart(h), GetEnd(h)) : past[t].paused})
  BY DEF PausedTimeIsExact
<1>1. /\ w[1] \in Bound /\ w[2] \in Bound
      /\ w[1] # None /\ w[2] # None => w[1] <= w[2]
      /\ limit \in Time
  BY DEF Window, Limit, Time
<1> DEFINE on == "DISPATCHER_PAUSED"
           off == "DISPATCHER_RESUMED"
<1>2. PICK r, lead : Read(h) /\ Chapter(h, r, lead, Sofar)
  BY <1>1, ChapterOfStory
<1>3. PICK q : q = Min(Relevant(h.events, on, off))
  OBVIOUS
<1>4. TimeBetween(h, on, off) # None /\ Switches(on, off)
  BY DEF PausedTime, Switches
<1>5. Guessed(h, on, off, q)
  BY <1>3 DEF GuessesRight, Guessed, Relevant, Shows
<1>6. TimeBetween(h, on, off) = Cardinality(TicksOn(GetStart(h), GetEnd(h), on))
  BY <1>2, <1>3, <1>4, <1>5, TimeExact
<1>7. TicksOn(GetStart(h), GetEnd(h), on) =
        {t \in Ticks(GetStart(h), GetEnd(h)) : past[t].paused}
  BY DEF TicksOn, Shows
<1> QED
  BY <1>6, <1>7 DEF PausedTime
-----------------------------------------------------------------------------
(* The reported uptime, if there is one, is the time the dispatcher ran in *)
(* the window (history_analyzer.py:14-70).                                 *)
THEOREM UptimesAreExact == Spec => []UptimeIsExact
BY ReportInvariant, UptimeFollows, PTL

(* Where the analyzer guesses right what was before the first pause or     *)
(* resume, the reported paused time is the time the dispatcher was paused  *)
(* in the window (history_analyzer.py:72-120).                             *)
THEOREM PausedTimesAreExact == Spec => []PausedTimeIsExact
BY ReportInvariant, PausedTimeFollows, PTL

(* The bars of an operation whose state and start no update changed begin  *)
(* at its start and follow each other without gap or overlap, and one      *)
(* marked paused covers only time in which it was, whatever is left of its *)
(* events (visualize_history.py:74-163).                                   *)
THEOREM OperationRowsTile == Spec => []RowsTile
BY ReportInvariant, RowsFollow, PTL

(* While the dispatcher is only paused and resumed as it runs, every bar   *)
(* of its own shows what it did in all of the bar's time                   *)
(* (visualize_history.py:166-256).                                         *)
THEOREM DispatcherRowsStayTrue == Spec => []DispatcherRowsAreTrue
BY ReportInvariant, DispatcherRowsFollow, PTL
=============================================================================
