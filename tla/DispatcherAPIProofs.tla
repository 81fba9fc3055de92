-------------------------- MODULE DispatcherAPIProofs --------------------------
(***************************************************************************)
(* Proofs about the HTTP and MCP interfaces, for any operations.           *)
(*                                                                         *)
(* LoopInv is about the event loop alone: where the operation it moves is  *)
(* between two of its steps, and that a confirmed cancellation is out of   *)
(* every bucket but the archive. ReaderInv relates a handler to it: what   *)
(* the handler has seen of an operation that stays where it is.            *)
(***************************************************************************)
EXTENDS DispatcherAPI, SequenceFacts, SequenceTheorems

USE DEF ExecutionState, ExecutionOutcome

LoopTypeOK ==
  /\ queue \in Seq(Operation) /\ Distinct(queue)
  /\ kept \in Seq(Operation) /\ Distinct(kept)
  /\ pulled \in Operation \cup {None}
  /\ completed \in SUBSET Operation
  /\ hand \in Operation \cup {None}
  /\ loop = "idle" <=> hand = None
  /\ outcome \in [Operation -> ExecutionOutcome]
  /\ state \in [Operation -> ExecutionState]
  /\ cancels \in [Operation -> Nat]
  /\ rewritten \in SUBSET Operation

(* The sort has taken everything out of the list, or nothing.              *)
OneList ==
  /\ loop # "sorting" => kept = <<>>
  /\ loop = "sorting" => queue = <<>>

Changing == loop \in {"changed", "sorting", "sorted"}

(* What is queued is nowhere else, and in the loop's hand only to sort.    *)
QueuedIsThere ==
  \A o \in InQueue : o \notin completed /\ o # pulled /\ (o = hand => Changing)

HandIsWhere ==
  /\ loop = "popped" => pulled = None
  /\ loop \in {"popped", "removed"} => hand \notin completed /\ hand # pulled
  /\ loop \in {"pulled", "finished", "archived", "withdrawn"} => hand = pulled
  /\ loop \in {"archived", "withdrawn", "cancelled"} => hand \in completed
  /\ loop = "cancelled" => hand # pulled
  /\ pulled \in completed => loop \in {"archived", "withdrawn"}

Confirmed ==
  \A o \in Operation :
    /\ cancels[o] <= 1
    /\ cancels[o] = 1 => /\ outcome[o] = "CANCELLED" \/ o \in rewritten
                         /\ o \in completed /\ o # pulled
                         /\ o = hand => Changing

CompletedState ==
  \A o \in Operation :
    state[o] = "COMPLETED" =>
      o \in completed \/ o \in rewritten \/ (hand = o /\ loop = "finished")

LoopInv ==
  /\ LoopTypeOK
  /\ OneList
  /\ QueuedIsThere
  /\ HandIsWhere
  /\ Confirmed
  /\ CompletedState
-----------------------------------------------------------------------------
Control ==
  /\ pc = "idle" => request = NoRequest
  /\ pc \in {"begin", "comparing", "returning", "scanning"} => request[1] \in Lookups
  /\ pc = "copying" => request[1] = "list"
  /\ pc = "showing" => request[1] = "current"
  /\ pc = "listing" => request[1] \in {"list", "current"}
  /\ pc \in {"asked", "checking"} => request[1] \notin {"list", "current", "get"}
  /\ request[1] = "current" => request[2] = None
  /\ mine \in BOOLEAN
  /\ mine => pc = "asked" /\ loop # "idle"

SteadyIsThere == \A o \in steady : o \in Operation /\ Place(o) \in {"active", "archived"}

(* A handler that is past the slot looks for something archived.           *)
TargetIsAhead ==
  request[2] \in steady =>
    /\ pc = "returning" => Place(request[2]) = "active"
    /\ pc = "scanning" => Place(request[2]) = "archived"

SlotIsCopied == pc = "copying" => \A o \in steady : pulled = o => current = o

ReaderInv == Control /\ SteadyIsThere /\ TargetIsAhead /\ SlotIsCopied /\ SteadyIsNotMissed

Inv == LoopInv /\ ReaderInv
-----------------------------------------------------------------------------
(* The lists.                                                              *)

LEMMA ToSetFacts ==
  ASSUME NEW s \in Seq(Operation)
  PROVE  /\ ToSet(s) = Range(s)
         /\ ToSet(s) \subseteq Operation
  BY DEF ToSet, Range

LEMMA NothingInEmpty == ToSet(<<>>) = {}
  BY DEF ToSet

LEMMA RemoveAtFacts ==
  ASSUME NEW q \in Seq(Operation), Distinct(q), NEW i \in 1..Len(q), NEW r, r = RemoveAt(q, i)
  PROVE  /\ r \in Seq(Operation)
         /\ Range(r) = Range(q) \ {q[i]}
         /\ Distinct(r)
<1>1. Len(q) \in Nat /\ i \in Nat
  OBVIOUS
<1>2. PICK before : before = SubSeq(q, 1, i-1)
  OBVIOUS
<1>3. PICK after : after = SubSeq(q, i+1, Len(q))
  OBVIOUS
<1>4. /\ before \in Seq(Operation) /\ Len(before) = i - 1
      /\ \A j \in 1..(i-1) : before[j] = q[j]
  BY <1>1, <1>2
<1>5. /\ after \in Seq(Operation) /\ Len(after) = Len(q) - i
      /\ \A j \in 1..(Len(q)-i) : after[j] = q[i+j]
  BY <1>1, <1>3
<1>6. /\ r \in Seq(Operation)
      /\ Len(r) = Len(q) - 1
      /\ \A j \in 1..(Len(q)-1) : r[j] = IF j <= i-1 THEN before[j] ELSE after[j - (i-1)]
  <2>1. r = before \o after
    BY <1>2, <1>3 DEF RemoveAt
  <2>2. /\ r \in Seq(Operation)
        /\ Len(r) = Len(before) + Len(after)
        /\ \A j \in 1..(Len(before) + Len(after)) :
             r[j] = IF j <= Len(before) THEN before[j] ELSE after[j - Len(before)]
    <3>1. before \in Seq(Operation) /\ after \in Seq(Operation)
      BY <1>4, <1>5
    <3> QED
      BY <2>1, <3>1, ConcatProperties
  <2>3. Len(before) + Len(after) = Len(q) - 1
    BY <1>1, <1>4, <1>5
  <2>4. Len(before) = i - 1
    BY <1>4
  <2> QED
    BY <2>2, <2>3, <2>4
<1>7. \A j \in 1..(Len(q)-1) : r[j] = IF j < i THEN q[j] ELSE q[j+1]
  <2> SUFFICES ASSUME NEW j \in 1..(Len(q)-1)
               PROVE  r[j] = IF j < i THEN q[j] ELSE q[j+1]
    OBVIOUS
  <2>1. r[j] = IF j <= i - 1 THEN before[j] ELSE after[j - (i-1)]
    BY <1>6
  <2>2. CASE j < i
    BY <1>1, <1>4, <2>1, <2>2
  <2>3. CASE ~(j < i)
    <3>1. j - (i-1) \in 1..(Len(q)-i) /\ i + (j - (i-1)) = j + 1
      BY <1>1, <2>3
    <3>2. r[j] = after[j - (i-1)]
      BY <1>1, <2>1, <2>3
    <3> QED
      BY <1>5, <2>3, <3>1, <3>2
  <2> QED
    BY <2>2, <2>3
<1>8. r \in Seq(Operation) /\ EntryOut(q, i, r)
  BY <1>6, <1>7 DEF EntryOut
<1> QED
  BY <1>8, EntryOutFacts

(* A sort keeps what it sorts.                                             *)
LEMMA SortFacts ==
  ASSUME NEW q \in Seq(Operation), NEW r \in [1..Len(q) -> ToSet(q)],
         \A i, j \in 1..Len(q) : i < j => r[i] < r[j],
         ToSet(r) = ToSet(q)
  PROVE  r \in Seq(Operation) /\ Distinct(r) /\ ToSet(r) = ToSet(q)
<1>1. ToSet(q) \subseteq Operation /\ Operation \subseteq Nat /\ Len(q) \in Nat
  <2>1. ToSet(q) \subseteq Operation
    BY ToSetFacts
  <2>2. Operation \subseteq Nat
    BY APIAssumption
  <2>3. Len(q) \in Nat
    OBVIOUS
  <2> QED
    BY <2>1, <2>2, <2>3
<1>2. r \in Seq(Operation) /\ Len(r) = Len(q)
  BY <1>1
<1>3. \A i, j \in 1..Len(q) : r[i] = r[j] => ~(i < j) /\ ~(j < i)
  <2>1. \A i \in 1..Len(q) : r[i] \in Nat
    BY <1>1
  <2> QED
    BY <2>1
<1> QED
  BY <1>2, <1>3 DEF Distinct
-----------------------------------------------------------------------------
(* The event loop.                                                         *)

LEMMA NoneIsNone == None \notin Operation
  BY APIAssumption

loopVars == <<buckets, execution, work, record>>

LEMMA LoopUnchanged ==
  ASSUME LoopInv, UNCHANGED loopVars
  PROVE  LoopInv'
<1>1. UNCHANGED <<queue, kept, pulled, completed, state, outcome, loop, hand, mine, cancels,
                  rewritten>>
  BY DEF loopVars, buckets, execution, work, record
<1>2. InQueue' = InQueue /\ (Changing' <=> Changing)
  BY <1>1 DEF InQueue, Changing
<1>3. LoopTypeOK' /\ OneList' /\ CompletedState'
  BY <1>1 DEF LoopInv, LoopTypeOK, OneList, CompletedState
<1>4. QueuedIsThere' /\ HandIsWhere' /\ Confirmed'
  BY <1>1, <1>2 DEF LoopInv, QueuedIsThere, HandIsWhere, Confirmed
<1> QED
  BY <1>3, <1>4 DEF LoopInv

LEMMA QueuedIsKnown == LoopInv => InQueue \subseteq Operation
  BY ToSetFacts DEF LoopInv, LoopTypeOK, InQueue

(* The steps that leave the lists alone.                                   *)
LEMMA LoopKeepsLists ==
  ASSUME LoopInv, UNCHANGED <<queue, kept>>,
         \/ Assign \/ SetRunning \/ Finish \/ Archive \/ EmptySlot \/ SetCancelled
         \/ ReplaceList
         \/ \E o \in Operation, forMe \in BOOLEAN : CancelActive(o, forMe) \/ Update(o, forMe)
  PROVE  LoopInv'
<1>1. InQueue' = InQueue /\ InQueue \subseteq Operation
  BY QueuedIsKnown DEF InQueue
<1>2. /\ queue' \in Seq(Operation) /\ Distinct(queue')
      /\ kept' \in Seq(Operation) /\ Distinct(kept')
  BY DEF LoopInv, LoopTypeOK
<1> USE NoneIsNone
    DEF LoopInv, LoopTypeOK, OneList, QueuedIsThere, HandIsWhere, Confirmed, CompletedState,
        Changing, record
<1>3. CASE Assign
  BY <1>1, <1>2, <1>3 DEF Assign, execution
<1>4. CASE SetRunning
  <2>1. /\ loop = "pulled" /\ hand = pulled
        /\ state' = [state EXCEPT ![hand] = "RUNNING"]
        /\ loop' = "idle" /\ hand' = None
        /\ UNCHANGED <<pulled, completed, outcome, cancels, rewritten>>
    BY <1>4 DEF SetRunning, LoopRests, buckets
  <2>2. LoopTypeOK' /\ OneList'
    BY <1>2, <2>1
  <2>3. QueuedIsThere' /\ HandIsWhere' /\ Confirmed' /\ CompletedState'
    BY <1>1, <2>1
  <2> QED
    BY <2>2, <2>3
<1>5. CASE Finish
  BY <1>1, <1>2, <1>5 DEF Finish, Begins, buckets
<1>6. CASE Archive
  BY <1>1, <1>2, <1>6 DEF Archive, execution
<1>7. CASE EmptySlot
  <2>1. /\ loop \in {"archived", "withdrawn"} /\ hand = pulled /\ hand \in completed
        /\ pulled' = None
        /\ \/ loop = "withdrawn" /\ loop' = "cancelled" /\ hand' = hand
           \/ loop' = "idle" /\ hand' = None
        /\ UNCHANGED <<completed, state, outcome, cancels, rewritten>>
    BY <1>7 DEF EmptySlot, LoopRests, execution
  <2>2. LoopTypeOK' /\ OneList'
    BY <1>2, <2>1
  <2>3. QueuedIsThere' /\ HandIsWhere'
    BY <1>1, <2>1
  <2>4. Confirmed' /\ CompletedState'
    BY <2>1
  <2> QED
    BY <2>2, <2>3, <2>4
<1>8. CASE SetCancelled
  <2>1. /\ loop = "cancelled" /\ hand # pulled /\ hand \in completed /\ hand \in Operation
        /\ state' = [state EXCEPT ![hand] = "COMPLETED"]
        /\ outcome' = [outcome EXCEPT ![hand] = "CANCELLED"]
        /\ cancels' = [cancels EXCEPT ![hand] = cancels[hand] + 1]
        /\ rewritten' = rewritten \ {hand}
        /\ loop' = "idle" /\ hand' = None
        /\ UNCHANGED <<pulled, completed>>
    BY <1>8 DEF SetCancelled, LoopRests, buckets
  <2>2. cancels[hand] = 0
    BY <2>1
  <2>3. LoopTypeOK' /\ OneList'
    BY <1>2, <2>1
  <2>4. QueuedIsThere' /\ HandIsWhere'
    BY <1>1, <2>1
  <2>5. Confirmed'
    BY <2>1, <2>2
  <2>6. CompletedState'
    BY <2>1
  <2> QED
    BY <2>3, <2>4, <2>5, <2>6
<1>9. CASE ReplaceList
  <2>1. /\ loop = "sorted" /\ loop' = "idle" /\ hand' = None
        /\ UNCHANGED <<pulled, completed, state, outcome, cancels, rewritten>>
    BY <1>9 DEF ReplaceList, LoopRests, buckets, execution
  <2>2. LoopTypeOK' /\ OneList'
    BY <1>2, <2>1
  <2>3. QueuedIsThere' /\ HandIsWhere' /\ Confirmed' /\ CompletedState'
    BY <1>1, <2>1
  <2> QED
    BY <2>2, <2>3
<1>10. ASSUME NEW o \in Operation, NEW forMe \in BOOLEAN, CancelActive(o, forMe)
       PROVE  LoopInv'
  BY <1>1, <1>2, <1>10 DEF CancelActive, Takes, Begins, execution
<1>11. ASSUME NEW o \in Operation, NEW forMe \in BOOLEAN, Update(o, forMe)
       PROVE  LoopInv'
  <2>1. /\ loop = "idle" /\ hand = None /\ loop' = "changed" /\ hand' = o
        /\ \E s \in [Operation -> ExecutionState] : state' = s
        /\ \E r \in [Operation -> ExecutionOutcome] : outcome' = r
        /\ rewritten' \in {rewritten, rewritten \cup {o}}
        /\ \A x \in Operation : x \in rewritten' \/ (state'[x] = state[x] /\ outcome'[x] = outcome[x])
        /\ UNCHANGED <<pulled, completed, cancels>>
    <3>1. /\ loop = "idle" /\ hand = None /\ loop' = "changed" /\ hand' = o
          /\ UNCHANGED <<pulled, completed, cancels>>
      BY <1>11 DEF Update, Takes, Begins, buckets
    <3>2. \/ state' = state
          \/ \E s \in NewState : state' = [state EXCEPT ![o] = s]
      BY <1>11 DEF Update
    <3>3. \/ outcome' = outcome
          \/ \E r \in NewOutcome : outcome' = [outcome EXCEPT ![o] = r]
      BY <1>11 DEF Update
    <3>4. rewritten' = IF UNCHANGED <<state, outcome>> THEN rewritten ELSE rewritten \cup {o}
      BY <1>11 DEF Update
    <3>5. /\ state' \in [Operation -> ExecutionState]
          /\ outcome' \in [Operation -> ExecutionOutcome]
      <4>1. state' \in [Operation -> ExecutionState]
        BY <3>2, APIAssumption
      <4>2. outcome' \in [Operation -> ExecutionOutcome]
        BY <3>3, APIAssumption
      <4> QED
        BY <4>1, <4>2
    <3>6. \A x \in Operation : x = o \/ (state'[x] = state[x] /\ outcome'[x] = outcome[x])
      BY <3>2, <3>3
    <3> QED
      BY <3>1, <3>4, <3>5, <3>6
  <2>2. LoopTypeOK' /\ OneList'
    BY <1>2, <2>1
  <2>3. QueuedIsThere' /\ HandIsWhere'
    BY <1>1, <2>1
  <2>4. Confirmed' /\ CompletedState'
    BY <2>1
  <2> QED
    BY <2>2, <2>3, <2>4
<1> QED
  BY <1>3, <1>4, <1>5, <1>6, <1>7, <1>8, <1>9, <1>10, <1>11

(* The steps that move an operation into the queue or out of it.           *)
LEMMA TakeHeadKeeps ==
  ASSUME LoopInv, TakeHead
  PROVE  LoopInv'
<1>1. PICK o : o = Head(queue)
  OBVIOUS
<1>2. /\ loop = "idle" /\ hand = None /\ pulled = None /\ queue # <<>>
      /\ queue' = Tail(queue)
      /\ loop' = "popped" /\ hand' = o
      /\ UNCHANGED <<kept, pulled, completed, state, outcome, cancels, rewritten>>
  BY <1>1 DEF TakeHead, Begins, execution, record, LoopInv, LoopTypeOK
<1>3. /\ queue \in Seq(Operation) /\ Distinct(queue) /\ kept = <<>>
  BY <1>2 DEF LoopInv, LoopTypeOK, OneList
<1>4. /\ o \in InQueue /\ o \in Operation
      /\ queue' \in Seq(Operation) /\ Distinct(queue')
      /\ InQueue' \subseteq InQueue /\ o \notin InQueue'
  <2>1. /\ o \in Range(queue) /\ o \in Operation
        /\ queue' \in Seq(Operation) /\ Distinct(queue')
        /\ Range(queue) = Range(queue') \cup {o} /\ o \notin Range(queue')
    BY <1>1, <1>2, <1>3, TailFacts
  <2>2. ToSet(queue) = Range(queue) /\ ToSet(queue') = Range(queue')
    BY <1>3, <2>1, ToSetFacts
  <2>3. ToSet(kept) = {} /\ ToSet(kept') = {}
    BY <1>2, <1>3, NothingInEmpty
  <2> QED
    BY <2>1, <2>2, <2>3 DEF InQueue
<1>5. LoopTypeOK' /\ OneList'
  BY <1>2, <1>3, <1>4, NoneIsNone DEF LoopInv, LoopTypeOK, OneList
<1>6. QueuedIsThere'
  BY <1>2, <1>4 DEF LoopInv, QueuedIsThere, Changing
<1>7. HandIsWhere'
  BY <1>2, <1>4 DEF LoopInv, QueuedIsThere, HandIsWhere
<1>8. Confirmed'
  BY <1>2, <1>4 DEF LoopInv, QueuedIsThere, Confirmed, Changing
<1>9. CompletedState'
  BY <1>2, NoneIsNone DEF LoopInv, CompletedState
<1> QED
  BY <1>5, <1>6, <1>7, <1>8, <1>9 DEF LoopInv

LEMMA AppendNewKeeps ==
  ASSUME LoopInv, NEW o \in Operation, NEW forMe \in BOOLEAN, AppendNew(o, forMe)
  PROVE  LoopInv'
<1>2. /\ loop = "idle" /\ hand = None
      /\ queue' = Append(queue, o)
      /\ loop' = "changed" /\ hand' = o
      /\ o \notin InQueue /\ o \notin completed /\ o # pulled
      /\ UNCHANGED <<kept, pulled, completed, state, outcome, cancels, rewritten>>
  BY NoneIsNone DEF AppendNew, Takes, Begins, execution, record, Known, LoopInv, LoopTypeOK
<1>3. /\ queue \in Seq(Operation) /\ Distinct(queue) /\ kept = <<>>
  BY <1>2 DEF LoopInv, LoopTypeOK, OneList
<1>4. /\ queue' \in Seq(Operation) /\ Distinct(queue')
      /\ InQueue' = InQueue \cup {o}
  <2>1. o \notin Range(queue)
    BY <1>2, <1>3, ToSetFacts DEF InQueue
  <2>2. /\ queue' \in Seq(Operation) /\ Distinct(queue')
        /\ Range(queue') = Range(queue) \cup {o}
    BY <1>2, <1>3, <2>1, AppendFacts
  <2>3. ToSet(queue) = Range(queue) /\ ToSet(queue') = Range(queue')
    BY <1>3, <2>2, ToSetFacts
  <2>4. ToSet(kept) = {} /\ ToSet(kept') = {}
    BY <1>2, <1>3, NothingInEmpty
  <2> QED
    BY <2>2, <2>3, <2>4 DEF InQueue
<1>5. LoopTypeOK' /\ OneList'
  BY <1>2, <1>3, <1>4, NoneIsNone DEF LoopInv, LoopTypeOK, OneList
<1>6. QueuedIsThere'
  BY <1>2, <1>4 DEF LoopInv, QueuedIsThere, Changing
<1>7. HandIsWhere'
  BY <1>2, <1>4 DEF LoopInv, QueuedIsThere, HandIsWhere
<1>8. Confirmed'
  BY <1>2, <1>4 DEF LoopInv, QueuedIsThere, Confirmed, Changing
<1>9. CompletedState'
  BY <1>2, NoneIsNone DEF LoopInv, CompletedState
<1> QED
  BY <1>5, <1>6, <1>7, <1>8, <1>9 DEF LoopInv

LEMMA CancelQueuedKeeps ==
  ASSUME LoopInv, NEW o \in Operation, NEW forMe \in BOOLEAN, CancelQueued(o, forMe)
  PROVE  LoopInv'
<1>1. PICK i \in 1..Len(queue) : queue[i] = o /\ queue' = RemoveAt(queue, i)
  BY DEF CancelQueued
<1>2. /\ loop = "idle" /\ hand = None /\ pulled # o
      /\ loop' = "removed" /\ hand' = o
      /\ UNCHANGED <<kept, pulled, completed, state, outcome, cancels, rewritten>>
  BY DEF CancelQueued, Takes, Begins, execution, record, LoopInv, LoopTypeOK
<1>3. /\ queue \in Seq(Operation) /\ Distinct(queue) /\ kept = <<>>
  BY <1>2 DEF LoopInv, LoopTypeOK, OneList
<1>4. /\ o \in InQueue
      /\ queue' \in Seq(Operation) /\ Distinct(queue')
      /\ InQueue' = InQueue \ {o}
  <2>1. o \in Range(queue)
    BY <1>1, <1>3 DEF Range
  <2>2. /\ queue' \in Seq(Operation) /\ Distinct(queue')
        /\ Range(queue') = Range(queue) \ {o}
    BY <1>1, <1>3, RemoveAtFacts
  <2>3. ToSet(queue) = Range(queue) /\ ToSet(queue') = Range(queue')
    BY <1>3, <2>2, ToSetFacts
  <2>4. ToSet(kept) = {} /\ ToSet(kept') = {}
    BY <1>2, <1>3, NothingInEmpty
  <2> QED
    BY <2>1, <2>2, <2>3, <2>4 DEF InQueue
<1>5. LoopTypeOK' /\ OneList'
  BY <1>2, <1>3, <1>4, NoneIsNone DEF LoopInv, LoopTypeOK, OneList
<1>6. QueuedIsThere'
  BY <1>2, <1>4 DEF LoopInv, QueuedIsThere, Changing
<1>7. HandIsWhere'
  BY <1>2, <1>4 DEF LoopInv, QueuedIsThere, HandIsWhere
<1>8. Confirmed'
  BY <1>2, <1>4 DEF LoopInv, QueuedIsThere, Confirmed, Changing
<1>9. CompletedState'
  BY <1>2, NoneIsNone DEF LoopInv, CompletedState
<1> QED
  BY <1>5, <1>6, <1>7, <1>8, <1>9 DEF LoopInv

LEMMA SortKeeps ==
  ASSUME LoopInv, BeginSort \/ EndSort
  PROVE  LoopInv'
<1>1. /\ loop \in {"changed", "sorting"} /\ loop' \in {"sorting", "sorted"}
      /\ UNCHANGED <<hand, pulled, completed, state, outcome, cancels, rewritten>>
  BY DEF BeginSort, EndSort, execution, record
<1>2. /\ queue' \in Seq(Operation) /\ Distinct(queue')
      /\ kept' \in Seq(Operation) /\ Distinct(kept')
      /\ OneList' /\ InQueue' = InQueue
  <2>1. CASE BeginSort
    <3>1. /\ kept = <<>> /\ kept' = queue /\ queue' = <<>> /\ loop' = "sorting"
          /\ queue \in Seq(Operation) /\ Distinct(queue)
      BY <2>1 DEF BeginSort, LoopInv, LoopTypeOK, OneList
    <3>2. <<>> \in Seq(Operation) /\ Distinct(<<>>)
      BY DEF Distinct
    <3> QED
      BY <3>1, <3>2 DEF OneList, InQueue
  <2>2. CASE EndSort
    <3>1. /\ queue = <<>> /\ kept' = <<>> /\ loop' = "sorted"
          /\ kept \in Seq(Operation) /\ Distinct(kept)
      BY <2>2 DEF EndSort, LoopInv, LoopTypeOK, OneList
    <3>2. <<>> \in Seq(Operation) /\ Distinct(<<>>)
      BY DEF Distinct
    <3>3. queue' \in Seq(Operation) /\ Distinct(queue') /\ ToSet(queue') = ToSet(kept)
      BY <2>2, <3>1, SortFacts DEF EndSort
    <3> QED
      BY <3>1, <3>2, <3>3 DEF OneList, InQueue
  <2> QED
    BY <2>1, <2>2
<1>3. LoopTypeOK'
  BY <1>1, <1>2 DEF LoopInv, LoopTypeOK
<1>4. QueuedIsThere' /\ HandIsWhere' /\ Confirmed' /\ CompletedState'
  BY <1>1, <1>2
     DEF LoopInv, QueuedIsThere, HandIsWhere, Confirmed, CompletedState, Changing
<1> QED
  BY <1>2, <1>3, <1>4 DEF LoopInv

(* Pausing and resuming write states of operations that are under way.     *)
LEMMA SwitchesKeep ==
  ASSUME LoopInv, NEW forMe \in BOOLEAN,
         \/ \E o \in Operation, kind \in {"pause", "resume"} : Switch(kind, o, forMe)
         \/ PauseRuntime(forMe)
  PROVE  LoopInv'
<1>1. /\ UNCHANGED <<queue, kept, pulled, completed, outcome, loop, hand, cancels, rewritten>>
      /\ state' \in [Operation -> ExecutionState]
      /\ \A o \in Operation : state'[o] = "COMPLETED" => state[o] = "COMPLETED"
  <2>1. ASSUME NEW o \in Operation, NEW kind \in {"pause", "resume"}, Switch(kind, o, forMe)
        PROVE  <1>1!:
    BY <2>1 DEF Switch, To, buckets, work, record, LoopInv, LoopTypeOK
  <2>2. CASE PauseRuntime(forMe)
    BY <2>2 DEF PauseRuntime, Done, buckets, work, record, LoopInv, LoopTypeOK
  <2> QED
    BY <2>1, <2>2
<1>2. InQueue' = InQueue /\ (Changing' <=> Changing)
  BY <1>1 DEF InQueue, Changing
<1> QED
  BY <1>1, <1>2
     DEF LoopInv, LoopTypeOK, OneList, QueuedIsThere, HandIsWhere, Confirmed, CompletedState

LEMMA LoopInvHolds ==
  ASSUME Init
  PROVE  LoopInv
<1>1. queue \in Seq(Operation) /\ Distinct(queue) /\ kept \in Seq(Operation) /\ Distinct(kept)
  BY DEF Init, Distinct
<1>2. InQueue = {}
  BY NothingInEmpty DEF Init, InQueue
<1>3. LoopTypeOK /\ OneList
  BY <1>1 DEF Init, LoopTypeOK, OneList
<1>4. QueuedIsThere /\ HandIsWhere /\ Confirmed /\ CompletedState
  BY <1>2 DEF Init, QueuedIsThere, HandIsWhere, Confirmed, CompletedState
<1> QED
  BY <1>3, <1>4 DEF LoopInv

LEMMA LoopInvKept ==
  ASSUME LoopInv, [Next]_vars
  PROVE  LoopInv'
<1>1. CASE TakeHead
  BY <1>1, TakeHeadKeeps
<1>2. CASE Finish
  BY <1>2, LoopKeepsLists DEF Finish, buckets
<1>3. CASE LoopStep
  <2>1. CASE BeginSort \/ EndSort
    BY <2>1, SortKeeps
  <2>2. CASE Assign \/ SetRunning \/ Archive \/ EmptySlot \/ SetCancelled \/ ReplaceList
    <3>1. UNCHANGED <<queue, kept>>
      BY <2>2 DEF Assign, SetRunning, Archive, EmptySlot, SetCancelled, ReplaceList, buckets
    <3> QED
      BY <2>2, <3>1, LoopKeepsLists
  <2> QED
    BY <1>3, <2>1, <2>2 DEF LoopStep
<1>4. ASSUME NEW forMe \in BOOLEAN, Serve(forMe)
      PROVE  LoopInv'
  <2>1. ASSUME NEW o \in Operation, CancelActive(o, forMe) \/ Update(o, forMe)
        PROVE  LoopInv'
    <3>1. UNCHANGED <<queue, kept>>
      BY <2>1 DEF CancelActive, Update, buckets
    <3> QED
      BY <2>1, <3>1, LoopKeepsLists
  <2>2. ASSUME NEW o \in Operation, CancelQueued(o, forMe)
        PROVE  LoopInv'
    BY <2>2, CancelQueuedKeeps
  <2>3. ASSUME NEW o \in Operation, AppendNew(o, forMe)
        PROVE  LoopInv'
    BY <2>3, AppendNewKeeps
  <2>4. ASSUME NEW o \in Operation, NEW kind \in {"pause", "resume"},
               \/ DenyCancel(o, forMe) \/ UpdateNothing(o, forMe) \/ RefuseUpdate(o, forMe)
               \/ RefuseSwitch(kind, o, forMe)
        PROVE  LoopInv'
    BY <2>4, LoopUnchanged
       DEF DenyCancel, UpdateNothing, RefuseUpdate, RefuseSwitch, Done, loopVars
  <2>5. ASSUME NEW o \in Operation, NEW kind \in {"pause", "resume"}, Switch(kind, o, forMe)
        PROVE  LoopInv'
    BY <2>5, SwitchesKeep
  <2>6. CASE PauseRuntime(forMe)
    BY <2>6, SwitchesKeep
  <2>7. CASE ResumeRuntime(forMe)
    <3>1. UNCHANGED <<queue, kept, pulled, completed, state, outcome, loop, hand, cancels,
                      rewritten>>
      BY <2>7 DEF ResumeRuntime, Done, buckets, work, record
    <3>2. InQueue' = InQueue /\ (Changing' <=> Changing)
      BY <3>1 DEF InQueue, Changing
    <3> QED
      BY <3>1, <3>2
         DEF LoopInv, LoopTypeOK, OneList, QueuedIsThere, HandIsWhere, Confirmed, CompletedState
  <2> QED
    BY <1>4, <2>1, <2>2, <2>3, <2>4, <2>5, <2>6, <2>7 DEF Serve
<1>5. CASE NewRequest \/ HandlerStep \/ UNCHANGED vars
  BY <1>5, LoopUnchanged
     DEF NewRequest, HandlerStep, vars, loopVars, buckets, execution, work, record
<1> QED
  BY <1>1, <1>2, <1>3, <1>4, <1>5 DEF Next
-----------------------------------------------------------------------------
(* A handler and the loop. A step of the loop leaves a handler where it is,*)
(* answers it, or sends it to look again.                                  *)

Quiet ==
  /\ UNCHANGED <<request, pc, current, answer>>
  /\ mine' \in BOOLEAN
  /\ mine' => pc = "asked" /\ loop' # "idle"

Answered ==
  /\ pc = "asked" /\ pc' = "answered"
  /\ answer'[1] # 500
  /\ answer'[1] = 404 => request[2] \notin Known /\ buckets' = buckets
  /\ UNCHANGED request
  /\ mine' = FALSE

SentBack ==
  /\ pc = "asked" /\ pc' = "begin"
  /\ request[1] \in {"pause", "resume"}
  /\ UNCHANGED request
  /\ mine' = FALSE

(* What is active and has not ended has not ended before, where no update  *)
(* wrote its state.                                                        *)
Lasting ==
  \A o \in Operation :
    pulled = o /\ pulled' = o /\ o \notin rewritten' /\ state'[o] # "COMPLETED"
      => o \notin rewritten /\ state[o] # "COMPLETED"

LEMMA PlaceFacts ==
  ASSUME NEW o \in Operation
  PROVE  /\ Place(o) = "active" <=> pulled = o
         /\ Place(o) = "archived" => o \in completed
         /\ Place(o) \in {"active", "archived"} => o \in Known
<1>1. o # None
  BY NoneIsNone
<1> QED
  BY <1>1 DEF Place, Known

LEMMA ActiveHasNotEnded ==
  ASSUME LoopInv, pulled \in Operation, pulled \notin rewritten, loop \in {"idle", "pulled"}
  PROVE  state[pulled] # "COMPLETED"
BY NoneIsNone DEF LoopInv, LoopTypeOK, HandIsWhere, CompletedState

LEMMA LoopAndHandler ==
  ASSUME LoopInv, Control,
         TakeHead \/ Finish \/ LoopStep \/ \E forMe \in BOOLEAN : Serve(forMe)
  PROVE  (Quiet \/ Answered \/ SentBack) /\ Lasting
<1> USE DEF Control, Begins, Takes, handler, record, Lasting
<1>1. CASE TakeHead
  BY <1>1 DEF TakeHead, Quiet, execution
<1>2. CASE Finish
  <2>1. Quiet
    BY <1>2 DEF Finish, Quiet
  <2>2. pulled \in Operation /\ state' = [state EXCEPT ![pulled] = "COMPLETED"]
    BY <1>2 DEF Finish, LoopInv, LoopTypeOK
  <2>3. Lasting
    BY <2>2 DEF LoopInv, LoopTypeOK
  <2> QED
    BY <2>1, <2>3
<1>3. CASE LoopStep
  <2>1. CASE Assign \/ Archive \/ BeginSort \/ EndSort
    <3>1. Quiet
      BY <2>1 DEF Assign, Archive, BeginSort, EndSort, Quiet
    <3>2. UNCHANGED <<state, rewritten>>
      BY <2>1 DEF Assign, Archive, BeginSort, EndSort, execution
    <3> QED
      BY <3>1, <3>2
  <2>2. CASE SetRunning
    <3>1. Quiet
      BY <2>2 DEF SetRunning, LoopRests, Quiet
    <3>2. UNCHANGED rewritten /\ hand = pulled /\ loop = "pulled"
      BY <2>2 DEF SetRunning, LoopInv, HandIsWhere
    <3>3. \A o \in Operation : o # hand => state'[o] = state[o]
      BY <2>2 DEF SetRunning, LoopInv, LoopTypeOK
    <3>4. Lasting
      BY <3>2, <3>3, ActiveHasNotEnded
    <3> QED
      BY <3>1, <3>4
  <2>3. CASE EmptySlot
    <3>1. Quiet
      BY <2>3 DEF EmptySlot, LoopRests, Quiet
    <3>2. UNCHANGED <<state, rewritten>>
      BY <2>3 DEF EmptySlot, execution
    <3> QED
      BY <3>1, <3>2
  <2>4. CASE SetCancelled
    <3>1. Quiet \/ Answered
      <4>1. CASE mine
        BY <2>4, <4>1 DEF SetCancelled, LoopRests, Replies, Ends, frame, Answered
      <4>2. CASE ~mine
        BY <2>4, <4>2 DEF SetCancelled, LoopRests, Replies, frame, Quiet
      <4> QED
        BY <4>1, <4>2
    <3>2. /\ hand \in Operation /\ hand # pulled
          /\ state' = [state EXCEPT ![hand] = "COMPLETED"]
          /\ rewritten' = rewritten \ {hand}
      BY <2>4, NoneIsNone DEF SetCancelled, LoopInv, LoopTypeOK, HandIsWhere
    <3>3. Lasting
      BY <3>2 DEF LoopInv, LoopTypeOK
    <3> QED
      BY <3>1, <3>3
  <2>5. CASE ReplaceList
    <3>1. Quiet \/ Answered
      <4>1. CASE mine
        BY <2>5, <4>1 DEF ReplaceList, LoopRests, Replies, Ends, Answered
      <4>2. CASE ~mine
        BY <2>5, <4>2 DEF ReplaceList, LoopRests, Replies, Quiet
      <4> QED
        BY <4>1, <4>2
    <3>2. UNCHANGED <<state, rewritten>>
      BY <2>5 DEF ReplaceList, execution
    <3> QED
      BY <3>1, <3>2
  <2> QED
    BY <1>3, <2>1, <2>2, <2>3, <2>4, <2>5 DEF LoopStep
<1>4. ASSUME NEW forMe \in BOOLEAN, Serve(forMe)
      PROVE  (Quiet \/ Answered \/ SentBack) /\ Lasting
  <2>1. ASSUME NEW o \in Operation,
               CancelActive(o, forMe) \/ CancelQueued(o, forMe) \/ AppendNew(o, forMe)
        PROVE  Quiet /\ Lasting
    <3>1. Quiet
      BY <2>1 DEF CancelActive, CancelQueued, AppendNew, Quiet
    <3>2. UNCHANGED <<state, rewritten>>
      BY <2>1 DEF CancelActive, CancelQueued, AppendNew, execution
    <3> QED
      BY <3>1, <3>2
  <2>2. ASSUME NEW o \in Operation, NEW kind \in {"pause", "resume"},
               DenyCancel(o, forMe) \/ UpdateNothing(o, forMe) \/ RefuseSwitch(kind, o, forMe)
        PROVE  (Quiet \/ Answered) /\ Lasting
    <3>1. Quiet \/ Answered
      BY <2>2
         DEF DenyCancel, UpdateNothing, RefuseSwitch, Done, Ends, work, frame, Quiet, Answered
    <3>2. UNCHANGED <<state, rewritten>>
      BY <2>2 DEF DenyCancel, UpdateNothing, RefuseSwitch, execution
    <3> QED
      BY <3>1, <3>2
  <2>3. ASSUME NEW o \in Operation, RefuseUpdate(o, forMe)
        PROVE  (Quiet \/ Answered) /\ Lasting
    <3>1. UNCHANGED <<state, rewritten>> /\ buckets' = buckets
      BY <2>3 DEF RefuseUpdate, execution
    <3>2. CASE forMe
      BY <2>3, <3>1, <3>2 DEF RefuseUpdate, Done, Ends, work, frame, Answered
    <3>3. CASE ~forMe
      <4>1. Done(forMe, 400, {}) \/ Done(forMe, 404, {}) \/ Done(forMe, 409, {})
        BY <2>3 DEF RefuseUpdate
      <4> QED
        BY <3>1, <3>3, <4>1 DEF Done, work, frame, Quiet
    <3> QED
      BY <3>1, <3>2, <3>3
  <2>4. ASSUME NEW o \in Operation, NEW kind \in {"pause", "resume"}, Switch(kind, o, forMe)
        PROVE  (Quiet \/ SentBack) /\ Lasting
    <3>1. Quiet \/ SentBack
      BY <2>4 DEF Switch, work, frame, Quiet, SentBack
    <3>2. pulled = o /\ state[o] # "COMPLETED" /\ UNCHANGED rewritten
      BY <2>4 DEF Switch, From
    <3> QED
      BY <3>1, <3>2
  <2>5. CASE PauseRuntime(forMe)
    <3>1. Quiet \/ Answered
      BY <2>5 DEF PauseRuntime, Done, Ends, work, frame, Quiet, Answered
    <3>2. /\ UNCHANGED <<pulled, rewritten>> /\ loop = "idle"
          /\ \A o \in Operation : o # pulled => state'[o] = state[o]
      BY <2>5 DEF PauseRuntime, buckets
    <3>3. Lasting
      BY <3>2, ActiveHasNotEnded
    <3> QED
      BY <3>1, <3>3
  <2>6. CASE ResumeRuntime(forMe)
    <3>1. Quiet \/ Answered
      BY <2>6 DEF ResumeRuntime, Done, Ends, work, frame, Quiet, Answered
    <3>2. UNCHANGED <<state, rewritten>>
      BY <2>6 DEF ResumeRuntime
    <3> QED
      BY <3>1, <3>2
  <2>7. ASSUME NEW o \in Operation, Update(o, forMe)
        PROVE  Quiet /\ Lasting
    <3>1. Quiet
      BY <2>7 DEF Update, Quiet
    <3>2. rewritten' = rewritten \cup {o} \/ UNCHANGED <<state, rewritten>>
      BY <2>7 DEF Update
    <3>3. \A x \in Operation : x # o => state'[x] = state[x]
      BY <2>7, APIAssumption DEF Update, LoopInv, LoopTypeOK
    <3> QED
      BY <3>1, <3>2, <3>3
  <2> QED
    BY <1>4, <2>1, <2>2, <2>3, <2>4, <2>5, <2>6, <2>7 DEF Serve
<1> QED
  BY <1>1, <1>2, <1>3, <1>4
-----------------------------------------------------------------------------
(* Observe: a lookup begins anew, or what is still steady was before.      *)
LEMMA ObserveFacts ==
  ASSUME Observe
  PROVE  /\ \A o \in steady' : o \in Operation \/ o \in steady
         /\ ~(pc' \in {"begin", "listing"} /\ pc' # pc) =>
              \A o \in steady' : o \in steady /\ Place(o)' = Place(o)
         /\ pc' \in {"begin", "listing"} /\ pc' # pc =>
              \A o \in steady' : o \in Operation /\ Place(o)' \in {"active", "archived"}
  BY DEF Observe

LEMMA SteadyStays ==
  ASSUME SteadyIsThere, Observe
  PROVE  SteadyIsThere'
  BY ObserveFacts DEF SteadyIsThere

LEMMA SlotOfSteady ==
  ASSUME SteadyIsThere, Observe, ~(pc' \in {"begin", "listing"} /\ pc' # pc),
         NEW o \in steady'
  PROVE  o \in steady /\ o \in Operation /\ Place(o)' = Place(o) /\ (pulled' = o <=> pulled = o)
<1>1. o \in steady /\ Place(o)' = Place(o)
  BY ObserveFacts
<1>2. o \in Operation
  BY <1>1 DEF SteadyIsThere
<1>3. Place(o)' = "active" <=> pulled' = o
  BY <1>2, NoneIsNone DEF Place
<1> QED
  BY <1>1, <1>2, <1>3, PlaceFacts

LEMMA ReaderKeptByLoop ==
  ASSUME ReaderInv, Lasting, Observe, Quiet \/ Answered \/ SentBack
  PROVE  ReaderInv'
<1>1. Control /\ SteadyIsThere /\ SteadyIsThere'
  BY SteadyStays DEF ReaderInv
<1>2. CASE Quiet
  <2>1. Control'
    BY <1>1, <1>2 DEF Control, Quiet
  <2>2. \A o \in steady' :
          o \in steady /\ o \in Operation /\ Place(o)' = Place(o) /\ (pulled' = o <=> pulled = o)
    BY <1>1, <1>2, SlotOfSteady DEF Quiet
  <2>3. TargetIsAhead'
    BY <1>2, <2>2 DEF ReaderInv, TargetIsAhead, Quiet
  <2>4. SlotIsCopied'
    BY <1>2, <2>2 DEF ReaderInv, SlotIsCopied, Quiet
  <2>5. SteadyIsNotMissed'
    <3>1. UNCHANGED <<request, pc, answer>>
      BY <1>2 DEF Quiet
    <3>2. ASSUME pc = "answered", request[2] \in steady'
          PROVE  /\ answer[1] # 404
                 /\ answer[1] = 500 => Place(request[2])' = "archived"
                 /\ request[1] = "get" => answer[1] = 500 \/ answer = <<200, {request[2]}>>
      BY <2>2, <3>1, <3>2 DEF ReaderInv, SteadyIsNotMissed
    <3>3. ASSUME pc = "answered", request[1] = "list", NEW o \in steady' \ rewritten',
                 Place(o)' = "active", state'[o] # "COMPLETED"
          PROVE  o \in answer[2]
      <4>1. o \in steady /\ o \in Operation /\ Place(o) = "active"
        BY <2>2, <3>3
      <4>2. pulled = o /\ pulled' = o
        BY <2>2, <3>3, <4>1, PlaceFacts
      <4>3. o \notin rewritten /\ state[o] # "COMPLETED"
        BY <3>3, <4>1, <4>2 DEF Lasting
      <4> QED
        BY <3>3, <4>1, <4>3 DEF ReaderInv, SteadyIsNotMissed
    <3> QED
      BY <3>1, <3>2, <3>3 DEF SteadyIsNotMissed
  <2> QED
    BY <1>1, <2>1, <2>3, <2>4, <2>5 DEF ReaderInv
<1>3. CASE Answered
  <2>1. Control'
    BY <1>1, <1>3 DEF Control, Answered
  <2>2. TargetIsAhead' /\ SlotIsCopied'
    BY <1>3 DEF TargetIsAhead, SlotIsCopied, Answered
  <2>3. SteadyIsNotMissed'
    <3>1. request'[1] \notin {"list", "get"} /\ answer'[1] # 500
      BY <1>1, <1>3 DEF Control, Answered
    <3>2. ASSUME answer'[1] = 404 /\ request'[2] \in steady'
          PROVE  FALSE
      <4>1. request'[2] = request[2] /\ request[2] \notin Known
        BY <1>3, <3>2 DEF Answered
      <4>2. request[2] \in steady
        BY <1>1, <1>3, <3>2, <4>1, SlotOfSteady DEF Answered
      <4> QED
        BY <1>1, <4>1, <4>2, PlaceFacts DEF SteadyIsThere
    <3> QED
      BY <3>1, <3>2 DEF SteadyIsNotMissed
  <2> QED
    BY <1>1, <2>1, <2>2, <2>3 DEF ReaderInv
<1>4. CASE SentBack
  <2>1. Control'
    BY <1>1, <1>4 DEF Control, SentBack, Lookups
  <2>2. TargetIsAhead' /\ SlotIsCopied' /\ SteadyIsNotMissed'
    BY <1>4 DEF TargetIsAhead, SlotIsCopied, SteadyIsNotMissed, SentBack
  <2> QED
    BY <1>1, <2>1, <2>2 DEF ReaderInv
<1> QED
  BY <1>2, <1>3, <1>4
-----------------------------------------------------------------------------
(* What a handler does, as far as its answer depends on it.                *)

LEMMA FoundFacts ==
  ASSUME NEW o, Found(o), request[1] \in Lookups
  PROVE  /\ pc' \in {"answered", "asked"}
         /\ pc' = "answered" => answer'[1] \in {200, 409}
         /\ request[1] = "get" => pc' = "answered" /\ answer' = <<200, {o}>>
  BY DEF Found, Ends, Goes

LEMMA ReaderKeptByHandler ==
  ASSUME ReaderInv, Observe, NewRequest \/ HandlerStep
  PROVE  ReaderInv'
<1>1. /\ Control /\ SteadyIsThere /\ SteadyIsThere'
      /\ UNCHANGED <<buckets, execution, work, record>>
  BY SteadyStays DEF ReaderInv, NewRequest, HandlerStep
<1>2. UNCHANGED <<pulled, completed, state, queue, loop, mine, rewritten>>
  BY <1>1 DEF buckets, execution, work, record
<1>3. ~(pc' \in {"begin", "listing"} /\ pc' # pc) =>
        \A o \in steady' :
          o \in steady /\ o \in Operation /\ Place(o)' = Place(o) /\ (pulled' = o <=> pulled = o)
  BY <1>1, SlotOfSteady
(* A step to another place, that does not answer.                          *)
<1>4. ASSUME Control', TargetIsAhead', SlotIsCopied', SteadyIsNotMissed'
      PROVE  ReaderInv'
  BY <1>1, <1>4 DEF ReaderInv
<1>5. CASE NewRequest
  <2>1. CASE RefuseRequest
    <3>1. pc = "idle" /\ pc' = "answered" /\ request' = NoRequest /\ answer'[1] = 400
      BY <1>1, <2>1 DEF RefuseRequest, Ends, frame, Control
    <3> QED
      BY <1>1, <1>2, <1>4, <3>1
         DEF Control, TargetIsAhead, SlotIsCopied, SteadyIsNotMissed, NoRequest
  <2>2. ASSUME NEW o \in Operation, NEW kind \in Lookups \cup {"add"}, Receive(kind, o)
        PROVE  ReaderInv'
    <3>1. /\ pc = "idle" /\ request' = <<kind, o>>
          /\ pc' = IF kind \in Lookups THEN "begin" ELSE "asked"
      BY <2>2 DEF Receive, Goes, Lookups
    <3> QED
      BY <1>1, <1>2, <1>4, <3>1
         DEF Control, TargetIsAhead, SlotIsCopied, SteadyIsNotMissed, Lookups
  <2>3. ASSUME NEW kind \in {"list", "current", "pause_runtime", "resume_runtime"},
               Receive(kind, None)
        PROVE  ReaderInv'
    <3>1. /\ pc = "idle" /\ request' = <<kind, None>>
          /\ pc' = IF kind \in {"list", "current"} THEN "listing" ELSE "checking"
      BY <2>3 DEF Receive, Goes, Lookups
    <3> QED
      BY <1>1, <1>2, <1>4, <3>1
         DEF Control, TargetIsAhead, SlotIsCopied, SteadyIsNotMissed
  <2> QED
    BY <1>5, <2>1, <2>2, <2>3 DEF NewRequest
<1>6. CASE ReadSlot
  <2>1. /\ pc = "begin" /\ pc' \in {"scanning", "comparing"} /\ UNCHANGED request
        /\ pc' = "scanning" => pulled = None
    BY <1>6 DEF ReadSlot, Goes, frame
  <2>2. TargetIsAhead'
    BY <1>1, <1>3, <2>1, NoneIsNone, PlaceFacts DEF TargetIsAhead, SteadyIsThere
  <2> QED
    BY <1>1, <1>2, <1>4, <2>1, <2>2 DEF Control, SlotIsCopied, SteadyIsNotMissed
<1>7. CASE CompareSlot
  <2>1. /\ pc = "comparing" /\ UNCHANGED request
        /\ \/ pc' = "answered" /\ answer'[1] = 500 /\ pulled = None
           \/ pc' = "returning" /\ pulled = request[2]
           \/ pc' = "scanning" /\ pulled # request[2]
    BY <1>7 DEF CompareSlot, Goes, Ends, frame
  <2>2. TargetIsAhead'
    BY <1>1, <1>3, <2>1, PlaceFacts DEF TargetIsAhead, SteadyIsThere
  <2>3. Control' /\ SlotIsCopied'
    BY <1>1, <1>2, <2>1 DEF Control, SlotIsCopied
  <2>4. SteadyIsNotMissed'
    <3>1. ASSUME pc' = "answered", request'[2] \in steady'
          PROVE  Place(request[2])' = "archived"
      <4>1. /\ request[2] \in steady /\ request[2] \in Operation /\ pulled = None
            /\ Place(request[2])' = Place(request[2])
        BY <1>3, <2>1, <3>1
      <4>2. Place(request[2]) \in {"active", "archived"} /\ Place(request[2]) # "active"
        BY <1>1, <4>1, NoneIsNone, PlaceFacts DEF SteadyIsThere
      <4> QED
        BY <4>1, <4>2
    <3> QED
      BY <1>1, <2>1, <3>1 DEF Control, SteadyIsNotMissed, Lookups
  <2> QED
    BY <1>4, <2>2, <2>3, <2>4
<1>8. ASSUME pc \in {"returning", "scanning"}, UNCHANGED request,
             pc' \in {"answered", "asked"},
             pc' = "answered" => answer'[1] \in {200, 404, 409},
             request[2] \in steady => answer'[1] # 404 \/ pc' # "answered",
             request[1] = "get" =>
               pc' = "answered" /\ (request[2] \in steady => answer' = <<200, {request[2]}>>)
      PROVE  ReaderInv'
  <2>1. Control' /\ TargetIsAhead' /\ SlotIsCopied'
    BY <1>1, <1>2, <1>8 DEF Control, TargetIsAhead, SlotIsCopied, Lookups
  <2>2. SteadyIsNotMissed'
    BY <1>1, <1>3, <1>8 DEF Control, SteadyIsNotMissed, Lookups
  <2> QED
    BY <1>4, <2>1, <2>2
<1>8a. ASSUME pc \in {"returning", "scanning"}, UNCHANGED request, request[1] \in Lookups,
              NEW o, Found(o), request[2] \in steady => o = request[2]
       PROVE  ReaderInv'
  <2>1. /\ pc' \in {"answered", "asked"}
        /\ pc' = "answered" => answer'[1] \in {200, 409}
        /\ request[1] = "get" => pc' = "answered" /\ answer' = <<200, {o}>>
    BY <1>8a, FoundFacts
  <2>2. request[2] \in steady => answer'[1] # 404 \/ pc' # "answered"
    BY <2>1
  <2>3. request[1] = "get" =>
          pc' = "answered" /\ (request[2] \in steady => answer' = <<200, {request[2]}>>)
    BY <1>8a, <2>1
  <2>4. pc' = "answered" => answer'[1] \in {200, 404, 409}
    BY <2>1
  <2> QED
    BY <1>8, <1>8a, <2>1, <2>2, <2>3, <2>4
<1>9. CASE ReturnSlot
  <2>1. pc = "returning" /\ UNCHANGED request /\ request[1] \in Lookups
    BY <1>1, <1>9 DEF ReturnSlot, Returned, Control
  <2>2. CASE pulled = None
    <3>1. pc' = "answered" /\ answer'[1] = 404 /\ request[2] \notin steady
      <4>1. pc' = "answered" /\ answer'[1] = 404
        BY <1>9, <2>2 DEF ReturnSlot, Missing, Ends
      <4>2. request[2] \notin steady
        BY <1>1, <2>1, <2>2, NoneIsNone, PlaceFacts DEF ReaderInv, TargetIsAhead, SteadyIsThere
      <4> QED
        BY <4>1, <4>2
    <3> QED
      BY <1>8, <2>1, <3>1
  <2>3. CASE pulled # None
    <3>1. Found(pulled)
      BY <1>9, <2>3 DEF ReturnSlot
    <3>2. request[2] \in steady => pulled = request[2]
      BY <1>1, <2>1, PlaceFacts DEF ReaderInv, TargetIsAhead, SteadyIsThere
    <3> QED
      BY <1>8a, <2>1, <3>1, <3>2
  <2> QED
    BY <2>2, <2>3
<1>10. CASE ScanNext
  <2>1. pc = "scanning" /\ UNCHANGED request /\ request[1] \in Lookups
    BY <1>1, <1>10 DEF ScanNext, Returned, Control
  <2>2. CASE Iterated[cursor] = request[2]
    <3>1. Found(request[2])
      BY <1>10, <2>2 DEF ScanNext
    <3> QED
      BY <1>8a, <2>1, <3>1
  <2>3. CASE Iterated[cursor] # request[2]
    <3>1. UNCHANGED <<pc, answer>>
      BY <1>10, <2>3 DEF ScanNext
    <3>2. TargetIsAhead'
      BY <1>3, <2>1, <3>1 DEF ReaderInv, TargetIsAhead
    <3> QED
      BY <1>1, <1>2, <1>4, <2>1, <3>1, <3>2 DEF Control, SlotIsCopied, SteadyIsNotMissed
  <2> QED
    BY <2>2, <2>3
<1>11. CASE SearchArchive
  <2>1. pc = "scanning" /\ UNCHANGED request /\ request[1] \in Lookups
    BY <1>1, <1>11 DEF SearchArchive, Returned, Control
  <2>2. CASE request[2] \in completed
    <3>1. Found(request[2])
      BY <1>11, <2>2 DEF SearchArchive
    <3> QED
      BY <1>8a, <2>1, <3>1
  <2>3. CASE request[2] \notin completed
    <3>1. pc' = "answered" /\ answer'[1] = 404
      BY <1>11, <2>3 DEF SearchArchive, Missing, Ends
    <3>2. request[2] \notin steady
      BY <1>1, <2>1, <2>3, PlaceFacts DEF ReaderInv, TargetIsAhead, SteadyIsThere
    <3> QED
      BY <1>8, <2>1, <3>1, <3>2
  <2> QED
    BY <2>2, <2>3
<1>12. CASE ListSlot
  <2>1. /\ pc = "listing" /\ UNCHANGED request /\ current' = pulled
        /\ pc' = IF request[1] = "list" THEN "copying" ELSE "showing"
    BY <1>12 DEF ListSlot, Goes
  <2>2. SlotIsCopied'
    BY <1>2, <2>1 DEF SlotIsCopied
  <2> QED
    BY <1>1, <1>2, <1>4, <2>1, <2>2 DEF Control, TargetIsAhead, SteadyIsNotMissed
<1>13. CASE ListQueue
  <2>1. /\ pc = "copying" /\ pc' = "answered" /\ UNCHANGED request /\ request[1] = "list"
        /\ answer'[1] = 200
        /\ answer'[2] = {o \in ({current} \ {None}) \cup ToSet(queue) : state[o] # "COMPLETED"}
    BY <1>1, <1>13 DEF ListQueue, Ends, frame, Control
  <2>2. SteadyIsNotMissed'
    <3>1. ASSUME NEW o \in steady', Place(o)' = "active", state'[o] # "COMPLETED"
          PROVE  o \in answer'[2]
      <4>1. o \in steady /\ o \in Operation /\ pulled = o
        BY <1>3, <2>1, <3>1, PlaceFacts
      <4>2. current = o /\ o # None
        BY <2>1, <4>1, NoneIsNone DEF ReaderInv, SlotIsCopied
      <4> QED
        BY <1>2, <2>1, <3>1, <4>2
    <3> QED
      BY <2>1, <3>1 DEF SteadyIsNotMissed
  <2> QED
    BY <1>1, <1>2, <1>4, <2>1, <2>2 DEF Control, TargetIsAhead, SlotIsCopied
<1>14. CASE ShowCurrent
  <2>1. /\ pc = "showing" /\ pc' = "answered" /\ UNCHANGED request
        /\ request[1] = "current" /\ request[2] = None
    BY <1>1, <1>14 DEF ShowCurrent, Ends, frame, Control
  <2>2. None \notin steady'
    BY <1>1, NoneIsNone DEF SteadyIsThere
  <2> QED
    BY <1>1, <1>2, <1>4, <2>1, <2>2 DEF Control, TargetIsAhead, SlotIsCopied, SteadyIsNotMissed
<1>15. CASE CheckPaused
  <2>1. /\ pc = "checking" /\ UNCHANGED request /\ request[1] \notin {"list", "current"}
        /\ \/ pc' = "answered" /\ answer'[1] = 200
           \/ pc' = "asked"
    BY <1>1, <1>15 DEF CheckPaused, Ends, Goes, frame, Control
  <2> QED
    BY <1>1, <1>2, <1>4, <2>1 DEF Control, TargetIsAhead, SlotIsCopied, SteadyIsNotMissed
<1>16. CASE Respond
  <2>1. pc = "answered" /\ pc' = "idle" /\ request' = NoRequest
    BY <1>16 DEF Respond
  <2> QED
    BY <1>1, <1>2, <1>4, <2>1
       DEF Control, TargetIsAhead, SlotIsCopied, SteadyIsNotMissed, NoRequest
<1> QED
  BY <1>5, <1>6, <1>7, <1>9, <1>10, <1>11, <1>12, <1>13, <1>14, <1>15, <1>16
     DEF HandlerStep, Lookup
-----------------------------------------------------------------------------
LEMMA InvHolds == Init => Inv
<1> SUFFICES ASSUME Init PROVE Inv
  OBVIOUS
<1>1. LoopInv
  BY LoopInvHolds
<1>2. ReaderInv
  BY DEF Init, ReaderInv, Control, SteadyIsThere, TargetIsAhead, SlotIsCopied, SteadyIsNotMissed,
         NoRequest
<1> QED
  BY <1>1, <1>2 DEF Inv

LEMMA InvKept == Inv /\ [Next]_vars => Inv'
<1> SUFFICES ASSUME Inv, [Next]_vars PROVE Inv'
  OBVIOUS
<1>1. LoopInv /\ ReaderInv /\ Control
  BY DEF Inv, ReaderInv
<1>2. LoopInv'
  BY <1>1, LoopInvKept
<1>3. ReaderInv'
  <2>1. CASE Observe /\ (NewRequest \/ HandlerStep)
    BY <1>1, <2>1, ReaderKeptByHandler
  <2>2. CASE Observe /\ (TakeHead \/ Finish \/ LoopStep \/ \E forMe \in BOOLEAN : Serve(forMe))
    BY <1>1, <2>2, LoopAndHandler, ReaderKeptByLoop
  <2>3. CASE UNCHANGED vars
    <3>1. \A o : Place(o)' = Place(o)
      BY <2>3 DEF vars, Place, InQueue
    <3> QED
      BY <1>1, <2>3, <3>1
         DEF ReaderInv, Control, SteadyIsThere, TargetIsAhead, SlotIsCopied, SteadyIsNotMissed, vars
  <2> QED
    BY <2>1, <2>2, <2>3 DEF Next
<1> QED
  BY <1>2, <1>3 DEF Inv

THEOREM Invariance == Spec => []Inv
  BY InvHolds, InvKept, PTL DEF Spec

(* Whatever callers ask of the loop and whenever a step of another thread  *)
(* falls between two of its own, a cancellation is confirmed at most once, *)
(* and the confirmed operation is archived for good, as cancelled until an *)
(* update writes something else to it, whatever states and outcomes        *)
(* updates may write (operation_dispatcher_openapi.py:399-421,             *)
(* operation_lifecycle_service.py:343-345).                                *)
THEOREM ConfirmedCancellations == Spec => []CancelledOnce
<1>1. Inv => CancelledOnce
  <2> SUFFICES ASSUME Inv, NEW o \in Operation
               PROVE  /\ cancels[o] <= 1
                      /\ cancels[o] = 1 => /\ Place(o) = "archived"
                                           /\ outcome[o] = "CANCELLED" \/ o \in rewritten
    BY DEF CancelledOnce
  <2> QED
    BY DEF Inv, LoopInv, QueuedIsThere, Confirmed, Place
<1> QED
  BY <1>1, Invariance, PTL

(* A lookup that runs while the loop works finds what was active all the   *)
(* time and never says that what was archived all the time is unknown: it  *)
(* returns it or fails, at the slot that was emptied between two reads;    *)
(* for any number of operations and any interleaving                       *)
(* (dispatch_queue.py:92-105).                                             *)
THEOREM LookupsMissNothingSteady == Spec => []SteadyIsNotMissed
<1>1. Inv => SteadyIsNotMissed
  BY DEF Inv, ReaderInv
<1> QED
  BY <1>1, Invariance, PTL
-----------------------------------------------------------------------------
(* The types of what the handler holds.                                    *)

AnswerOK ==
  /\ answer[1] \in {0, 200, 201, 400, 404, 409, 500}
  /\ answer[2] \subseteq Operation

HeldOK ==
  /\ cursor \in Nat \ {0}
  /\ current \in Operation \cup {None}
  /\ request[1] \in Lookups => request[2] \in Operation

Shapes == is_paused \in BOOLEAN /\ HeldOK /\ AnswerOK

LEMMA EndsOK ==
  ASSUME NEW code \in {0, 200, 201, 400, 404, 409, 500}, NEW shown \in SUBSET Operation,
         Ends(code, shown)
  PROVE  AnswerOK'
  BY DEF Ends, AnswerOK

LEMMA ShapesKeptByLoop ==
  ASSUME LoopInv, Shapes,
         TakeHead \/ Finish \/ LoopStep \/ \E forMe \in BOOLEAN : Serve(forMe)
  PROVE  Shapes'
<1> USE DEF handler, frame, execution
<1>1. hand \in Operation \cup {None}
  BY DEF LoopInv, LoopTypeOK
<1>2. ASSUME UNCHANGED <<is_paused, handler>>
      PROVE  Shapes'
  BY <1>2 DEF Shapes, HeldOK, AnswerOK
<1>3. ASSUME is_paused' \in BOOLEAN, UNCHANGED <<cursor, current, request>>,
             AnswerOK' \/ UNCHANGED answer
      PROVE  Shapes'
  BY <1>3 DEF Shapes, HeldOK, AnswerOK
<1>4. is_paused \in BOOLEAN
  BY DEF Shapes
<1>5. CASE TakeHead \/ Finish
  BY <1>2, <1>5 DEF TakeHead, Finish
<1>6. CASE LoopStep
  <2>1. CASE Assign \/ SetRunning \/ Archive \/ EmptySlot \/ BeginSort \/ EndSort
    BY <1>2, <2>1 DEF Assign, SetRunning, Archive, EmptySlot, BeginSort, EndSort
  <2>2. CASE SetCancelled
    <3>1. hand \in Operation
      BY <1>1, <2>2 DEF SetCancelled, LoopInv, LoopTypeOK
    <3>2. AnswerOK' \/ UNCHANGED answer
      BY <2>2, <3>1, EndsOK DEF SetCancelled, Replies
    <3> QED
      BY <1>3, <1>4, <2>2, <3>2 DEF SetCancelled
  <2>3. CASE ReplaceList
    <3>1. hand \in Operation
      BY <1>1, <2>3 DEF ReplaceList, LoopInv, LoopTypeOK
    <3>2. AnswerOK' \/ UNCHANGED answer
      BY <2>3, <3>1, EndsOK DEF ReplaceList, Replies
    <3> QED
      BY <1>3, <1>4, <2>3, <3>2 DEF ReplaceList
  <2> QED
    BY <1>6, <2>1, <2>2, <2>3 DEF LoopStep
<1>7. ASSUME NEW forMe \in BOOLEAN, Serve(forMe)
      PROVE  Shapes'
  <2>1. ASSUME NEW code \in {200, 400, 404, 409}, Done(forMe, code, {}), is_paused' \in BOOLEAN
        PROVE  Shapes'
    <3>1. AnswerOK' \/ UNCHANGED answer
      BY <2>1, EndsOK DEF Done
    <3> QED
      BY <1>3, <2>1, <3>1 DEF Done
  <2>2. ASSUME NEW o \in Operation,
               CancelActive(o, forMe) \/ CancelQueued(o, forMe)
               \/ AppendNew(o, forMe) \/ Update(o, forMe)
        PROVE  Shapes'
    BY <1>2, <2>2 DEF CancelActive, CancelQueued, AppendNew, Update
  <2>3. ASSUME NEW o \in Operation, NEW kind \in {"pause", "resume"},
               DenyCancel(o, forMe) \/ RefuseUpdate(o, forMe) \/ RefuseSwitch(kind, o, forMe)
        PROVE  Shapes'
    BY <1>4, <2>1, <2>3 DEF DenyCancel, RefuseUpdate, RefuseSwitch
  <2>3a. ASSUME NEW o \in Operation, UpdateNothing(o, forMe)
         PROVE  Shapes'
    <3>1. Done(forMe, 200, {o}) /\ UNCHANGED is_paused
      BY <2>3a DEF UpdateNothing
    <3>2. AnswerOK' \/ UNCHANGED answer
      BY <3>1, EndsOK DEF Done
    <3> QED
      BY <1>3, <1>4, <3>1, <3>2 DEF Done
  <2>4. ASSUME NEW o \in Operation, NEW kind \in {"pause", "resume"}, Switch(kind, o, forMe)
        PROVE  Shapes'
    BY <1>3, <1>4, <2>4 DEF Switch
  <2>5. CASE PauseRuntime(forMe) \/ ResumeRuntime(forMe)
    <3>1. Done(forMe, 200, {}) /\ is_paused' \in BOOLEAN
      BY ONLY <2>5 DEF PauseRuntime, ResumeRuntime
    <3> QED
      BY ONLY <2>1, <3>1
  <2>6. CASE \E o \in Operation :
               \/ CancelActive(o, forMe) \/ CancelQueued(o, forMe) \/ DenyCancel(o, forMe)
               \/ AppendNew(o, forMe)
               \/ Update(o, forMe) \/ UpdateNothing(o, forMe) \/ RefuseUpdate(o, forMe)
               \/ \E kind \in {"pause", "resume"} :
                    Switch(kind, o, forMe) \/ RefuseSwitch(kind, o, forMe)
    BY <2>2, <2>3, <2>3a, <2>4, <2>6, Zenon
  <2> QED
    BY <1>7, <2>5, <2>6, Zenon DEF Serve
<1> QED
  BY <1>5, <1>6, <1>7

LEMMA FoundOK ==
  ASSUME NEW o \in Operation, Found(o), AnswerOK
  PROVE  AnswerOK' /\ current' \in Operation \cup {None}
<1>1. current' \in Operation \cup {None}
  BY DEF Found
<1>2. Ends(200, {o}) \/ Ends(409, {}) \/ UNCHANGED answer
  BY DEF Found, Goes
<1>3. AnswerOK'
  BY <1>2, EndsOK DEF AnswerOK
<1> QED
  BY <1>1, <1>3

LEMMA ShapesKeptByHandler ==
  ASSUME LoopInv, Control, Shapes, NewRequest \/ HandlerStep
  PROVE  Shapes'
<1>1. is_paused' \in BOOLEAN /\ HeldOK /\ AnswerOK
  BY DEF NewRequest, HandlerStep, execution, Shapes
<1>2. pulled \in Operation \cup {None} /\ completed \in SUBSET Operation
  BY DEF LoopInv, LoopTypeOK
<1>3. AnswerOK' \/ UNCHANGED answer => AnswerOK'
  BY <1>1 DEF AnswerOK
<1>4. HeldOK' /\ AnswerOK' => Shapes'
  BY <1>1 DEF Shapes
<1>5. ASSUME UNCHANGED frame PROVE HeldOK'
  BY <1>1, <1>5 DEF HeldOK, frame
<1>6. CASE NewRequest
  <2>1. CASE RefuseRequest
    BY <1>4, <1>5, <2>1, EndsOK DEF RefuseRequest
  <2>2. ASSUME NEW o \in Operation, NEW kind \in Lookups \cup {"add"}, Receive(kind, o)
        PROVE  Shapes'
    <3>1. request' = <<kind, o>> /\ UNCHANGED <<cursor, current, answer>>
      BY <2>2 DEF Receive, Goes
    <3> QED
      BY <1>1, <1>3, <1>4, <3>1 DEF HeldOK
  <2>3. ASSUME NEW kind \in {"list", "current", "pause_runtime", "resume_runtime"},
               Receive(kind, None)
        PROVE  Shapes'
    <3>1. request' = <<kind, None>> /\ UNCHANGED <<cursor, current, answer>>
      BY <2>3 DEF Receive, Goes
    <3> QED
      BY <1>1, <1>3, <1>4, <3>1 DEF HeldOK, Lookups
  <2> QED
    BY <1>6, <2>1, <2>2, <2>3 DEF NewRequest
<1>7. CASE ReadSlot \/ CompareSlot \/ CheckPaused
  <2>1. UNCHANGED frame
    BY <1>7 DEF ReadSlot, CompareSlot, CheckPaused
  <2>2. UNCHANGED answer \/ Ends(500, {}) \/ Ends(200, {})
    BY <1>7 DEF ReadSlot, CompareSlot, CheckPaused, Goes
  <2> QED
    BY <1>3, <1>4, <1>5, <2>1, <2>2, EndsOK
<1>8. ASSUME Returned, request[1] \in Lookups,
             Missing \/ \E o \in Operation : Found(o)
      PROVE  Shapes'
  <2>1. cursor' \in Nat \ {0} /\ UNCHANGED request
    BY <1>8 DEF Returned
  <2>2. AnswerOK' /\ current' \in Operation \cup {None}
    <3>1. CASE Missing
      BY <1>1, <3>1, EndsOK DEF Missing, HeldOK
    <3>2. CASE \E o \in Operation : Found(o)
      BY <1>1, <3>2, FoundOK
    <3> QED
      BY <1>8, <3>1, <3>2
  <2> QED
    BY <1>1, <1>4, <2>1, <2>2 DEF HeldOK
<1>9. CASE ReturnSlot \/ SearchArchive
  <2>1. Returned /\ request[1] \in Lookups
    BY <1>9 DEF ReturnSlot, SearchArchive, Control
  <2>2. Missing \/ \E o \in Operation : Found(o)
    BY <1>2, <1>9 DEF ReturnSlot, SearchArchive
  <2> QED
    BY <1>8, <2>1, <2>2
<1>10. CASE ScanNext
  <2>1. request[1] \in Lookups /\ request[2] \in Operation
    BY <1>1, <1>10 DEF ScanNext, Control, HeldOK
  <2>2. CASE Iterated[cursor] = request[2]
    BY <1>8, <1>10, <2>1, <2>2 DEF ScanNext
  <2>3. CASE Iterated[cursor] # request[2]
    <3>1. cursor' = cursor + 1 /\ UNCHANGED <<request, current, answer>>
      BY <1>10, <2>3 DEF ScanNext
    <3> QED
      BY <1>1, <1>3, <1>4, <3>1 DEF HeldOK
  <2> QED
    BY <2>2, <2>3
<1>11. CASE ListSlot
  <2>1. current' = pulled /\ UNCHANGED <<request, cursor, answer>>
    BY <1>11 DEF ListSlot, Goes
  <2> QED
    BY <1>1, <1>2, <1>3, <1>4, <2>1 DEF HeldOK
<1>12. CASE ListQueue
  <2>1. ToSet(queue) \subseteq Operation /\ {current} \ {None} \subseteq Operation
    BY <1>1, ToSetFacts DEF LoopInv, LoopTypeOK, HeldOK
  <2>2. PICK shown : /\ shown = {o \in ({current} \ {None}) \cup ToSet(queue) : state[o] # "COMPLETED"}
                     /\ Ends(200, shown) /\ UNCHANGED frame
    BY <1>12 DEF ListQueue
  <2>3. shown \in SUBSET Operation
    BY <2>1, <2>2
  <2> QED
    BY <1>4, <1>5, <2>2, <2>3, EndsOK
<1>13. CASE ShowCurrent
  <2>1. PICK running : /\ running = {o \in {current} \ {None} : state[o] = "RUNNING"}
                       /\ Ends(IF running = {} THEN 404 ELSE 200, running)
                       /\ UNCHANGED frame
    BY <1>13 DEF ShowCurrent
  <2>2. running \in SUBSET Operation
    BY <1>1, <2>1 DEF HeldOK
  <2>3. AnswerOK'
    BY <2>1, <2>2, EndsOK
  <2> QED
    BY <1>4, <1>5, <2>1, <2>3
<1>14. CASE Respond
  <2>1. /\ request' = NoRequest /\ answer' = NoAnswer
        /\ current' = None /\ cursor' = cursor
    BY <1>14 DEF Respond
  <2> QED
    BY <1>1, <1>4, <2>1 DEF HeldOK, AnswerOK, NoRequest, NoAnswer, Lookups
<1> QED
  BY <1>6, <1>7, <1>9, <1>10, <1>11, <1>12, <1>13, <1>14 DEF HandlerStep, Lookup

(* The list and what the sort has taken out of it never show an operation  *)
(* twice, and every answer is one of the interfaces' status codes with     *)
(* known operations (dispatch_queue.py:41-52,                              *)
(* operation_dispatcher_openapi.py:100-158).                               *)
THEOREM APITypes == Spec => []TypeOK
<1>1. Init => Shapes
  BY DEF Init, Shapes, HeldOK, AnswerOK, NoRequest, NoAnswer, Lookups
<1>2. ASSUME Inv, Shapes, [Next]_vars
      PROVE  Shapes'
  <2>1. LoopInv /\ Control
    BY <1>2 DEF Inv, ReaderInv
  <2>2. CASE Next
    BY <1>2, <2>1, <2>2, ShapesKeptByLoop, ShapesKeptByHandler DEF Next
  <2>3. CASE UNCHANGED vars
    BY <1>2, <2>3 DEF Shapes, HeldOK, AnswerOK, vars
  <2> QED
    BY <1>2, <2>2, <2>3
<1>3. Inv /\ Shapes => TypeOK
  <2> SUFFICES ASSUME Inv, Shapes PROVE TypeOK
    OBVIOUS
  <2>1. LoopTypeOK /\ OneList /\ Control
    BY DEF Inv, LoopInv, ReaderInv
  <2>2. queue \o kept = queue \/ queue \o kept = kept
    BY <2>1, ConcatEmptySeq DEF LoopTypeOK, OneList
  <2>3. IsInjective(queue \o kept)
    <3>1. /\ queue \in Seq(Operation) /\ Distinct(queue)
          /\ kept \in Seq(Operation) /\ Distinct(kept)
      BY <2>1 DEF LoopTypeOK
    <3>2. IsInjective(queue) /\ IsInjective(kept)
      BY <3>1 DEF IsInjective, Distinct
    <3> QED
      BY <2>2, <3>2
  <2> QED
    BY <2>1, <2>3 DEF TypeOK, LoopTypeOK, Control, Shapes, HeldOK, AnswerOK
<1> QED
  BY <1>1, <1>2, <1>3, Invariance, PTL DEF Spec
=============================================================================
