----------------------- MODULE OperationDispatcherProofs -----------------------
(***************************************************************************)
(* OperationDispatcher, with the queue it extends, for any operations,     *)
(* sort keys, dependencies, denial limit and number of coroutines.         *)
(*                                                                         *)
(* First the buckets and the order of the queue. Sorting and taking        *)
(* entries out keep the queue a sequence of distinct operations, and from  *)
(* that every method keeps an operation in one bucket, provided callers do *)
(* not add an object twice. Every method either sorts, which establishes   *)
(* the two orders of the queue, or at most takes entries out, which keeps  *)
(* them, but for the keys of those that waited for what is taken out.      *)
(*                                                                         *)
(* Then the dispatcher: type correctness together with OneBucket, the      *)
(* safety invariants, each from the one before, and that it implements     *)
(* both SingleResource and QueueSpec, which gives it the queue's orders.   *)
(***************************************************************************)
EXTENDS OperationDispatcher, SequenceFacts

(* Rearranging a sequence by a permutation of its positions.               *)
LEMMA PermutedFacts ==
  ASSUME NEW S, NEW q \in Seq(S), NEW p \in Permutation(Len(q))
  PROVE  /\ Permuted(q, p) \in Seq(S)
         /\ Len(Permuted(q, p)) = Len(q)
         /\ Range(Permuted(q, p)) = Range(q)
         /\ Distinct(q) => Distinct(Permuted(q, p))
<1> DEFINE n == Len(q)
           r == Permuted(q, p)
<1>1. /\ n \in Nat
      /\ q \in [1..n -> S]
  OBVIOUS
<1>2. /\ p \in [1..n -> 1..n]
      /\ \A i, j \in 1..n : p[i] = p[j] => i = j
      /\ \A k \in 1..n : \E i \in 1..n : p[i] = k
  BY DEF Permutation, Bijection, Injection, Surjection, IsInjective
<1>3. r = [i \in 1..n |-> q[p[i]]]
  BY DEF Permuted
<1>4. r \in Seq(S) /\ Len(r) = n /\ DOMAIN r = 1..n
  BY <1>1, <1>2, <1>3
<1>5. Range(r) = Range(q)
  <2>1. ASSUME NEW x \in Range(r) PROVE x \in Range(q)
    BY <1>1, <1>2, <1>3, <1>4 DEF Range
  <2>2. ASSUME NEW x \in Range(q) PROVE x \in Range(r)
    <3>1. PICK k \in 1..n : q[k] = x
      BY <1>1 DEF Range
    <3>2. PICK i \in 1..n : p[i] = k
      BY <1>2
    <3> QED
      BY <3>1, <3>2, <1>3, <1>4 DEF Range
  <2> QED
    BY <2>1, <2>2
<1>6. ASSUME Distinct(q) PROVE Distinct(r)
  <2> SUFFICES ASSUME NEW i \in 1..n, NEW j \in 1..n, r[i] = r[j]
               PROVE  i = j
    BY <1>4 DEF Distinct
  <2>1. q[p[i]] = q[p[j]]
    BY <1>3
  <2> QED
    BY <2>1, <1>2, <1>6 DEF Distinct
<1> QED
  BY <1>4, <1>5, <1>6

(* A sort neither loses, invents nor duplicates an operation.              *)
LEMMA SortsFacts ==
  ASSUME NEW S, NEW q \in Seq(S), NEW r, NEW k, NEW d, Sorts(q, r, k, d)
  PROVE  /\ r \in Seq(S)
         /\ Len(r) = Len(q)
         /\ Range(r) = Range(q)
         /\ Distinct(q) => Distinct(r)
<1>1. PICK byKey \in Permutation(Len(q)), layered \in Permutation(Len(q)) :
        r = Permuted(Permuted(q, byKey), layered)
  BY DEF Sorts
<1> DEFINE s == Permuted(q, byKey)
<1>2. /\ s \in Seq(S)
      /\ Len(s) = Len(q)
      /\ Range(s) = Range(q)
      /\ Distinct(q) => Distinct(s)
  BY PermutedFacts
<1> HIDE DEF s
<1>3. layered \in Permutation(Len(s))
  BY <1>1, <1>2
<1>4. /\ Permuted(s, layered) \in Seq(S)
      /\ Len(Permuted(s, layered)) = Len(s)
      /\ Range(Permuted(s, layered)) = Range(s)
      /\ Distinct(s) => Distinct(Permuted(s, layered))
  BY <1>2, <1>3, PermutedFacts
<1> QED
  BY <1>1, <1>2, <1>4 DEF s

(* remove and cancel take the entry at position i out.                     *)
LEMMA WithoutEntryFacts ==
  ASSUME NEW S, NEW q \in Seq(S), Distinct(q), NEW i \in 1..Len(q)
  PROVE  /\ WithoutEntry(q, i) \in Seq(S)
         /\ Range(WithoutEntry(q, i)) = Range(q) \ {q[i]}
         /\ Distinct(WithoutEntry(q, i))
<1>1. WithoutEntry(q, i) \in Seq(S) /\ EntryOut(q, i, WithoutEntry(q, i))
  BY DEF WithoutEntry, EntryOut
<1> QED
  BY <1>1, EntryOutFacts
-----------------------------------------------------------------------------
(* What every method may rely on: the buckets' types and OneBucket.        *)
Buckets ==
  /\ queue \in Seq(Operation)
  /\ pulled \in Operation \cup {None}
  /\ completed \in SUBSET Operation
  /\ OneBucket

(* add, of an object the queue does not hold.                              *)
LEMMA AddKeepsBuckets ==
  ASSUME Buckets, NEW o \in Operation, o \notin Known, Add(o)
  PROVE  Buckets' /\ Queued' = Queued \cup {o}
<1>1. Distinct(queue)
  BY DEF Buckets, OneBucket, Distinct
<1>2. o \notin Range(queue) /\ o \notin completed /\ o # pulled
  BY QueueAssumption DEF Known, Queued
<1>3. /\ Append(queue, o) \in Seq(Operation)
      /\ Range(Append(queue, o)) = Range(queue) \cup {o}
      /\ Distinct(Append(queue, o))
  BY <1>1, <1>2, AppendFacts DEF Buckets
<1>4. /\ queue' \in Seq(Operation)
      /\ Range(queue') = Range(queue) \cup {o}
      /\ Distinct(queue')
  BY <1>3, SortsFacts DEF Add
<1> QED
  BY <1>2, <1>4 DEF Buckets, OneBucket, Distinct, Queued, Add

(* resort.                                                                 *)
LEMMA ResortKeepsBuckets ==
  ASSUME Buckets, Resort
  PROVE  Buckets' /\ Queued' = Queued
<1>1. Distinct(queue)
  BY DEF Buckets, OneBucket, Distinct
<1>2. /\ queue' \in Seq(Operation)
      /\ Range(queue') = Range(queue)
      /\ Distinct(queue')
  BY <1>1, SortsFacts DEF Resort, Buckets
<1> QED
  BY <1>2 DEF Buckets, OneBucket, Distinct, Queued, Resort

(* next.                                                                   *)
LEMMA PullKeepsBuckets ==
  ASSUME Buckets, Pull
  PROVE  /\ Buckets'
         /\ pulled' = Head(queue)
         /\ pulled' \in Queued
         /\ Queued' = Queued \ {pulled'}
<1>1. Distinct(queue) /\ queue \in Seq(Operation)
  BY DEF Buckets, OneBucket, Distinct
<1>2. /\ queue # <<>>
      /\ queue' = Tail(queue)
      /\ pulled' = Head(queue)
      /\ completed' = completed
  BY DEF Pull
<1>3. /\ Head(queue) \in Range(queue)
      /\ Head(queue) \in Operation
      /\ Tail(queue) \in Seq(Operation)
      /\ Range(queue) = Range(Tail(queue)) \cup {Head(queue)}
      /\ Distinct(Tail(queue))
      /\ Head(queue) \notin Range(Tail(queue))
  BY <1>1, <1>2, TailFacts
<1> QED
  BY <1>2, <1>3 DEF Buckets, OneBucket, Distinct, Queued

(* complete, and cancel of the pulled operation.                           *)
LEMMA ArchivePulledKeepsBuckets ==
  ASSUME Buckets, NEW o \in Operation, ArchivePulled(o)
  PROVE  Buckets' /\ Queued' = Queued
<1>1. Range(queue) \subseteq Operation
  BY DEF Buckets, Range
<1>2. /\ pulled = o
      /\ pulled' = None
      /\ completed' = completed \cup {o}
      /\ queue' = queue
  BY DEF ArchivePulled
<1>3. Queued' = Queued
  BY <1>2 DEF Queued
<1>4. /\ pulled' \notin Queued'
      /\ pulled' \notin completed'
      /\ Queued' \cap completed' = {}
  BY <1>1, <1>2, <1>3, QueueAssumption DEF Buckets, OneBucket, Queued
<1> QED
  BY <1>2, <1>3, <1>4 DEF Buckets, OneBucket

(* remove.                                                                 *)
LEMMA FirstEntryFacts ==
  ASSUME Buckets, NEW o \in Queued
  PROVE  FirstEntry(queue, o) \in 1..Len(queue) /\ queue[FirstEntry(queue, o)] = o
<1>1. PICK i \in 1..Len(queue) : queue[i] = o
  BY DEF Queued, Range, Buckets
<1>2. \A j \in 1..(i-1) : queue[j] # o
  BY <1>1 DEF Buckets, OneBucket
<1>3. \E k \in 1..Len(queue) : queue[k] = o /\ \A j \in 1..(k-1) : queue[j] # o
  BY <1>1, <1>2
<1> QED
  BY <1>3 DEF FirstEntry

LEMMA WithoutFirstEntryFacts ==
  ASSUME Buckets, NEW o \in Queued, NEW q,
         q = WithoutEntry(queue, FirstEntry(queue, o))
  PROVE  q \in Seq(Operation) /\ Range(q) = Queued \ {o} /\ Distinct(q)
<1> DEFINE i == FirstEntry(queue, o)
<1>1. i \in 1..Len(queue) /\ queue[i] = o
  BY FirstEntryFacts
<1>2. Distinct(queue) /\ queue \in Seq(Operation)
  BY DEF Buckets, OneBucket, Distinct
<1> HIDE DEF i
<1>3. /\ WithoutEntry(queue, i) \in Seq(Operation)
      /\ Range(WithoutEntry(queue, i)) = Range(queue) \ {queue[i]}
      /\ Distinct(WithoutEntry(queue, i))
  BY <1>1, <1>2, WithoutEntryFacts
<1> QED
  BY <1>1, <1>3 DEF i, Queued

LEMMA RemoveKeepsBuckets ==
  ASSUME Buckets, NEW o \in Operation, RemoveQueued(o)
  PROVE  Buckets' /\ Queued' = Queued \ {o}
<1>1. /\ queue' \in Seq(Operation)
      /\ Range(queue') = Queued \ {o}
      /\ Distinct(queue')
  BY WithoutFirstEntryFacts DEF RemoveQueued
<1> QED
  BY <1>1 DEF Buckets, OneBucket, Distinct, Queued, RemoveQueued

(* cancel of a queued operation.                                           *)
LEMMA ArchiveQueuedKeepsBuckets ==
  ASSUME Buckets, NEW o \in Operation, ArchiveQueued(o)
  PROVE  Buckets' /\ Queued' = Queued \ {o}
<1>1. /\ queue' \in Seq(Operation)
      /\ Range(queue') = Queued \ {o}
      /\ Distinct(queue')
  BY WithoutFirstEntryFacts DEF ArchiveQueued
<1>2. /\ completed' = completed \cup {o}
      /\ pulled' = pulled
      /\ pulled # o
  BY DEF ArchiveQueued
<1> QED
  BY <1>1, <1>2 DEF Buckets, OneBucket, Distinct, Queued
-----------------------------------------------------------------------------
QueueInv == QueueTypeOK /\ OneBucket

LEMMA QueueInvInitially == QueueInit => QueueInv
<1> SUFFICES ASSUME QueueInit PROVE QueueInv
  OBVIOUS
<1>1. queue \in Seq(Operation) /\ Len(queue) = 0 /\ Range(queue) = {}
  BY DEF QueueInit, Range
<1>2. dependencies \in [Operation -> SUBSET Operation]
  BY DEF QueueInit
<1> QED
  BY <1>1, <1>2, QueueAssumption
  DEF QueueInit, QueueInv, QueueTypeOK, OneBucket, Queued

LEMMA QueueInvStep == ~ReAdd /\ QueueInv /\ [QueueNext]_queueVars => QueueInv'
<1> SUFFICES ASSUME ~ReAdd, QueueInv, [QueueNext]_queueVars PROVE QueueInv'
  OBVIOUS
<1> DEFINE AttributesOK == /\ key \in [Operation -> SortKey]
                           /\ dependencies \in [Operation -> SUBSET Operation]
<1>1. Buckets /\ AttributesOK
  BY DEF QueueInv, QueueTypeOK, Buckets
<1>2. SUFFICES Buckets' /\ AttributesOK'
  BY DEF QueueInv, QueueTypeOK, Buckets
<1>3. ASSUME UNCHANGED attributes PROVE AttributesOK'
  BY <1>1, <1>3 DEF attributes
<1> HIDE DEF AttributesOK
<1>4. ASSUME NEW o \in Operation, CallAdd(o) PROVE Buckets' /\ AttributesOK'
  BY <1>1, <1>3, <1>4, AddKeepsBuckets DEF CallAdd
<1>5. ASSUME NEW o \in Operation, CallResort(o) PROVE Buckets' /\ AttributesOK'
  <2>1. Buckets'
    BY <1>1, <1>5, ResortKeepsBuckets DEF CallResort
  <2>2. PICK k \in SortKey, d \in SUBSET MayDependOn[o] :
          /\ key' = [key EXCEPT ![o] = k]
          /\ dependencies' = [dependencies EXCEPT ![o] = d]
    BY <1>5 DEF CallResort
  <2>3. d \in SUBSET Operation
    BY QueueAssumption
  <2> QED
    BY <1>1, <2>1, <2>2, <2>3 DEF AttributesOK
<1>6. ASSUME NEW o \in Operation, CallComplete(o) PROVE Buckets' /\ AttributesOK'
  BY <1>1, <1>3, <1>6, ArchivePulledKeepsBuckets DEF CallComplete
<1>7. ASSUME NEW o \in Operation, CallRemove(o) PROVE Buckets' /\ AttributesOK'
  BY <1>1, <1>3, <1>7, RemoveKeepsBuckets DEF CallRemove
<1>8. ASSUME NEW o \in Operation, CallCancel(o) PROVE Buckets' /\ AttributesOK'
  BY <1>1, <1>3, <1>8, ArchivePulledKeepsBuckets, ArchiveQueuedKeepsBuckets
  DEF CallCancel, CancelHeld
<1>9. ASSUME CallNext PROVE Buckets' /\ AttributesOK'
  BY <1>1, <1>3, <1>9, PullKeepsBuckets DEF CallNext
<1>10. ASSUME CallClear PROVE Buckets' /\ AttributesOK'
  <2>1. queue' \in Seq(Operation) /\ Len(queue') = 0 /\ Range(queue') = {}
    BY <1>10 DEF CallClear, Range
  <2> QED
    BY <1>1, <1>3, <1>10, <2>1
    DEF CallClear, attributes, Buckets, OneBucket, Queued
<1>11. ASSUME CallClearHistory PROVE Buckets' /\ AttributesOK'
  BY <1>1, <1>3, <1>11
  DEF CallClearHistory, attributes, Buckets, OneBucket, Queued
<1>12. ASSUME UNCHANGED queueVars PROVE Buckets' /\ AttributesOK'
  BY <1>1, <1>3, <1>12 DEF queueVars, attributes, Buckets, OneBucket, Queued
<1> QED
  BY <1>4, <1>5, <1>6, <1>7, <1>8, <1>9, <1>10, <1>11, <1>12 DEF QueueNext

(* dispatch_queue.py:40-41, for queues, keys and dependencies of any size: *)
(* if callers never add an object the queue holds, no sequence of calls    *)
(* puts an operation in two buckets or twice in the queue.                 *)
THEOREM QueueOneBucket ==
  ASSUME ~ReAdd PROVE QueueSpec => []OneBucket
<1>1. QueueInv /\ [QueueNext]_queueVars => QueueInv'
  BY QueueInvStep
<1>2. QueueInv => OneBucket
  BY DEF QueueInv
<1> QED
  BY QueueInvInitially, <1>1, <1>2, PTL DEF QueueSpec

(* The fields of the buckets and of the operations keep their types,       *)
(* whichever methods of DispatchQueue are called.                          *)
THEOREM QueueTypes ==
  ASSUME ~ReAdd PROVE QueueSpec => []QueueTypeOK
<1>1. QueueInv /\ [QueueNext]_queueVars => QueueInv'
  BY QueueInvStep
<1>2. QueueInv => QueueTypeOK
  BY DEF QueueInv
<1> QED
  BY QueueInvInitially, <1>1, <1>2, PTL DEF QueueSpec
-----------------------------------------------------------------------------
(* The order of the queue. A sort establishes each of the two orders.      *)
(* Taking entries out keeps the order of providers, and that of the keys   *)
(* as well if it is the head or if nothing waits for what is taken out.    *)

KeyOrder(q, k, d) ==
  \A i, j \in 1..Len(q) :
    i < j /\ Providers(q, d)[j] \subseteq 1..(i-1) => k[q[i]] <= k[q[j]]

ProviderOrder(q, d) ==
  \A i, j \in 1..Len(q) : q[j] \in d[q[i]] => j < i

(* r has been made from q by taking entries out.                           *)
Thinned(r, q) ==
  \E from \in [1..Len(r) -> 1..Len(q)] :
    /\ \A i, j \in 1..Len(r) : i < j => from[i] < from[j]
    /\ \A i \in 1..Len(r) : r[i] = q[from[i]]

LEMMA ThinnedKeepsOrder ==
  ASSUME NEW q \in Seq(Operation), NEW r \in Seq(Operation), Thinned(r, q),
         NEW d, ProviderOrder(q, d)
  PROVE  ProviderOrder(r, d)
<1>1. PICK from \in [1..Len(r) -> 1..Len(q)] :
        /\ \A i, j \in 1..Len(r) : i < j => from[i] < from[j]
        /\ \A i \in 1..Len(r) : r[i] = q[from[i]]
  BY DEF Thinned
<1>2. \A i \in 1..Len(r) : from[i] \in 1..Len(q)
  OBVIOUS
<1>3. SUFFICES ASSUME NEW i \in 1..Len(r), NEW j \in 1..Len(r), r[j] \in d[r[i]]
               PROVE  j < i
  BY DEF ProviderOrder
<1>4. from[j] < from[i]
  BY <1>1, <1>2, <1>3 DEF ProviderOrder
<1>5. ~(i < j) /\ i # j
  BY <1>1, <1>2, <1>4
<1> QED
  BY <1>5

LEMMA TailIsThinned ==
  ASSUME NEW q \in Seq(Operation), q # <<>>
  PROVE  Thinned(Tail(q), q)
<1> DEFINE n == Len(q)
           from == [i \in 1..(n-1) |-> i + 1]
<1>1. /\ n \in Nat \ {0}
      /\ Len(Tail(q)) = n - 1
      /\ \A i \in 1..(n-1) : Tail(q)[i] = q[i+1]
  OBVIOUS
<1>2. from \in [1..(n-1) -> 1..n]
  BY <1>1
<1>3. \A i, j \in 1..(n-1) : i < j => from[i] < from[j]
  BY <1>1
<1>4. \A i \in 1..(n-1) : Tail(q)[i] = q[from[i]]
  BY <1>1
<1> QED
  BY <1>1, <1>2, <1>3, <1>4 DEF Thinned

LEMMA WithoutEntryIsThinned ==
  ASSUME NEW q \in Seq(Operation), NEW m \in 1..Len(q)
  PROVE  Thinned(WithoutEntry(q, m), q)
<1> DEFINE n == Len(q)
           r == WithoutEntry(q, m)
           from == [i \in 1..(n-1) |-> IF i < m THEN i ELSE i + 1]
<1>1. n \in Nat \ {0}
  OBVIOUS
<1>2. r = [i \in 1..(n-1) |-> IF i < m THEN q[i] ELSE q[i+1]]
  BY DEF WithoutEntry
<1>3. Len(r) = n - 1
  BY <1>1, <1>2
<1>4. from \in [1..(n-1) -> 1..n]
  BY <1>1
<1>5. \A i, j \in 1..(n-1) : i < j => from[i] < from[j]
  BY <1>1
<1>6. \A i \in 1..(n-1) : r[i] = q[from[i]]
  BY <1>1, <1>2
<1> QED
  BY <1>3, <1>4, <1>5, <1>6 DEF Thinned

(* What a sort does with the positions: s is q by key, and r is s in the   *)
(* order p.                                                                *)
SortedBy(q, r, k, d, s, p) ==
  /\ Len(s) = Len(q)
  /\ Distinct(q) => Distinct(s)
  /\ k \in [Operation -> SortKey] =>
       \A i, j \in 1..Len(q) : i < j => k[s[i]] <= k[s[j]]
  /\ DependencyOrder(Providers(s, d), p)
  /\ r = [i \in 1..Len(q) |-> s[p[i]]]

LEMMA SortedFacts ==
  ASSUME NEW q \in Seq(Operation), NEW r, NEW k, NEW d, Sorts(q, r, k, d)
  PROVE  \E s \in Seq(Operation), p \in Permutation(Len(q)) : SortedBy(q, r, k, d, s, p)
<1>1. PICK byKey \in Permutation(Len(q)) :
        /\ StableSort(q, k, byKey)
        /\ \E layered \in Permutation(Len(q)) :
             /\ DependencyOrder(Providers(Permuted(q, byKey), d), layered)
             /\ r = Permuted(Permuted(q, byKey), layered)
  BY DEF Sorts
<1> DEFINE s == Permuted(q, byKey)
<1>2. PICK p \in Permutation(Len(q)) :
        DependencyOrder(Providers(s, d), p) /\ r = Permuted(s, p)
  BY <1>1
<1>3. s \in Seq(Operation) /\ Len(s) = Len(q) /\ (Distinct(q) => Distinct(s))
  BY PermutedFacts
<1>4. ASSUME k \in [Operation -> SortKey], NEW i \in 1..Len(q), NEW j \in 1..Len(q), i < j
      PROVE  k[s[i]] <= k[s[j]]
  <2>1. s[i] = q[byKey[i]] /\ s[j] = q[byKey[j]]
    BY DEF Permuted
  <2>2. k[s[i]] \in Nat /\ k[s[j]] \in Nat
    <3>1. s[i] \in Operation /\ s[j] \in Operation
      BY <1>3
    <3> QED
      BY <1>4, <3>1, QueueAssumption
  <2>3. k[s[i]] < k[s[j]] \/ k[s[i]] = k[s[j]]
    BY <1>1, <1>4, <2>1 DEF StableSort
  <2> QED
    BY <2>2, <2>3
<1>5. r = [i \in 1..Len(q) |-> s[p[i]]]
  BY <1>2, <1>3 DEF Permuted
<1> HIDE DEF s
<1>6. SortedBy(q, r, k, d, s, p)
  BY <1>2, <1>3, <1>4, <1>5 DEF SortedBy
<1> QED
  BY <1>3, <1>6

LEMMA PermutationFacts ==
  ASSUME NEW n \in Nat, NEW p \in Permutation(n)
  PROVE  /\ p \in [1..n -> 1..n]
         /\ \A i, j \in 1..n : p[i] = p[j] => i = j
         /\ \A k \in 1..n : \E i \in 1..n : p[i] = k
  BY DEF Permutation, Bijection, Injection, Surjection, IsInjective

(* Every free operation among the rest was a candidate for the place an    *)
(* earlier one got: the least candidate gets it.                           *)
LEMMA SortedInKeyOrder ==
  ASSUME NEW q \in Seq(Operation), Distinct(q), NEW r, NEW k \in [Operation -> SortKey],
         NEW d, Sorts(q, r, k, d)
  PROVE  KeyOrder(r, k, d)
<1> DEFINE n == Len(q)
<1>1. PICK s \in Seq(Operation), p \in Permutation(n) :
        /\ Len(s) = n
        /\ Distinct(s)
        /\ \A i, j \in 1..n : i < j => k[s[i]] <= k[s[j]]
        /\ DependencyOrder(Providers(s, d), p)
        /\ r = [i \in 1..n |-> s[p[i]]]
  <2>1. PICK s \in Seq(Operation), p \in Permutation(n) : SortedBy(q, r, k, d, s, p)
    BY SortedFacts
  <2> QED
    BY <2>1 DEF SortedBy
<1>2. n \in Nat /\ Len(r) = n
  BY <1>1
<1>3. /\ p \in [1..n -> 1..n]
      /\ \A i, j \in 1..n : p[i] = p[j] => i = j
      /\ \A x \in 1..n : \E i \in 1..n : p[i] = x
  BY <1>2, PermutationFacts
<1>4. SUFFICES ASSUME NEW i \in 1..n, NEW j \in 1..n, i < j,
                      Providers(r, d)[j] \subseteq 1..(i-1)
               PROVE  p[i] < p[j]
  <2>1. ASSUME NEW i \in 1..n, NEW j \in 1..n, p[i] < p[j]
        PROVE  k[r[i]] <= k[r[j]]
    BY <1>1, <1>3, <2>1
  <2> QED
    BY <1>2, <1>4, <2>1 DEF KeyOrder
<1>5. CASE Cyclic(Providers(s, d))
  <2>1. p[i] = i /\ p[j] = j
    BY <1>1, <1>3, <1>5 DEF DependencyOrder
  <2> QED
    BY <1>4, <2>1
<1>6. CASE ~Cyclic(Providers(s, d))
  <2> DEFINE placed == {p[m] : m \in 1..(i-1)}
  <2>1. \A x \in DOMAIN Providers(s, d) \ placed :
          Providers(s, d)[x] \subseteq placed => p[i] <= x
    <3>1. LayeredOrder(Providers(s, d), p)
      BY <1>1, <1>6 DEF DependencyOrder
    <3>2. i \in DOMAIN p
      BY <1>3
    <3> QED
      BY ONLY <3>1, <3>2 DEF LayeredOrder
  <2>2. p[j] \in 1..n /\ p[i] \in 1..n /\ p[i] # p[j]
    <3>1. i \in 1..n /\ j \in 1..n /\ i # j
      BY <1>4
    <3> QED
      BY ONLY <1>3, <3>1
  <2>3. p[j] \in DOMAIN Providers(s, d)
    BY <1>1, <2>2 DEF Providers
  <2>4. p[j] \notin placed
    <3>1. SUFFICES ASSUME NEW m \in 1..(i-1), p[j] = p[m] PROVE FALSE
      OBVIOUS
    <3>2. m \in 1..n /\ j \in 1..n /\ m # j
      BY <1>2, <1>4
    <3> QED
      BY ONLY <1>3, <3>1, <3>2
  <2>5. ASSUME NEW x \in Providers(s, d)[p[j]]
        PROVE  x \in placed
    <3>1. x \in 1..n /\ x # p[j] /\ s[x] \in d[s[p[j]]]
      BY <1>1, <2>2, <2>5 DEF Providers
    <3>2. PICK m \in 1..n : p[m] = x
      BY <1>3, <3>1
    <3>3. m # j /\ r[m] \in d[r[j]]
      BY <1>1, <3>1, <3>2
    <3>4. \A l \in 1..n : r[l] = r[m] => l = m
      <4>1. ASSUME NEW l \in 1..n, r[l] = r[m] PROVE p[l] = p[m]
        <5>1. s[p[l]] = s[p[m]]
          BY <1>1, <4>1
        <5>2. p[l] \in 1..Len(s) /\ p[m] \in 1..Len(s)
          BY <1>1, <1>3
        <5>3. \A y, z \in 1..Len(s) : s[y] = s[z] => y = z
          BY <1>1 DEF Distinct
        <5> QED
          BY <5>1, <5>2, <5>3
      <4> QED
        BY <1>3, <4>1
    <3>5. m \in Providers(r, d)[j]
      BY <1>2, <3>3, <3>4 DEF Providers
    <3> QED
      BY <1>4, <3>2, <3>5
  <2>6. p[i] <= p[j]
    BY <2>1, <2>3, <2>4, <2>5
  <2> QED
    BY <2>2, <2>6
<1> QED
  BY <1>5, <1>6

(* What is left after the entry at m was taken out is in key order, if m   *)
(* is the head or no queued operation depends on what stood there.         *)
LEMMA WithoutEntryInKeyOrder ==
  ASSUME NEW q \in Seq(Operation), Distinct(q), NEW m \in 1..Len(q), NEW k, NEW d,
         KeyOrder(q, k, d),
         m = 1 \/ \A o \in Range(q) : q[m] \notin d[o]
  PROVE  KeyOrder(WithoutEntry(q, m), k, d)
<1> DEFINE n == Len(q)
           r == WithoutEntry(q, m)
           at(i) == IF i < m THEN i ELSE i + 1
<1>1. n \in Nat \ {0}
  OBVIOUS
<1>2. r = [i \in 1..(n-1) |-> q[at(i)]]
  BY DEF WithoutEntry
<1>3. Len(r) = n - 1
  BY <1>1, <1>2
<1>4. \A i \in 1..(n-1) : at(i) \in 1..n /\ at(i) # m /\ r[i] = q[at(i)]
  BY <1>1, <1>2
<1>5. \A i, j \in 1..(n-1) : i < j => at(i) < at(j)
  BY <1>1
<1>6. \A x \in 1..n : x # m => \E i \in 1..(n-1) : x = at(i)
  <2> SUFFICES ASSUME NEW x \in 1..n, x # m PROVE \E i \in 1..(n-1) : x = at(i)
    OBVIOUS
  <2>1. CASE x < m
    BY <1>1, <2>1
  <2>2. CASE m < x
    <3>1. x - 1 \in 1..(n-1) /\ x = at(x - 1)
      BY <1>1, <2>2
    <3> QED
      BY <3>1
  <2> QED
    BY <2>1, <2>2
<1>7. ASSUME NEW i \in 1..(n-1), NEW j \in 1..(n-1), i < j,
             Providers(r, d)[j] \subseteq 1..(i-1),
             NEW x \in Providers(q, d)[at(j)]
      PROVE  x \in 1..(at(i)-1)
  <2>1. x \in 1..n /\ x # at(j) /\ q[x] \in d[q[at(j)]]
    BY <1>4, <1>7 DEF Providers
  <2>2. CASE x = m
    <3>1. q[at(j)] \in Range(q)
      BY <1>4, <1>7 DEF Range
    <3>2. m = 1
      BY <2>1, <2>2, <3>1
    <3> QED
      BY <1>4, <1>7, <2>2, <3>2
  <2>3. CASE x # m
    <3>1. PICK l \in 1..(n-1) : x = at(l)
      BY <1>6, <2>1, <2>3
    <3>2. l # j /\ r[l] \in d[r[j]]
      BY <1>4, <1>7, <2>1, <3>1
    <3>3. ASSUME NEW y \in 1..(n-1), r[y] = r[l] PROVE y = l
      <4>1. q[at(y)] = q[at(l)] /\ at(y) \in 1..n /\ at(l) \in 1..n
        BY <1>4, <3>3
      <4>2. \A v, w \in 1..n : q[v] = q[w] => v = w
        BY DEF Distinct
      <4>3. at(y) = at(l)
        BY <4>1, <4>2
      <4> QED
        BY <1>1, <4>3
    <3>4. l \in Providers(r, d)[j]
      <4> HIDE DEF r, at
      <4> QED
        BY <1>3, <1>7, <3>2, <3>3 DEF Providers
    <3>5. l \in 1..(i-1)
      BY <1>7, <3>4
    <3>6. l < i
      BY <1>7, <3>5
    <3>7. at(l) < at(i) /\ at(l) \in 1..n /\ at(i) \in 1..n
      BY <1>4, <1>5, <1>7, <3>6
    <3> QED
      BY <3>1, <3>7
  <2> QED
    BY <2>2, <2>3
<1>8. ASSUME NEW i \in 1..(n-1), NEW j \in 1..(n-1), i < j,
             Providers(r, d)[j] \subseteq 1..(i-1)
      PROVE  k[r[i]] <= k[r[j]]
  <2>1. at(i) \in 1..n /\ at(j) \in 1..n /\ at(i) < at(j)
    BY <1>4, <1>5, <1>8
  <2>2. Providers(q, d)[at(j)] \subseteq 1..(at(i)-1)
    BY <1>7, <1>8
  <2>3. k[q[at(i)]] <= k[q[at(j)]]
    <3> HIDE DEF at
    <3> QED
      BY <2>1, <2>2 DEF KeyOrder
  <2> QED
    BY <1>4, <1>8, <2>3
<1> HIDE DEF r, at
<1> QED
  BY <1>3, <1>8 DEF KeyOrder, r

LEMMA TailInKeyOrder ==
  ASSUME NEW q \in Seq(Operation), Distinct(q), q # <<>>, NEW k, NEW d, KeyOrder(q, k, d)
  PROVE  KeyOrder(Tail(q), k, d)
<1>1. Len(q) \in Nat \ {0} /\ 1 \in 1..Len(q)
  OBVIOUS
<1>2. Tail(q) = WithoutEntry(q, 1)
  <2>1. /\ Tail(q) \in Seq(Operation)
        /\ Len(Tail(q)) = Len(q) - 1
        /\ \A i \in 1..(Len(q)-1) : Tail(q)[i] = q[i+1]
    BY <1>1
  <2>2. ASSUME NEW w \in Seq(Operation) PROVE w = [i \in 1..Len(w) |-> w[i]]
    <3>1. w \in [1..Len(w) -> Operation]
      OBVIOUS
    <3> QED
      BY <3>1
  <2>3. WithoutEntry(q, 1) = [i \in 1..(Len(q)-1) |-> q[i+1]]
    BY <1>1 DEF WithoutEntry
  <2> QED
    BY <2>1, <2>2, <2>3
<1> QED
  BY <1>1, <1>2, WithoutEntryInKeyOrder

(* The operations' dependencies can not close a cycle.                     *)
Acyclic ==
  \A S \in SUBSET Operation : S # {} => \E o \in S : MayDependOn[o] \cap S = {}

LEMMA NothingWaitsForItself ==
  ASSUME Acyclic, NEW o \in Operation
  PROVE  MayDependOn[o] \cap {o} = {}
<1>1. {o} \in SUBSET Operation /\ {o} # {}
  OBVIOUS
<1> QED
  BY <1>1 DEF Acyclic

Allowed(d) ==
  d \in [Operation -> SUBSET Operation] /\ \A o \in Operation : d[o] \subseteq MayDependOn[o]

LEMMA NoCycleInQueue ==
  ASSUME Acyclic, NEW s \in Seq(Operation), NEW d, Allowed(d)
  PROVE  ~Cyclic(Providers(s, d))
<1> SUFFICES ASSUME NEW S \in SUBSET (1..Len(s)), S # {},
                    \A i \in S : Providers(s, d)[i] \cap S # {}
             PROVE  FALSE
  BY DEF Cyclic, Providers
<1> DEFINE T == {s[i] : i \in S}
<1>1. T \in SUBSET Operation /\ T # {}
  OBVIOUS
<1>2. PICK o \in T : MayDependOn[o] \cap T = {}
  BY <1>1 DEF Acyclic
<1>3. PICK i \in S : o = s[i]
  BY <1>2
<1>4. PICK j \in S : j \in Providers(s, d)[i]
  OBVIOUS
<1>5. s[j] \in d[s[i]]
  BY <1>4 DEF Providers
<1>6. s[j] \in MayDependOn[o] /\ s[j] \in T
  BY <1>1, <1>2, <1>3, <1>5 DEF Allowed
<1> QED
  BY <1>2, <1>6

LEMMA SortedInProviderOrder ==
  ASSUME Acyclic, NEW q \in Seq(Operation), Distinct(q), NEW r, NEW k, NEW d, Allowed(d),
         Sorts(q, r, k, d)
  PROVE  ProviderOrder(r, d)
<1> DEFINE n == Len(q)
<1>1. PICK s \in Seq(Operation), p \in Permutation(n) :
        /\ Len(s) = n
        /\ Distinct(s)
        /\ DependencyOrder(Providers(s, d), p)
        /\ r = [i \in 1..n |-> s[p[i]]]
  <2>1. PICK s \in Seq(Operation), p \in Permutation(n) : SortedBy(q, r, k, d, s, p)
    BY SortedFacts
  <2> QED
    BY <2>1 DEF SortedBy
<1>2. n \in Nat /\ Len(r) = n
  BY <1>1
<1>3. p \in [1..n -> 1..n] /\ \A i, j \in 1..n : p[i] = p[j] => i = j
  BY <1>2, PermutationFacts
<1>4. \A i \in 1..n : Providers(s, d)[p[i]] \subseteq {p[m] : m \in 1..(i-1)}
  BY <1>1, <1>3, NoCycleInQueue DEF DependencyOrder, LayeredOrder
<1>5. SUFFICES ASSUME NEW i \in 1..n, NEW j \in 1..n, r[j] \in d[r[i]]
               PROVE  j < i
  BY <1>2 DEF ProviderOrder
<1>6. /\ p[i] \in 1..n /\ p[j] \in 1..n
      /\ r[i] = s[p[i]] /\ r[j] = s[p[j]]
  BY <1>1, <1>3
<1>7. s[p[i]] \in Operation
  BY <1>1, <1>6
<1>8. s[p[i]] \notin d[s[p[i]]]
  <2>1. MayDependOn[s[p[i]]] \cap {s[p[i]]} = {}
    BY <1>7, NothingWaitsForItself
  <2> QED
    BY <1>7, <2>1 DEF Allowed
<1>9. p[j] # p[i]
  BY <1>5, <1>6, <1>8
<1>10. \A m \in 1..n : s[m] = s[p[j]] => m <= p[j]
  BY <1>1, <1>6 DEF Distinct
<1>11. p[j] \in Providers(s, d)[p[i]]
  BY <1>1, <1>5, <1>6, <1>9, <1>10 DEF Providers
<1>12. PICK m \in 1..(i-1) : p[j] = p[m]
  BY <1>4, <1>11
<1>13. m \in 1..n
  OBVIOUS
<1> QED
  BY <1>3, <1>12, <1>13

(* Every method sorts the queue, or at most takes entries out.             *)
LEMMA StepSortsOrThins ==
  ASSUME ~ReAdd, QueueInv, [QueueNext]_queueVars
  PROVE  \/ \E q \in Seq(Operation) : Distinct(q) /\ Sorts(q, queue', key', dependencies')
         \/ Thinned(queue', queue) /\ UNCHANGED attributes
<1>1. Buckets /\ queue \in Seq(Operation) /\ Distinct(queue)
  BY DEF QueueInv, QueueTypeOK, Buckets, OneBucket, Distinct
<1>2. ASSUME NEW o \in Operation, CallAdd(o)
      PROVE  \E q \in Seq(Operation) : Distinct(q) /\ Sorts(q, queue', key', dependencies')
  <2>1. o \notin Range(queue)
    BY <1>2 DEF CallAdd, Queued
  <2> QED
    BY <1>1, <1>2, <2>1, AppendFacts DEF CallAdd, Add
<1>3. ASSUME NEW o \in Operation, CallResort(o)
      PROVE  \E q \in Seq(Operation) : Distinct(q) /\ Sorts(q, queue', key', dependencies')
  BY <1>1, <1>3 DEF CallResort, Resort
<1>4. ASSUME UNCHANGED queue
      PROVE  Thinned(queue', queue)
  <2> DEFINE from == [i \in 1..Len(queue) |-> i]
  <2>1. from \in [1..Len(queue) -> 1..Len(queue)]
    OBVIOUS
  <2> QED
    BY <1>1, <1>4, <2>1 DEF Thinned
<1>5. ASSUME NEW o \in Queued, queue' = WithoutEntry(queue, FirstEntry(queue, o))
      PROVE  Thinned(queue', queue)
  BY <1>1, <1>5, FirstEntryFacts, WithoutEntryIsThinned
<1>6. ASSUME NEW o \in Operation, CallComplete(o) \/ CallRemove(o) \/ CallCancel(o)
      PROVE  Thinned(queue', queue) /\ UNCHANGED attributes
  BY <1>4, <1>5, <1>6
     DEF CallComplete, CallRemove, CallCancel, CancelHeld, ArchivePulled, ArchiveQueued,
         RemoveQueued
<1>7. ASSUME CallNext
      PROVE  Thinned(queue', queue) /\ UNCHANGED attributes
  BY <1>1, <1>7, TailIsThinned DEF CallNext, Pull
<1>8. ASSUME CallClear
      PROVE  Thinned(queue', queue) /\ UNCHANGED attributes
  <2> DEFINE from == [i \in {} |-> 1]
  <2>1. queue' = <<>> /\ UNCHANGED attributes
    BY <1>8 DEF CallClear, attributes
  <2>2. from \in [1..0 -> 1..Len(queue)]
    OBVIOUS
  <2>3. Len(queue') = 0
    BY <2>1
  <2>4. \A i \in 1..Len(queue') : FALSE
    BY <2>3
  <2> HIDE DEF from
  <2>5. from \in [1..Len(queue') -> 1..Len(queue)]
    BY <2>2, <2>3
  <2> QED
    BY <2>1, <2>4, <2>5, Zenon DEF Thinned
<1>9. ASSUME CallClearHistory \/ UNCHANGED queueVars
      PROVE  Thinned(queue', queue) /\ UNCHANGED attributes
  BY <1>4, <1>9 DEF CallClearHistory, attributes, queueVars
<1> QED
  BY <1>2, <1>3, <1>6, <1>7, <1>8, <1>9 DEF QueueNext

(* The step of OrderIsKept.                                                *)
OrderStep ==
  KeyOrdered \/ ~(Queued' \subseteq Queued) \/ attributes' # attributes
    => KeyOrdered' \/ LeavesDependents

LEMMA KeyOrderedIsKeyOrder ==
  /\ KeyOrdered <=> KeyOrder(queue, key, dependencies)
  /\ KeyOrdered' <=> KeyOrder(queue', key', dependencies')
BY DEF KeyOrdered, KeyOrder

LEMMA StepKeepsOrder ==
  ASSUME ~ReAdd, QueueInv, [QueueNext]_queueVars
  PROVE  OrderStep
<1>1. Buckets /\ queue \in Seq(Operation) /\ Distinct(queue)
  BY DEF QueueInv, QueueTypeOK, Buckets, OneBucket, Distinct
<1>2. key' \in [Operation -> SortKey]
  <2>1. QueueInv'
    BY QueueInvStep
  <2> QED
    BY <2>1 DEF QueueInv, QueueTypeOK
<1>3. ASSUME NEW q \in Seq(Operation), Distinct(q), Sorts(q, queue', key', dependencies')
      PROVE  OrderStep
  BY <1>2, <1>3, SortedInKeyOrder, KeyOrderedIsKeyOrder DEF OrderStep
<1>4. ASSUME UNCHANGED <<queue, key, dependencies>>
      PROVE  OrderStep
  <2>1. (KeyOrdered' <=> KeyOrdered) /\ UNCHANGED Queued /\ UNCHANGED attributes
    BY <1>4, KeyOrderedIsKeyOrder DEF Queued, attributes
  <2> QED
    BY <2>1 DEF OrderStep
<1>5. ASSUME NEW o \in Operation, CallAdd(o)
      PROVE  OrderStep
  <2>1. o \notin Range(queue)
    BY <1>5 DEF CallAdd, Queued
  <2> QED
    BY <1>1, <1>3, <1>5, <2>1, AppendFacts DEF CallAdd, Add
<1>6. ASSUME NEW o \in Operation, CallResort(o)
      PROVE  OrderStep
  BY <1>1, <1>3, <1>6 DEF CallResort, Resort
<1>7. ASSUME NEW o \in Queued, queue' = WithoutEntry(queue, FirstEntry(queue, o)),
             UNCHANGED attributes
      PROVE  OrderStep
  <2> DEFINE m == FirstEntry(queue, o)
  <2>1. m \in 1..Len(queue) /\ queue[m] = o
    BY <1>1, FirstEntryFacts
  <2>2. Queued' \subseteq Queued
    BY <1>1, <1>7, <2>1, WithoutEntryFacts DEF Queued
  <2>3. SUFFICES ASSUME KeyOrdered PROVE KeyOrdered' \/ LeavesDependents
    BY <1>7, <2>2 DEF OrderStep
  <2>4. KeyOrder(queue, key, dependencies)
    BY <2>3, KeyOrderedIsKeyOrder
  <2> HIDE DEF m
  <2>5. queue' = WithoutEntry(queue, m)
    BY <1>7 DEF m
  <2>6. CASE m = 1 \/ \A x \in Queued : queue[m] \notin dependencies[x]
    <3>1. KeyOrder(WithoutEntry(queue, m), key, dependencies)
      BY <1>1, <2>1, <2>4, <2>6, WithoutEntryInKeyOrder DEF Queued
    <3> QED
      BY <1>7, <2>5, <3>1, KeyOrderedIsKeyOrder DEF attributes
  <2>7. CASE m # 1 /\ \E x \in Queued : queue[m] \in dependencies[x]
    <3>1. m \in 2..Len(queue)
      BY <1>1, <2>1, <2>7
    <3> QED
      BY <2>5, <2>7, <3>1 DEF LeavesDependents
  <2> QED
    BY <2>6, <2>7
<1>8. ASSUME NEW o \in Operation, CallComplete(o) \/ CallRemove(o) \/ CallCancel(o)
      PROVE  OrderStep
  BY <1>4, <1>7, <1>8
     DEF CallComplete, CallRemove, CallCancel, CancelHeld, ArchivePulled, ArchiveQueued,
         RemoveQueued, attributes
<1>9. ASSUME CallNext
      PROVE  OrderStep
  <2>1. queue # <<>> /\ queue' = Tail(queue) /\ UNCHANGED attributes
    BY <1>9 DEF CallNext, Pull
  <2>2. Queued' \subseteq Queued
    BY <1>1, <2>1, TailFacts DEF Queued
  <2>3. KeyOrdered => KeyOrdered'
    BY <1>1, <2>1, TailInKeyOrder, KeyOrderedIsKeyOrder DEF attributes
  <2> QED
    BY <2>1, <2>2, <2>3 DEF OrderStep
<1>10. ASSUME CallClear
      PROVE  OrderStep
  <2>1. queue' = <<>>
    BY <1>10 DEF CallClear
  <2>2. KeyOrder(queue', key', dependencies')
    BY <2>1 DEF KeyOrder
  <2> QED
    BY <2>2, KeyOrderedIsKeyOrder DEF OrderStep
<1>11. ASSUME CallClearHistory \/ UNCHANGED queueVars
      PROVE  OrderStep
  BY <1>4, <1>11 DEF CallClearHistory, queueVars
<1> QED
  BY <1>5, <1>6, <1>8, <1>9, <1>10, <1>11 DEF QueueNext

(* dispatch_queue.py:84-168 and README.md:48, for queues, keys and         *)
(* dependencies of any size, cyclic ones included: every sort establishes  *)
(* the key order among what is free to be dispatched, and it is lost only  *)
(* when an operation that others wait for leaves from behind the head.     *)
THEOREM QueueKeyOrder ==
  ASSUME ~ReAdd PROVE QueueSpec => OrderIsKept
<1>1. QueueInv /\ [QueueNext]_queueVars => QueueInv'
  BY QueueInvStep
<1>2. QueueInv /\ [QueueNext]_queueVars => [OrderStep]_queueVars
  BY StepKeepsOrder
<1>3. OrderIsKept <=> [][OrderStep]_queueVars
  BY DEF OrderIsKept, OrderStep
<1> QED
  BY QueueInvInitially, <1>1, <1>2, <1>3, PTL DEF QueueSpec

LEMMA AllowedKept ==
  ASSUME QueueInv, Allowed(dependencies), [QueueNext]_queueVars
  PROVE  Allowed(dependencies')
<1>1. ASSUME NEW o \in Operation, CallResort(o)
      PROVE  Allowed(dependencies')
  <2>1. PICK d \in SUBSET MayDependOn[o] : dependencies' = [dependencies EXCEPT ![o] = d]
    BY <1>1 DEF CallResort
  <2>2. d \in SUBSET Operation
    BY QueueAssumption
  <2> QED
    BY <2>1, <2>2 DEF Allowed, QueueInv, QueueTypeOK
<1>2. ASSUME UNCHANGED dependencies
      PROVE  Allowed(dependencies')
  BY <1>2 DEF Allowed
<1> QED
  BY <1>1, <1>2
     DEF QueueNext, CallAdd, CallComplete, CallRemove, CallCancel, CallNext, CallClear,
         CallClearHistory, attributes, queueVars

(* dispatch_queue.py:170-220 and README.md:49, for queues and keys of any  *)
(* size and dependencies that close no cycle: providers stay ahead of      *)
(* their dependents through everything that does not sort.                 *)
THEOREM QueueProvidersFirst ==
  ASSUME ~ReAdd, Acyclic PROVE QueueSpec => []ProvidersFirst
<1> DEFINE I == /\ QueueInv
                /\ Allowed(dependencies)
                /\ ProviderOrder(queue, dependencies)
<1>1. QueueInit => I
  <2>1. QueueInit => Allowed(dependencies) /\ ProviderOrder(queue, dependencies)
    BY DEF QueueInit, Allowed, ProviderOrder
  <2> QED
    BY <2>1, QueueInvInitially
<1>2. I /\ [QueueNext]_queueVars => I'
  <2> SUFFICES ASSUME QueueInv, Allowed(dependencies), ProviderOrder(queue, dependencies),
                      [QueueNext]_queueVars
               PROVE  I'
    OBVIOUS
  <2>1. QueueInv'
    BY QueueInvStep
  <2>2. queue' \in Seq(Operation) /\ queue \in Seq(Operation)
    BY <2>1 DEF QueueInv, QueueTypeOK
  <2>3. Allowed(dependencies')
    BY AllowedKept
  <2>4. ASSUME NEW q \in Seq(Operation), Distinct(q), Sorts(q, queue', key', dependencies')
        PROVE  ProviderOrder(queue', dependencies')
    BY <2>3, <2>4, SortedInProviderOrder
  <2>5. ASSUME Thinned(queue', queue), UNCHANGED attributes
        PROVE  ProviderOrder(queue', dependencies')
    <3>1. ProviderOrder(queue', dependencies)
      BY <2>2, <2>5, ThinnedKeepsOrder
    <3> QED
      BY <2>5, <3>1 DEF attributes
  <2> QED
    BY <2>1, <2>3, <2>4, <2>5, StepSortsOrThins
<1>3. I => ProvidersFirst
  BY DEF ProviderOrder, ProvidersFirst, Providers
<1> HIDE DEF I
<1> QED
  BY <1>1, <1>2, <1>3, PTL DEF QueueSpec
-----------------------------------------------------------------------------
(* The dispatcher.                                                         *)

(* The variables the dispatcher adds to the queue's, and the attributes.   *)
FieldsOK ==
  /\ key \in [Operation -> SortKey]
  /\ dependencies \in [Operation -> SUBSET Operation]
  /\ state \in [Operation -> ExecutionState]
  /\ outcome \in [Operation -> ExecutionOutcome]
  /\ held \in SUBSET Operation

ControlOK ==
  /\ is_paused \in BOOLEAN
  /\ stop_requested \in BOOLEAN
  /\ asked \in [Stepper -> Operation \cup {None}]
  /\ runtime \in RuntimePoint
  /\ wakeup_pending \in BOOLEAN
  /\ wakeup_event \in BOOLEAN

RetryOK ==
  /\ denials \in [RetryKey -> 0..MaxRetries]
  /\ cooling \in SUBSET RetryKey

DispatcherInv == Buckets /\ FieldsOK /\ ControlOK /\ RetryOK

LEMMA DispatcherInvIsTyped == DispatcherInv <=> TypeOK /\ OneBucket
BY DEF DispatcherInv, TypeOK, QueueTypeOK, Buckets, FieldsOK, ControlOK, RetryOK

LEMMA StepperFacts == "run" \in Stepper /\ \A s \in Stepper : s # "run" => s \in Callers
BY DEF Stepper

(* A denial keeps the types, and only it and a pause mark the active one.  *)
LEMMA DenyFacts ==
  ASSUME DispatcherInv, NEW k \in RetryKey, Deny(k)
  PROVE  /\ RetryOK'
         /\ is_paused' \in BOOLEAN
         /\ state' \in [Operation -> ExecutionState]
<1>1. RetryOK'
  <2>1. denials' = [denials EXCEPT ![k] = IF @ < MaxRetries THEN @ + 1 ELSE @]
    BY DEF Deny, CountDenial
  <2>2. denials' \in [RetryKey -> 0..MaxRetries]
    BY <2>1, DispatcherAssumption DEF DispatcherInv, RetryOK
  <2>3. cooling' \in SUBSET RetryKey
    BY DEF Deny, CountDenial, DispatcherInv, RetryOK
  <2> QED
    BY <2>2, <2>3 DEF RetryOK
<1>2. is_paused' \in BOOLEAN
  BY DEF Deny, MarkPaused, DispatcherInv, ControlOK
<1>3. state' \in [Operation -> ExecutionState]
  BY DEF Deny, MarkPaused, DispatcherInv, FieldsOK, ExecutionState
<1> QED
  BY <1>1, <1>2, <1>3

LEMMA ClearRetriesFacts ==
  ASSUME DispatcherInv, NEW keys, ClearRetries(keys)
  PROVE  RetryOK'
BY DispatcherAssumption DEF ClearRetries, DispatcherInv, RetryOK

(* step_dispatch returning leaves the control variables in their types.    *)
LEMMA StepReturnsFacts ==
  ASSUME DispatcherInv, NEW s \in Stepper, StepReturns(s)
  PROVE  /\ runtime' \in RuntimePoint
         /\ wakeup_pending' \in BOOLEAN
         /\ wakeup_event' \in BOOLEAN
BY DEF StepReturns, EndRuntime, NextWait, Emit, RuntimePoint, DispatcherInv,
       ControlOK

LEMMA StartNextFacts ==
  ASSUME DispatcherInv, StartNext
  PROVE  /\ Buckets'
         /\ state' \in [Operation -> ExecutionState]
<1>1. CASE ~is_paused /\ pulled = None /\ queue # <<>>
  <2>1. Pull /\ state' = [state EXCEPT ![Head(queue)] = "RUNNING"]
    BY <1>1 DEF StartNext
  <2> QED
    BY <2>1, PullKeepsBuckets DEF DispatcherInv, FieldsOK, ExecutionState
<1>2. CASE ~(~is_paused /\ pulled = None /\ queue # <<>>)
  <2>1. UNCHANGED <<buckets, state>>
    BY <1>2 DEF StartNext
  <2> QED
    BY <2>1 DEF buckets, DispatcherInv, FieldsOK, Buckets, OneBucket, Queued
<1> QED
  BY <1>1, <1>2

LEMMA FrameBuckets ==
  ASSUME DispatcherInv, UNCHANGED buckets
  PROVE  Buckets'
BY DEF buckets, DispatcherInv, Buckets, OneBucket, Queued
-----------------------------------------------------------------------------
LEMMA DispatcherInvInitially == Init => DispatcherInv
<1> SUFFICES ASSUME Init PROVE DispatcherInv
  OBVIOUS
<1>1. Buckets /\ key \in [Operation -> SortKey]
              /\ dependencies \in [Operation -> SUBSET Operation]
  BY QueueInvInitially DEF Init, QueueInv, QueueTypeOK, Buckets
<1>2. FieldsOK
  BY <1>1 DEF Init, FieldsOK, ExecutionState, ExecutionOutcome
<1>3. ControlOK
  BY DEF Init, ControlOK, RuntimePoint
<1>4. RetryOK
  BY DispatcherAssumption DEF Init, RetryOK
<1> QED
  BY <1>1, <1>2, <1>3, <1>4 DEF DispatcherInv

LEMMA DispatcherInvStep ==
  ASSUME ~ReAdd, DispatcherInv, [Next]_vars
  PROVE  DispatcherInv'
<1> USE DEF DispatcherInv
<1>1. ASSUME NEW o \in Operation, AddOperation(o) PROVE DispatcherInv'
  <2>1. Buckets'
    BY <1>1, AddKeepsBuckets DEF AddOperation
  <2>2. FieldsOK' /\ ControlOK' /\ RetryOK'
    BY <1>1 DEF AddOperation, attributes, retry, Emit, FieldsOK, ControlOK, RetryOK
  <2> QED
    BY <2>1, <2>2
<1>2. ASSUME NEW o \in Operation, NEW r \in {"SUCCESS", "FAILURE"}, Report(o, r)
      PROVE  DispatcherInv'
  <2>1. Buckets'
    BY <1>2, ArchivePulledKeepsBuckets DEF Report
  <2>2. FieldsOK'
    BY <1>2 DEF Report, attributes, FieldsOK, ExecutionState, ExecutionOutcome
  <2>3. ControlOK' /\ RetryOK'
    BY <1>2 DEF Report, retry, Emit, ControlOK, RetryOK
  <2> QED
    BY <2>1, <2>2, <2>3
<1>3. ASSUME NEW o \in Operation, NEW t \in RequestType,
             NEW s \in {"PAUSED", "RUNNING"}, RequestTransition(t, o, s)
      PROVE  DispatcherInv'
  <2>1. <<t, o>> \in RetryKey
    BY DEF RetryKey
  <2>2. Buckets'
    BY <1>3, FrameBuckets DEF RequestTransition
  <2>3. RetryOK' /\ is_paused' \in BOOLEAN /\ state' \in [Operation -> ExecutionState]
    <3>1. CASE ClearRetries({<<t, o>>}) /\ state' = [state EXCEPT ![o] = s]
               /\ UNCHANGED is_paused
      BY <3>1, ClearRetriesFacts DEF FieldsOK, ControlOK, ExecutionState
    <3>2. CASE Deny(<<t, o>>)
      BY <2>1, <3>2, DenyFacts
    <3> QED
      BY <1>3, <3>1, <3>2 DEF RequestTransition
  <2>4. FieldsOK' /\ ControlOK'
    BY <1>3, <2>3 DEF RequestTransition, attributes, Emit, FieldsOK, ControlOK
  <2> QED
    BY <2>2, <2>3, <2>4
<1>4. ASSUME NEW o \in Operation, CancelOperation(o) PROVE DispatcherInv'
  <2>1. <<"CANCEL", o>> \in RetryKey
    BY DEF RetryKey, RequestType
  <2>2. CASE Withdraw(o)
    <3>1. Buckets'
      BY <2>2, ArchivePulledKeepsBuckets, ArchiveQueuedKeepsBuckets
      DEF Withdraw, CancelHeld
    <3>2. RetryOK'
      BY <2>2, ClearRetriesFacts DEF Withdraw
    <3>3. FieldsOK' /\ ControlOK'
      BY <1>4, <2>2 DEF Withdraw, CancelOperation, attributes, Emit, FieldsOK,
                        ControlOK, ExecutionState, ExecutionOutcome
    <3> QED
      BY <3>1, <3>2, <3>3
  <2>3. CASE /\ ClearRetries({<<"CANCEL", o>>})
             /\ UNCHANGED <<buckets, lifecycle, is_paused>>
    <3>1. Buckets'
      BY <2>3, FrameBuckets
    <3>2. RetryOK'
      BY <2>3, ClearRetriesFacts
    <3>3. FieldsOK' /\ ControlOK'
      BY <1>4, <2>3 DEF CancelOperation, attributes, lifecycle, Emit, FieldsOK,
                        ControlOK
    <3> QED
      BY <3>1, <3>2, <3>3
  <2>4. CASE Deny(<<"CANCEL", o>>) /\ UNCHANGED <<buckets, outcome>>
    <3>1. Buckets'
      BY <2>4, FrameBuckets
    <3>2. RetryOK' /\ is_paused' \in BOOLEAN /\ state' \in [Operation -> ExecutionState]
      BY <2>1, <2>4, DenyFacts
    <3>3. FieldsOK' /\ ControlOK'
      BY <1>4, <2>4, <3>2 DEF CancelOperation, attributes, Emit, FieldsOK, ControlOK
    <3> QED
      BY <3>1, <3>2, <3>3
  <2> QED
    BY <1>4, <2>2, <2>3, <2>4 DEF CancelOperation
<1>5. ASSUME NEW o \in Operation, UpdateOperation(o) PROVE DispatcherInv'
  <2>1. Buckets'
    BY <1>5, ResortKeepsBuckets DEF UpdateOperation
  <2>2. key' \in [Operation -> SortKey]
    BY <1>5 DEF UpdateOperation, FieldsOK
  <2>3. dependencies' \in [Operation -> SUBSET Operation]
    <3>1. MayDependOn[o] \subseteq Operation
      BY QueueAssumption
    <3> QED
      BY <1>5, <3>1 DEF UpdateOperation, FieldsOK
  <2>4. held' \in SUBSET Operation
    BY <1>5 DEF UpdateOperation, FieldsOK
  <2>5. state' \in [Operation -> ExecutionState]
    BY <1>5 DEF UpdateOperation, FieldsOK
  <2>6. outcome' \in [Operation -> ExecutionOutcome]
    BY <1>5 DEF UpdateOperation, FieldsOK
  <2>7. UNCHANGED <<is_paused, stop_requested, retry, asked, runtime>>
    BY <1>5 DEF UpdateOperation
  <2>8. wakeup_pending' \in BOOLEAN /\ wakeup_event' \in BOOLEAN
    BY <1>5 DEF UpdateOperation, Emit, ControlOK
  <2>9. FieldsOK' /\ ControlOK' /\ RetryOK'
    BY <2>2, <2>3, <2>4, <2>5, <2>6, <2>7, <2>8 DEF FieldsOK, ControlOK, RetryOK,
                                                    retry
  <2> QED
    BY <2>1, <2>9
<1>6. ASSUME NEW o \in Operation, ReleaseDatePasses(o) PROVE DispatcherInv'
  <2>1. Buckets'
    BY <1>6, FrameBuckets DEF ReleaseDatePasses
  <2> QED
    BY <1>6, <2>1 DEF ReleaseDatePasses, attributes, lifecycle, retry, loop,
                      FieldsOK, ControlOK, RetryOK
<1>7. ASSUME NEW k \in RetryKey, CooldownExpires(k) PROVE DispatcherInv'
  <2>1. Buckets'
    BY <1>7, FrameBuckets DEF CooldownExpires
  <2> QED
    BY <1>7, <2>1 DEF CooldownExpires, attributes, lifecycle, retry, loop,
                      FieldsOK, ControlOK, RetryOK
<1>8. ASSUME NEW s \in Stepper, CallerAsks(s) PROVE DispatcherInv'
  <2>1. Buckets'
    BY <1>8, FrameBuckets DEF CallerAsks
  <2>2. Head(queue) \in Operation
    BY <1>8 DEF CallerAsks, HeadMayBeAsked, Buckets
  <2> QED
    BY <1>8, <2>1, <2>2 DEF CallerAsks, attributes, lifecycle, retry, loop,
                            FieldsOK, ControlOK, RetryOK
<1>9. ASSUME NEW s \in Stepper, StartAccepted(s) PROVE DispatcherInv'
  <2>1. Buckets' /\ state' \in [Operation -> ExecutionState]
    BY <1>9, StartNextFacts DEF StartAccepted
  <2>2. RetryOK'
    BY <1>9, ClearRetriesFacts DEF StartAccepted
  <2>3. runtime' \in RuntimePoint /\ wakeup_pending' \in BOOLEAN
        /\ wakeup_event' \in BOOLEAN
    BY <1>9, StepReturnsFacts DEF StartAccepted
  <2>4. FieldsOK' /\ ControlOK'
    BY <1>9, <2>1, <2>3 DEF StartAccepted, attributes, FieldsOK, ControlOK
  <2> QED
    BY <2>1, <2>2, <2>4
<1>10. ASSUME NEW s \in Stepper, StartDenied(s) PROVE DispatcherInv'
  <2>1. Buckets'
    BY <1>10, FrameBuckets DEF StartDenied
  <2>2. <<"START", asked[s]>> \in RetryKey
    BY <1>10 DEF StartDenied, ControlOK, RetryKey, RequestType
  <2>3. RetryOK' /\ is_paused' \in BOOLEAN /\ state' \in [Operation -> ExecutionState]
    BY <1>10, <2>2, DenyFacts DEF StartDenied
  <2>4. runtime' \in RuntimePoint /\ wakeup_pending' \in BOOLEAN
        /\ wakeup_event' \in BOOLEAN
    BY <1>10, StepReturnsFacts DEF StartDenied
  <2>5. FieldsOK' /\ ControlOK'
    BY <1>10, <2>3, <2>4 DEF StartDenied, attributes, FieldsOK, ControlOK
  <2> QED
    BY <2>1, <2>3, <2>5
<1>11. ASSUME PauseDispatcher PROVE DispatcherInv'
  <2>1. Buckets'
    BY <1>11, FrameBuckets DEF PauseDispatcher
  <2> QED
    BY <1>11, <2>1 DEF PauseDispatcher, MarkPaused, attributes, retry, Emit,
                       FieldsOK, ControlOK, RetryOK, ExecutionState
<1>12. ASSUME ResumeDispatcher PROVE DispatcherInv'
  <2>1. Buckets'
    BY <1>12, FrameBuckets DEF ResumeDispatcher
  <2>2. RetryOK'
    BY <1>12, ClearRetriesFacts DEF ResumeDispatcher
  <2> QED
    BY <1>12, <2>1, <2>2 DEF ResumeDispatcher, attributes, lifecycle, Emit,
                             FieldsOK, ControlOK
<1>13. ASSUME RequestStop PROVE DispatcherInv'
  <2>1. Buckets'
    BY <1>13, FrameBuckets DEF RequestStop
  <2> QED
    BY <1>13, <2>1 DEF RequestStop, attributes, lifecycle, retry, Emit, FieldsOK,
                       ControlOK, RetryOK
<1>14. ASSUME Run PROVE DispatcherInv'
  <2>1. Buckets'
    BY <1>14, FrameBuckets DEF Run
  <2>2. HeadMayBeAsked => Head(queue) \in Operation
    BY DEF HeadMayBeAsked, Buckets
  <2>3. ControlOK'
    BY <1>14, <2>2 DEF Run, NextWait, ControlOK, RuntimePoint
  <2> QED
    BY <1>14, <2>1, <2>3 DEF Run, attributes, lifecycle, retry, FieldsOK, RetryOK
<1>15. ASSUME RuntimeAsks PROVE DispatcherInv'
  <2>1. Buckets'
    BY <1>15, FrameBuckets DEF RuntimeAsks
  <2>2. Head(queue) \in Operation
    BY <1>15 DEF RuntimeAsks, HeadMayBeAsked, Buckets
  <2> QED
    BY <1>15, <2>1, <2>2
    DEF RuntimeAsks, ClearWakeup, attributes, lifecycle, retry, FieldsOK,
        ControlOK, RetryOK, RuntimePoint
<1>16. ASSUME RuntimeWaits PROVE DispatcherInv'
  <2>1. Buckets'
    BY <1>16, FrameBuckets DEF RuntimeWaits
  <2> QED
    BY <1>16, <2>1
    DEF RuntimeWaits, NextWait, ClearWakeup, attributes, lifecycle, retry,
        FieldsOK, ControlOK, RetryOK, RuntimePoint
<1>17. ASSUME RuntimeEnds PROVE DispatcherInv'
  <2>1. Buckets'
    BY <1>17, FrameBuckets DEF RuntimeEnds
  <2> QED
    BY <1>17, <2>1 DEF RuntimeEnds, EndRuntime, attributes, lifecycle, retry,
                       FieldsOK, ControlOK, RetryOK, RuntimePoint
<1>18. ASSUME CancelRuntime PROVE DispatcherInv'
  <2>1. Buckets'
    BY <1>18, FrameBuckets DEF CancelRuntime
  <2> QED
    BY <1>18, <2>1 DEF CancelRuntime, EndRuntime, attributes, lifecycle, retry,
                       FieldsOK, ControlOK, RetryOK, RuntimePoint
<1>19. ASSUME DeliverWakeup PROVE DispatcherInv'
  <2>1. Buckets'
    BY <1>19, FrameBuckets DEF DeliverWakeup
  <2> QED
    BY <1>19, <2>1 DEF DeliverWakeup, attributes, lifecycle, retry, FieldsOK,
                       ControlOK, RetryOK
<1>20. ASSUME UNCHANGED vars PROVE DispatcherInv'
  BY <1>20 DEF vars, Buckets, OneBucket, Queued, FieldsOK, ControlOK, RetryOK
<1> QED
  BY <1>1, <1>2, <1>3, <1>4, <1>5, <1>6, <1>7, <1>8, <1>9, <1>10, <1>11, <1>12,
     <1>13, <1>14, <1>15, <1>16, <1>17, <1>18, <1>19, <1>20
  DEF Next, CompleteOperation, FailOperation, PauseOperation, ResumeOperation,
      RequestType, Answer, Runtime

LEMMA DispatcherInvAlways ==
  ASSUME ~ReAdd PROVE Spec => []DispatcherInv
<1>1. DispatcherInv /\ [Next]_vars => DispatcherInv'
  BY DispatcherInvStep
<1> QED
  BY DispatcherInvInitially, <1>1, PTL DEF Spec

(* Type correctness, for every value of the constants.                     *)
THEOREM DispatcherTypeOK ==
  ASSUME ~ReAdd PROVE Spec => []TypeOK
<1>1. DispatcherInv => TypeOK
  BY DispatcherInvIsTyped
<1> QED
  BY <1>1, DispatcherInvAlways, PTL

(* One bucket per operation also when the dispatcher drives the queue.     *)
THEOREM DispatcherOneBucket ==
  ASSUME ~ReAdd PROVE Spec => []OneBucket
<1>1. DispatcherInv => OneBucket
  BY DispatcherInvIsTyped
<1> QED
  BY <1>1, DispatcherInvAlways, PTL
-----------------------------------------------------------------------------
(* ExhaustedMeansPaused.                                                   *)

LEMMA DenyKeepsExhausted ==
  ASSUME DispatcherInv, ExhaustedMeansPaused, NEW k \in RetryKey, Deny(k)
  PROVE  ExhaustedMeansPaused'
<1>1. denials \in [RetryKey -> 0..MaxRetries]
  BY DEF DispatcherInv, RetryOK
<1>2. denials' = [denials EXCEPT ![k] = IF @ < MaxRetries THEN @ + 1 ELSE @]
  BY DEF Deny, CountDenial
<1>3. CASE denials[k] + 1 >= MaxRetries
  BY <1>3 DEF Deny, MarkPaused, ExhaustedMeansPaused
<1>4. CASE ~(denials[k] + 1 >= MaxRetries)
  <2>1. is_paused' = is_paused
    BY <1>4 DEF Deny
  <2>2. denials'[k] = denials[k] + 1 /\ denials'[k] # MaxRetries
    BY <1>1, <1>2, <1>4, DispatcherAssumption
  <2>3. \A j \in RetryKey \ {k} : denials'[j] = denials[j]
    BY <1>1, <1>2
  <2> QED
    BY <2>1, <2>2, <2>3 DEF ExhaustedMeansPaused
<1> QED
  BY <1>3, <1>4

LEMMA ClearRetriesKeepsExhausted ==
  ASSUME ExhaustedMeansPaused, NEW keys, ClearRetries(keys), is_paused' = is_paused
  PROVE  ExhaustedMeansPaused'
BY DispatcherAssumption DEF ExhaustedMeansPaused, ClearRetries

LEMMA ExhaustedStep ==
  ASSUME DispatcherInv, ExhaustedMeansPaused, [Next]_vars
  PROVE  ExhaustedMeansPaused'
<1>1. ASSUME UNCHANGED <<denials, is_paused>> PROVE ExhaustedMeansPaused'
  BY <1>1 DEF ExhaustedMeansPaused
<1>2. ASSUME is_paused' = TRUE PROVE ExhaustedMeansPaused'
  BY <1>2 DEF ExhaustedMeansPaused
<1>3. ASSUME NEW o \in Operation, NEW t \in RequestType, NEW s,
             RequestTransition(t, o, s)
      PROVE  ExhaustedMeansPaused'
  <2>1. <<t, o>> \in RetryKey
    BY DEF RetryKey
  <2> QED
    BY <1>3, <2>1, DenyKeepsExhausted, ClearRetriesKeepsExhausted
    DEF RequestTransition
<1>4. ASSUME NEW o \in Operation, CancelOperation(o) PROVE ExhaustedMeansPaused'
  <2>1. <<"CANCEL", o>> \in RetryKey
    BY DEF RetryKey, RequestType
  <2>2. CASE Withdraw(o)
    BY <2>2, ClearRetriesKeepsExhausted DEF Withdraw
  <2>3. CASE ClearRetries({<<"CANCEL", o>>}) /\ is_paused' = is_paused
    BY <2>3, ClearRetriesKeepsExhausted
  <2>4. CASE Deny(<<"CANCEL", o>>)
    BY <2>1, <2>4, DenyKeepsExhausted
  <2> QED
    BY <1>4, <2>2, <2>3, <2>4 DEF CancelOperation
<1>5. ASSUME NEW s \in Stepper, StartAccepted(s) PROVE ExhaustedMeansPaused'
  BY <1>5, ClearRetriesKeepsExhausted DEF StartAccepted
<1>6. ASSUME NEW s \in Stepper, StartDenied(s) PROVE ExhaustedMeansPaused'
  <2>1. <<"START", asked[s]>> \in RetryKey
    BY <1>6 DEF StartDenied, DispatcherInv, ControlOK, RetryKey, RequestType
  <2> QED
    BY <1>6, <2>1, DenyKeepsExhausted DEF StartDenied
<1>7. ASSUME ResumeDispatcher PROVE ExhaustedMeansPaused'
  BY <1>7, DispatcherAssumption
  DEF ResumeDispatcher, ClearRetries, ExhaustedMeansPaused
<1> QED
  BY <1>1, <1>2, <1>3, <1>4, <1>5, <1>6, <1>7
  DEF Next, Runtime, Answer, AddOperation, CompleteOperation, FailOperation,
      Report, PauseOperation, ResumeOperation, RequestType, UpdateOperation,
      ReleaseDatePasses, CooldownExpires, CallerAsks, PauseDispatcher,
      MarkPaused, RequestStop, Run, RuntimeAsks, RuntimeWaits, RuntimeEnds,
      CancelRuntime, DeliverWakeup, retry, vars

(* README.md:133: whatever the denial limit and however many requests are  *)
(* in flight, an operation whose denials reached the limit leaves the      *)
(* dispatcher paused until the retry state is cleared.                     *)
THEOREM DispatcherExhaustedMeansPaused ==
  ASSUME ~ReAdd PROVE Spec => []ExhaustedMeansPaused
<1>1. Init => ExhaustedMeansPaused
  BY DispatcherAssumption DEF Init, ExhaustedMeansPaused
<1>2. DispatcherInv /\ ExhaustedMeansPaused /\ [Next]_vars => ExhaustedMeansPaused'
  BY ExhaustedStep
<1> QED
  BY <1>1, <1>2, DispatcherInvAlways, PTL DEF Spec
-----------------------------------------------------------------------------
(* NoLostWakeup.                                                           *)

LEMMA WakeupStep ==
  ASSUME ~ReAdd, DispatcherInv, NoLostWakeup, [Next]_vars
  PROVE  NoLostWakeup'
<1>1. ASSUME Emit, runtime' = runtime PROVE NoLostWakeup'
  BY <1>1 DEF Emit, NoLostWakeup
<1>2. ASSUME runtime' # "blocked" PROVE NoLostWakeup'
  BY <1>2 DEF NoLostWakeup
<1>3. ASSUME UNCHANGED <<runtime, stop_requested, is_paused, queue,
                         wakeup_pending, wakeup_event>>
      PROVE  NoLostWakeup'
  BY <1>3 DEF NoLostWakeup
<1>4. ASSUME NEW o \in Operation, UpdateOperation(o) PROVE NoLostWakeup'
  <2>1. CASE Emit
    BY <1>1, <1>4, <2>1 DEF UpdateOperation
  <2>2. CASE UNCHANGED <<wakeup_pending, wakeup_event>>
    <3>1. Sorts(queue, queue', key', dependencies')
      BY <1>4 DEF UpdateOperation, Resort
    <3>2. queue \in Seq(Operation)
      BY DEF DispatcherInv, Buckets
    <3>3. queue' \in Seq(Operation) /\ Len(queue') = Len(queue)
      BY <3>1, <3>2, SortsFacts
    <3>4. queue = <<>> => queue' = <<>>
      BY <3>2, <3>3
    <3> QED
      BY <1>4, <2>2, <3>4 DEF UpdateOperation, NoLostWakeup
  <2> QED
    BY <1>4, <2>1, <2>2 DEF UpdateOperation
<1>5. ASSUME NEW s \in Stepper, StepReturns(s), UNCHANGED stop_requested
      PROVE  NoLostWakeup'
  <2>1. CASE s # "run"
    BY <1>1, <1>5, <2>1 DEF StepReturns
  <2>2. CASE s = "run" /\ stop_requested
    BY <1>2, <1>5, <2>2 DEF StepReturns, EndRuntime
  <2>3. CASE s = "run" /\ ~stop_requested
    <3>1. runtime' = NextWait(is_paused', queue', cooling') /\ ~stop_requested'
      BY <1>5, <2>3 DEF StepReturns
    <3> QED
      BY <3>1 DEF NextWait, NoLostWakeup
  <2> QED
    BY <2>1, <2>2, <2>3
<1>6. ASSUME NEW s \in Stepper, Answer(s) PROVE NoLostWakeup'
  BY <1>5, <1>6 DEF Answer, StartAccepted, StartDenied
<1>7. ASSUME RuntimeWaits PROVE NoLostWakeup'
  <2>1. /\ runtime' = NextWait(is_paused, queue, cooling)
        /\ ~stop_requested
        /\ UNCHANGED <<queue, is_paused, stop_requested>>
    BY <1>7 DEF RuntimeWaits, buckets
  <2> QED
    BY <2>1 DEF NextWait, NoLostWakeup
<1>8. ASSUME DeliverWakeup PROVE NoLostWakeup'
  BY <1>8 DEF DeliverWakeup, NoLostWakeup
<1>9. ASSUME NEW o \in Operation, \/ AddOperation(o)
                                  \/ CompleteOperation(o)
                                  \/ FailOperation(o)
                                  \/ PauseOperation(o)
                                  \/ ResumeOperation(o)
                                  \/ CancelOperation(o)
      PROVE  NoLostWakeup'
  BY <1>1, <1>9 DEF AddOperation, CompleteOperation, FailOperation, Report,
                    PauseOperation, ResumeOperation, RequestTransition,
                    CancelOperation
<1>10. ASSUME PauseDispatcher \/ ResumeDispatcher \/ RequestStop
       PROVE  NoLostWakeup'
  BY <1>1, <1>10 DEF PauseDispatcher, ResumeDispatcher, RequestStop
<1>11. ASSUME Run \/ RuntimeAsks \/ RuntimeEnds \/ CancelRuntime
       PROVE  NoLostWakeup'
  BY <1>2, <1>11 DEF Run, RuntimeAsks, RuntimeEnds, CancelRuntime, EndRuntime,
                     NoLostWakeup
<1>12. ASSUME \/ \E o \in Operation : ReleaseDatePasses(o)
              \/ \E k \in RetryKey : CooldownExpires(k)
              \/ \E s \in Stepper : CallerAsks(s)
       PROVE  NoLostWakeup'
  BY <1>3, <1>12 DEF ReleaseDatePasses, CooldownExpires, CallerAsks, buckets, loop
<1>13. ASSUME UNCHANGED vars PROVE NoLostWakeup'
  BY <1>3, <1>13 DEF vars
<1> QED
  BY <1>4, <1>6, <1>7, <1>8, <1>9, <1>10, <1>11, <1>12, <1>13 DEF Next, Runtime

(* run() is never left waiting on an event nobody will set while there is  *)
(* work to dispatch or a stop to obey, for any number of operations.       *)
THEOREM DispatcherNoLostWakeup ==
  ASSUME ~ReAdd PROVE Spec => []NoLostWakeup
<1>1. Init => NoLostWakeup
  BY DEF Init, NoLostWakeup
<1>2. DispatcherInv /\ NoLostWakeup /\ [Next]_vars => NoLostWakeup'
  BY WakeupStep
<1> QED
  BY <1>1, <1>2, DispatcherInvAlways, PTL DEF Spec
-----------------------------------------------------------------------------
(* StateAgreesWithBucket, for updates that leave state and outcome alone.  *)

KeepsLifecycle == UpdatableFields \cap {"state", "outcome"} = {}

LEMMA BucketsDisjoint ==
  ASSUME DispatcherInv
  PROVE  /\ Queued \subseteq Operation
         /\ None \notin Operation
         /\ Queued \cap completed = {}
         /\ pulled \notin Queued
         /\ pulled \notin completed
BY QueueAssumption DEF DispatcherInv, Buckets, OneBucket, Queued, Range

(* Marking the active operation, as a pause or a denial at the limit does. *)
LEMMA DenyKeepsAgreement ==
  ASSUME DispatcherInv, StateAgreesWithBucket, UNCHANGED <<pulled, completed, outcome>>,
         \/ UNCHANGED state
         \/ state' = IF pulled = None THEN state
                                      ELSE [state EXCEPT ![pulled] = "PAUSED"]
  PROVE  StateAgreesWithBucket'
<1>1. state \in [Operation -> ExecutionState]
  BY DEF DispatcherInv, FieldsOK
<1>2. \A o \in Operation : state'[o] = state[o] \/ (o = pulled /\ state'[o] = "PAUSED")
  BY <1>1
<1> QED
  BY <1>2, BucketsDisjoint DEF StateAgreesWithBucket

(* The operation in the active slot leaves it with an outcome.             *)
LEMMA ArchiveKeepsAgreement ==
  ASSUME DispatcherInv, StateAgreesWithBucket, NEW o \in Operation,
         CancelHeld(o), NEW r \in ExecutionOutcome \ {"NONE"},
         state' = [state EXCEPT ![o] = "COMPLETED"],
         outcome' = [outcome EXCEPT ![o] = r]
  PROVE  StateAgreesWithBucket'
<1>1. /\ state \in [Operation -> ExecutionState]
      /\ outcome \in [Operation -> ExecutionOutcome]
  BY DEF DispatcherInv, FieldsOK
<1>2. /\ state'[o] = "COMPLETED" /\ outcome'[o] = r
      /\ \A p \in Operation \ {o} : state'[p] = state[p] /\ outcome'[p] = outcome[p]
  BY <1>1
<1>3. /\ completed' = completed \cup {o}
      /\ pulled' \in {pulled, None}
      /\ pulled' # o
      /\ pulled' = None => pulled \in {o, None}
  BY QueueAssumption DEF CancelHeld, ArchivePulled, ArchiveQueued
<1> QED
  BY <1>2, <1>3, BucketsDisjoint DEF StateAgreesWithBucket

LEMMA StartKeepsAgreement ==
  ASSUME DispatcherInv, StateAgreesWithBucket, StartNext, UNCHANGED outcome
  PROVE  StateAgreesWithBucket'
<1>1. CASE UNCHANGED <<buckets, state>>
  BY <1>1 DEF buckets, StateAgreesWithBucket
<1>2. CASE /\ pulled = None
           /\ Pull
           /\ state' = [state EXCEPT ![Head(queue)] = "RUNNING"]
  <2>1. /\ pulled' = Head(queue)
        /\ pulled' \in Queued
    BY <1>2, PullKeepsBuckets DEF DispatcherInv
  <2>2. completed' = completed
    BY <1>2 DEF Pull
  <2>3. state \in [Operation -> ExecutionState]
    BY DEF DispatcherInv, FieldsOK
  <2>4. \A p \in Operation : state'[p] = IF p = pulled' THEN "RUNNING" ELSE state[p]
    BY <1>2, <2>1, <2>3
  <2>5. pulled' \in Operation /\ pulled' \notin completed /\ pulled' # pulled
    BY <2>1, BucketsDisjoint
  <2> QED
    BY <1>2, <2>2, <2>4, <2>5, BucketsDisjoint DEF StateAgreesWithBucket
<1> QED
  BY <1>1, <1>2 DEF StartNext

LEMMA AgreementStep ==
  ASSUME KeepsLifecycle, DispatcherInv, StateAgreesWithBucket, [Next]_vars
  PROVE  StateAgreesWithBucket'
<1>1. ASSUME UNCHANGED <<pulled, completed, state, outcome>>
      PROVE  StateAgreesWithBucket'
  BY <1>1 DEF StateAgreesWithBucket
<1>2. ASSUME NEW o \in Operation, AddOperation(o) PROVE StateAgreesWithBucket'
  BY <1>1, <1>2 DEF AddOperation, Add
<1>3. ASSUME NEW o \in Operation, CompleteOperation(o) \/ FailOperation(o)
      PROVE  StateAgreesWithBucket'
  BY <1>3, ArchiveKeepsAgreement
  DEF CompleteOperation, FailOperation, Report, CancelHeld, ExecutionOutcome
<1>4. ASSUME NEW o \in Operation, PauseOperation(o) \/ ResumeOperation(o)
      PROVE  StateAgreesWithBucket'
  <2>1. PICK t \in RequestType, s \in {"PAUSED", "RUNNING"} : RequestTransition(t, o, s)
    BY <1>4 DEF PauseOperation, ResumeOperation, RequestType
  <2>2. UNCHANGED <<pulled, completed, outcome>> /\ pulled = o
    BY <2>1 DEF RequestTransition, buckets
  <2>3. CASE Deny(<<t, o>>)
    BY <2>2, <2>3, DenyKeepsAgreement DEF Deny, MarkPaused
  <2>4. CASE state' = [state EXCEPT ![o] = s]
    <3>1. state \in [Operation -> ExecutionState]
      BY DEF DispatcherInv, FieldsOK
    <3>2. state'[o] \in {"PAUSED", "RUNNING"}
          /\ \A p \in Operation \ {o} : state'[p] = state[p]
      BY <2>4, <3>1
    <3> QED
      BY <2>2, <3>2, BucketsDisjoint DEF StateAgreesWithBucket
  <2> QED
    BY <2>1, <2>3, <2>4 DEF RequestTransition
<1>5. ASSUME NEW o \in Operation, CancelOperation(o) PROVE StateAgreesWithBucket'
  <2>1. CASE Withdraw(o)
    BY <2>1, ArchiveKeepsAgreement DEF Withdraw, ExecutionOutcome
  <2>2. CASE UNCHANGED <<buckets, lifecycle, is_paused>>
    BY <1>1, <2>2 DEF buckets, lifecycle
  <2>3. CASE Deny(<<"CANCEL", o>>) /\ UNCHANGED <<buckets, outcome>>
    BY <2>3, DenyKeepsAgreement DEF Deny, MarkPaused, buckets
  <2> QED
    BY <1>5, <2>1, <2>2, <2>3 DEF CancelOperation
<1>6. ASSUME NEW o \in Operation, UpdateOperation(o) PROVE StateAgreesWithBucket'
  BY <1>1, <1>6 DEF UpdateOperation, Resort, KeepsLifecycle
<1>7. ASSUME NEW s \in Stepper, StartAccepted(s) PROVE StateAgreesWithBucket'
  BY <1>7, StartKeepsAgreement DEF StartAccepted
<1>8. ASSUME NEW s \in Stepper, StartDenied(s) PROVE StateAgreesWithBucket'
  BY <1>8, DenyKeepsAgreement DEF StartDenied, Deny, MarkPaused, buckets
<1>9. ASSUME PauseDispatcher PROVE StateAgreesWithBucket'
  BY <1>9, DenyKeepsAgreement DEF PauseDispatcher, MarkPaused, buckets
<1>10. ASSUME \/ \E o \in Operation : ReleaseDatePasses(o)
              \/ \E k \in RetryKey : CooldownExpires(k)
              \/ \E s \in Stepper : CallerAsks(s)
              \/ ResumeDispatcher \/ RequestStop \/ Run \/ Runtime
              \/ CancelRuntime \/ DeliverWakeup
              \/ UNCHANGED vars
       PROVE  StateAgreesWithBucket'
  BY <1>1, <1>10
  DEF ReleaseDatePasses, CooldownExpires, CallerAsks, ResumeDispatcher,
      RequestStop, Run, Runtime, RuntimeAsks, RuntimeWaits, RuntimeEnds,
      CancelRuntime, DeliverWakeup, buckets, lifecycle, vars
<1> QED
  BY <1>2, <1>3, <1>4, <1>5, <1>6, <1>7, <1>8, <1>9, <1>10 DEF Next, Answer

LEMMA AgreementInitially == Init => StateAgreesWithBucket
BY QueueAssumption DEF Init, QueueInit, StateAgreesWithBucket

(* README.md:151-159, for every instance whose updates may not write state *)
(* and outcome: no order of calls, answers and pauses lets an operation's  *)
(* fields and its bucket drift apart.                                      *)
THEOREM DispatcherStateAgrees ==
  ASSUME ~ReAdd, KeepsLifecycle PROVE Spec => []StateAgreesWithBucket
<1>1. DispatcherInv /\ StateAgreesWithBucket /\ [Next]_vars => StateAgreesWithBucket'
  BY AgreementStep
<1> QED
  BY AgreementInitially, <1>1, DispatcherInvAlways, PTL DEF Spec
-----------------------------------------------------------------------------
(* Steps of the dispatcher.                                                *)

(* action_descriptions.py:52: a paused dispatcher starts nothing, however  *)
(* long ago and by whichever coroutine the start was asked.                *)
THEOREM DispatcherPausedStartsNothing == Spec => PausedStartsNothing
<1>1. ASSUME [Next]_vars, is_paused PROVE pulled' \in {pulled, None}
  <2>1. ASSUME NEW o \in Operation, CancelHeld(o) PROVE pulled' \in {pulled, None}
    BY <2>1 DEF CancelHeld, ArchivePulled, ArchiveQueued
  <2>2. ASSUME StartNext PROVE pulled' = pulled
    BY <1>1, <2>2 DEF StartNext, buckets
  <2>3. ASSUME UNCHANGED buckets PROVE pulled' = pulled
    BY <2>3 DEF buckets
  <2>4. ASSUME NEW o \in Operation, \/ AddOperation(o)
                                    \/ UpdateOperation(o)
        PROVE  pulled' = pulled
    BY <2>4 DEF AddOperation, Add, UpdateOperation, Resort
  <2>5. ASSUME NEW o \in Operation, CompleteOperation(o) \/ FailOperation(o)
        PROVE  pulled' = None
    BY <2>5 DEF CompleteOperation, FailOperation, Report, ArchivePulled
  <2>6. ASSUME NEW o \in Operation, CancelOperation(o)
        PROVE  pulled' \in {pulled, None}
    BY <2>1, <2>3, <2>6 DEF CancelOperation, Withdraw
  <2>7. ASSUME NEW s \in Stepper, Answer(s) PROVE pulled' = pulled
    BY <2>2, <2>3, <2>7 DEF Answer, StartAccepted, StartDenied
  <2> QED
    BY <1>1, <2>3, <2>4, <2>5, <2>6, <2>7
    DEF Next, Runtime, PauseOperation, ResumeOperation, RequestTransition,
        ReleaseDatePasses, CooldownExpires, CallerAsks, PauseDispatcher,
        ResumeDispatcher, RequestStop, Run, RuntimeAsks, RuntimeWaits,
        RuntimeEnds, CancelRuntime, DeliverWakeup, vars
<1>2. [Next]_vars => [is_paused => pulled' \in {pulled, None}]_vars
  BY <1>1
<1> QED
  BY <1>2, PTL DEF Spec, PausedStartsNothing
-----------------------------------------------------------------------------
(* Implementation of SingleResource.                                       *)

LEMMA PhaseUnchanged ==
  ASSUME pulled' = pulled, completed' = completed, Queued' = Queued
  PROVE  Phase' = Phase
BY DEF Phase

LEMMA PauseIsAbstractStep ==
  ASSUME UNCHANGED <<buckets, outcome>>, is_paused' \in BOOLEAN
  PROVE  Resource!SetPaused
<1>1. Phase' = Phase
  BY PhaseUnchanged DEF buckets, Queued
<1> QED
  BY <1>1 DEF Resource!SetPaused

LEMMA ArchiveIsAbstractStep ==
  ASSUME DispatcherInv, NEW o \in Operation, CancelHeld(o),
         NEW r \in Resource!Final, outcome' = [outcome EXCEPT ![o] = r],
         ArchiveQueued(o) => r = "CANCELLED", is_paused' = is_paused
  PROVE  Resource!Finish(o) \/ Resource!Withdraw(o)
<1>1. CASE ArchivePulled(o)
  <2>1. Queued' = Queued
    BY <1>1 DEF ArchivePulled, Queued
  <2>2. pulled = o /\ pulled' = None /\ completed' = completed \cup {o}
    BY <1>1 DEF ArchivePulled
  <2>3. Phase[o] = "active"
    BY <2>2 DEF Phase
  <2>4. Phase' = [Phase EXCEPT ![o] = "done"]
    <3>1. \A p \in Operation : Phase'[p] = IF p = o THEN "done" ELSE Phase[p]
      BY <2>1, <2>2, BucketsDisjoint DEF Phase
    <3> QED
      BY <3>1 DEF Phase
  <2> QED
    BY <2>3, <2>4 DEF Resource!Finish
<1>2. CASE ArchiveQueued(o)
  <2>1. Queued' = Queued \ {o}
    BY <1>2, ArchiveQueuedKeepsBuckets DEF DispatcherInv
  <2>2. o \in Queued /\ pulled # o /\ pulled' = pulled /\ completed' = completed \cup {o}
    BY <1>2 DEF ArchiveQueued
  <2>3. Phase[o] = "waiting"
    BY <2>2 DEF Phase
  <2>4. Phase' = [Phase EXCEPT ![o] = "done"]
    <3>1. \A p \in Operation : Phase'[p] = IF p = o THEN "done" ELSE Phase[p]
      BY <2>1, <2>2, BucketsDisjoint DEF Phase
    <3> QED
      BY <3>1 DEF Phase
  <2> QED
    BY <1>2, <2>3, <2>4 DEF Resource!Withdraw
<1> QED
  BY <1>1, <1>2 DEF CancelHeld

LEMMA AddIsAbstractStep ==
  ASSUME ~ReAdd, DispatcherInv, NEW o \in Operation, AddOperation(o)
  PROVE  Resource!Admit(o)
<1>1. /\ o \notin Known
      /\ Add(o)
      /\ UNCHANGED <<outcome, is_paused>>
  BY DEF AddOperation
<1>2. Queued' = Queued \cup {o}
  BY <1>1, AddKeepsBuckets DEF DispatcherInv
<1>3. pulled' = pulled /\ completed' = completed
  BY <1>1 DEF Add
<1>4. o \notin Queued /\ o \notin completed /\ o # pulled
  BY <1>1, QueueAssumption DEF Known
<1>5. Phase[o] = "absent"
  BY <1>4 DEF Phase
<1>6. Phase' = [Phase EXCEPT ![o] = "waiting"]
  <2>1. \A p \in Operation : Phase'[p] = IF p = o THEN "waiting" ELSE Phase[p]
    BY <1>2, <1>3, <1>4 DEF Phase
  <2> QED
    BY <2>1 DEF Phase
<1> QED
  BY <1>1, <1>5, <1>6 DEF Resource!Admit

LEMMA StartIsAbstractStep ==
  ASSUME DispatcherInv, StartNext, UNCHANGED <<outcome, is_paused>>
  PROVE  (\E o \in Operation : Resource!Dispatch(o)) \/ UNCHANGED Resource!vars
<1>1. CASE ~is_paused /\ pulled = None /\ queue # <<>>
  <2> DEFINE o == Head(queue)
  <2>1. Pull
    BY <1>1 DEF StartNext
  <2>2. pulled' = o /\ o \in Queued /\ Queued' = Queued \ {o}
    BY <2>1, PullKeepsBuckets DEF DispatcherInv
  <2>3. completed' = completed
    BY <2>1 DEF Pull
  <2>4. o \in Operation /\ o \notin completed
    BY <2>2, BucketsDisjoint
  <2> HIDE DEF o
  <2>5. Phase[o] = "waiting"
    BY <1>1, <2>2, <2>4, QueueAssumption DEF Phase
  <2>6. \A p \in Operation : Phase[p] # "active"
    BY <1>1, QueueAssumption DEF Phase
  <2>7. Phase' = [Phase EXCEPT ![o] = "active"]
    <3>1. \A p \in Operation : Phase'[p] = IF p = o THEN "active" ELSE Phase[p]
      BY <1>1, <2>2, <2>3, <2>4, QueueAssumption DEF Phase
    <3> QED
      BY <3>1 DEF Phase
  <2>8. Resource!Dispatch(o)
    BY <1>1, <2>5, <2>6, <2>7 DEF Resource!Dispatch
  <2> QED
    BY <2>4, <2>8
<1>2. CASE ~(~is_paused /\ pulled = None /\ queue # <<>>)
  <2>1. UNCHANGED buckets
    BY <1>2 DEF StartNext
  <2>2. Phase' = Phase
    BY <2>1, PhaseUnchanged DEF buckets, Queued
  <2> QED
    BY <2>2 DEF Resource!vars
<1> QED
  BY <1>1, <1>2

LEMMA DispatcherStepIsAbstractStep ==
  ASSUME ~ReAdd, KeepsLifecycle, DispatcherInv, DispatcherInv', [Next]_vars
  PROVE  [Resource!Next]_(Resource!vars)
<1> DEFINE Goal == [Resource!Next]_(Resource!vars)
<1>1. is_paused' \in BOOLEAN
  BY DEF DispatcherInv, ControlOK
<1>2. ASSUME UNCHANGED <<buckets, outcome>> PROVE Goal
  BY <1>1, <1>2, PauseIsAbstractStep DEF Resource!Next
<1>3. ASSUME NEW o \in Operation, AddOperation(o) PROVE Goal
  BY <1>3, AddIsAbstractStep DEF Resource!Next
<1>4. ASSUME NEW o \in Operation, NEW r \in {"SUCCESS", "FAILURE"}, Report(o, r)
      PROVE  Goal
  <2>1. ~ArchiveQueued(o)
    BY <1>4 DEF Report, ArchivePulled, ArchiveQueued
  <2>2. r \in Resource!Final /\ CancelHeld(o) /\ is_paused' = is_paused
        /\ outcome' = [outcome EXCEPT ![o] = r]
    BY <1>4 DEF Report, CancelHeld, Resource!Final
  <2>3. Resource!Finish(o) \/ Resource!Withdraw(o)
    BY <2>1, <2>2, ArchiveIsAbstractStep
  <2> QED
    BY <2>3 DEF Resource!Next
<1>5. ASSUME NEW o \in Operation, CancelOperation(o) PROVE Goal
  <2>1. CASE Withdraw(o)
    <3>1. "CANCELLED" \in Resource!Final
      BY DEF Resource!Final
    <3>2. CancelHeld(o) /\ is_paused' = is_paused
          /\ outcome' = [outcome EXCEPT ![o] = "CANCELLED"]
      BY <2>1 DEF Withdraw
    <3>3. Resource!Finish(o) \/ Resource!Withdraw(o)
      BY <3>1, <3>2, ArchiveIsAbstractStep
    <3> QED
      BY <3>3 DEF Resource!Next
  <2>2. CASE ~Withdraw(o)
    BY <1>2, <1>5, <2>2 DEF CancelOperation, lifecycle
  <2> QED
    BY <2>1, <2>2
<1>6. ASSUME NEW o \in Operation, UpdateOperation(o) PROVE Goal
  <2>1. Queued' = Queued
    BY <1>6, ResortKeepsBuckets DEF UpdateOperation, DispatcherInv
  <2>2. pulled' = pulled /\ completed' = completed
    BY <1>6 DEF UpdateOperation, Resort
  <2>3. Phase' = Phase
    BY <2>1, <2>2, PhaseUnchanged
  <2>4. UNCHANGED <<outcome, is_paused>>
    BY <1>6 DEF UpdateOperation, KeepsLifecycle
  <2> QED
    BY <2>3, <2>4 DEF Resource!vars
<1>7. ASSUME NEW s \in Stepper, StartAccepted(s) PROVE Goal
  BY <1>7, StartIsAbstractStep DEF StartAccepted, Resource!Next
<1>8. ASSUME \/ \E o \in Operation : \/ PauseOperation(o)
                                     \/ ResumeOperation(o)
                                     \/ ReleaseDatePasses(o)
             \/ \E k \in RetryKey : CooldownExpires(k)
             \/ \E s \in Stepper : CallerAsks(s) \/ StartDenied(s)
             \/ PauseDispatcher \/ ResumeDispatcher \/ RequestStop \/ Run
             \/ Runtime \/ CancelRuntime \/ DeliverWakeup
             \/ UNCHANGED vars
      PROVE  Goal
  <2>1. UNCHANGED <<buckets, outcome>>
    BY <1>8
    DEF PauseOperation, ResumeOperation, RequestTransition, ReleaseDatePasses,
        CooldownExpires, CallerAsks, StartDenied, PauseDispatcher,
        ResumeDispatcher, RequestStop, Run, Runtime, RuntimeAsks, RuntimeWaits,
        RuntimeEnds, CancelRuntime, DeliverWakeup, lifecycle, vars, buckets
  <2> QED
    BY <1>2, <2>1
<1> HIDE DEF Goal
<1>9. Goal
  BY <1>3, <1>4, <1>5, <1>6, <1>7, <1>8
  DEF Next, CompleteOperation, FailOperation, Answer
<1> QED
  BY <1>9 DEF Goal

LEMMA InitIsAbstractInit == Init => Resource!Init
<1> SUFFICES ASSUME Init PROVE Resource!Init
  OBVIOUS
<1>1. Queued = {} /\ completed = {} /\ pulled = None
  BY DEF Init, QueueInit, Queued, Range
<1>2. Phase = [o \in Operation |-> "absent"]
  BY <1>1, QueueAssumption DEF Phase
<1> QED
  BY <1>2 DEF Init, Resource!Init

(* README.md:3: the dispatcher, its queue, its retries and its event loop  *)
(* together do nothing but admit, dispatch one at a time, finish and       *)
(* withdraw operations, for any number of operations and coroutines.       *)
THEOREM DispatcherImplementsSingleResource ==
  ASSUME ~ReAdd, KeepsLifecycle PROVE Spec => ImplementsSingleResource
<1>1. DispatcherInv /\ DispatcherInv' /\ [Next]_vars => [Resource!Next]_(Resource!vars)
  BY DispatcherStepIsAbstractStep
<1> QED
  BY InitIsAbstractInit, <1>1, DispatcherInvAlways, PTL
  DEF Spec, ImplementsSingleResource, Resource!Spec
-----------------------------------------------------------------------------
(* The dispatcher as a user of the queue.                                  *)

LEMMA UpdateIsResort ==
  ASSUME DispatcherInv, Allowed(dependencies), NEW o \in Operation, UpdateOperation(o)
  PROVE  CallResort(o)
<1>1. /\ key \in [Operation -> SortKey]
      /\ dependencies \in [Operation -> SUBSET Operation]
  BY DEF DispatcherInv, FieldsOK
<1>2. PICK k \in SortKey : key' = [key EXCEPT ![o] = k]
  <2>1. CASE key' = key
    <3>1. key[o] \in SortKey /\ key = [key EXCEPT ![o] = key[o]]
      BY <1>1
    <3> QED
      BY <2>1, <3>1
  <2>2. CASE key' # key
    <3>1. key' \in {[key EXCEPT ![o] = k] :
                      k \in IF KeyFields \cap UpdatableFields # {} THEN SortKey ELSE {}}
      BY <2>2 DEF UpdateOperation
    <3> QED
      BY <3>1
  <2> QED
    BY <2>1, <2>2
<1>3. PICK d \in SUBSET MayDependOn[o] : dependencies' = [dependencies EXCEPT ![o] = d]
  <2>1. CASE dependencies' = dependencies
    <3>1. /\ dependencies[o] \in SUBSET MayDependOn[o]
          /\ dependencies = [dependencies EXCEPT ![o] = dependencies[o]]
      BY <1>1 DEF Allowed
    <3> QED
      BY <2>1, <3>1
  <2>2. CASE dependencies' # dependencies
    <3>1. dependencies' \in {[dependencies EXCEPT ![o] = d] :
                               d \in IF "dependencies" \in UpdatableFields
                                     THEN SUBSET MayDependOn[o] ELSE {}}
      BY <2>2 DEF UpdateOperation
    <3> QED
      BY <3>1
  <2> QED
    BY <2>1, <2>2
<1>4. Resort
  BY DEF UpdateOperation
<1> QED
  BY <1>2, <1>3, <1>4 DEF CallResort

LEMMA DispatcherStepIsQueueStep ==
  ASSUME ~ReAdd, DispatcherInv, Allowed(dependencies), [Next]_vars
  PROVE  [QueueNext]_queueVars
<1>1. ASSUME NEW o \in Operation, AddOperation(o) PROVE CallAdd(o)
  BY <1>1 DEF AddOperation, CallAdd, Known
<1>2. ASSUME NEW o \in Operation, NEW r, Report(o, r) PROVE CallComplete(o)
  BY <1>2 DEF Report, CallComplete
<1>3. ASSUME NEW o \in Operation, CancelOperation(o)
      PROVE  CallCancel(o) \/ UNCHANGED queueVars
  <2>1. UNCHANGED attributes
    BY <1>3 DEF CancelOperation
  <2>2. CASE Withdraw(o)
    BY <2>1, <2>2 DEF Withdraw, CallCancel
  <2>3. CASE UNCHANGED buckets
    BY <2>1, <2>3 DEF buckets, attributes, queueVars
  <2> QED
    BY <1>3, <2>2, <2>3 DEF CancelOperation
<1>4. ASSUME NEW o \in Operation, UpdateOperation(o) PROVE CallResort(o)
  BY <1>4, UpdateIsResort
<1>5. ASSUME NEW s \in Stepper, StartAccepted(s)
      PROVE  CallNext \/ UNCHANGED queueVars
  <2>1. UNCHANGED attributes /\ StartNext
    BY <1>5 DEF StartAccepted
  <2>2. Pull \/ UNCHANGED buckets
    BY <2>1 DEF StartNext
  <2> QED
    BY <2>1, <2>2 DEF CallNext, buckets, attributes, queueVars
<1>6. ASSUME \/ \E o \in Operation : \/ PauseOperation(o)
                                     \/ ResumeOperation(o)
                                     \/ ReleaseDatePasses(o)
             \/ \E k \in RetryKey : CooldownExpires(k)
             \/ \E s \in Stepper : CallerAsks(s) \/ StartDenied(s)
             \/ PauseDispatcher \/ ResumeDispatcher \/ RequestStop \/ Run
             \/ Runtime \/ CancelRuntime \/ DeliverWakeup
             \/ UNCHANGED vars
      PROVE  UNCHANGED queueVars
  <2>1. UNCHANGED <<buckets, attributes>>
    BY <1>6
    DEF PauseOperation, ResumeOperation, RequestTransition, ReleaseDatePasses,
        CooldownExpires, CallerAsks, StartDenied, PauseDispatcher,
        ResumeDispatcher, RequestStop, Run, Runtime, RuntimeAsks, RuntimeWaits,
        RuntimeEnds, CancelRuntime, DeliverWakeup, vars, buckets, attributes
  <2> QED
    BY <2>1 DEF buckets, attributes, queueVars
<1> QED
  BY <1>1, <1>2, <1>3, <1>4, <1>5, <1>6
  DEF Next, CompleteOperation, FailOperation, Answer, QueueNext

(* Every handler, in any interleaving of coroutines, uses the queue as     *)
(* DispatchQueue's own specification lets a caller: it calls at most one   *)
(* method, and a key or a dependency only changes on the way to a resort   *)
(* (operation_lifecycle_service.py:314-357, runtime_service.py:114-135).   *)
THEOREM DispatcherIsQueueUser ==
  ASSUME ~ReAdd PROVE Spec => QueueSpec
<1>1. Init => QueueInit /\ Allowed(dependencies)
  BY DEF Init, QueueInit, Allowed
<1>2. DispatcherInv /\ Allowed(dependencies) /\ [Next]_vars => [QueueNext]_queueVars
  BY DispatcherStepIsQueueStep
<1>3. DispatcherInv /\ Allowed(dependencies) /\ [QueueNext]_queueVars => Allowed(dependencies)'
  <2> SUFFICES ASSUME DispatcherInv, Allowed(dependencies), [QueueNext]_queueVars
               PROVE  Allowed(dependencies')
    BY DEF Allowed
  <2>1. QueueInv
    BY DEF DispatcherInv, FieldsOK, QueueInv, QueueTypeOK, Buckets
  <2> QED
    BY <2>1, AllowedKept
<1> QED
  BY <1>1, <1>2, <1>3, DispatcherInvAlways, PTL DEF Spec, QueueSpec

(* README.md:48 for the whole dispatcher: whatever handlers run, and       *)
(* however the head changes while a start is asked for, the queue keeps    *)
(* the order its last sort gave it, but for the dependents a cancelled     *)
(* operation leaves behind.                                                *)
THEOREM DispatcherKeyOrder ==
  ASSUME ~ReAdd PROVE Spec => OrderIsKept
BY DispatcherIsQueueUser, QueueKeyOrder, PTL

(* README.md:49 for the whole dispatcher: no queued operation is ahead of  *)
(* a queued provider, as long as the dependencies can close no cycle.      *)
THEOREM DispatcherProvidersFirst ==
  ASSUME ~ReAdd, Acyclic PROVE Spec => []ProvidersFirst
BY DispatcherIsQueueUser, QueueProvidersFirst, PTL
=============================================================================
