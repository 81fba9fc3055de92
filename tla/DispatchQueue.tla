---------------------------- MODULE DispatchQueue ----------------------------
(***************************************************************************)
(* DispatchQueue: the three buckets of one resource's operations (queued,  *)
(* pulled, completed) and every method that changes them. The operators    *)
(* ending in "Of" or named after a method are reused by module             *)
(* OperationDispatcher, which calls them from its handlers; QueueSpec is   *)
(* the queue used on its own, as examples/dispatch_queue.py does.          *)
(*                                                                         *)
(* An operation is a model value standing for the Operation object and its *)
(* id. Its sort key and its dependencies are fields of the object that the *)
(* holder may change; the queue reads them only when it sorts.             *)
(***************************************************************************)
EXTENDS DispatchOrder

CONSTANTS
  Operation,    \* the operation objects
  None,         \* Python's None
  SortKey,      \* ranks of the sort-key tuple
  MayDependOn,  \* the providers an operation may name
  ReAdd         \* whether callers add an object the queue already holds

ASSUME QueueAssumption ==
  /\ None \notin Operation
  /\ SortKey \subseteq Nat
  /\ MayDependOn \in [Operation -> SUBSET Operation]
  /\ ReAdd \in BOOLEAN

VARIABLES
  queue,        \* _queue
  pulled,       \* _pulled
  completed,    \* _completed, whose order no property reads
  key,          \* operation -> rank of its sort key
  dependencies  \* operation -> the ids it depends on

buckets == <<queue, pulled, completed>>
attributes == <<key, dependencies>>
queueVars == <<queue, pulled, completed, key, dependencies>>

Queued == Range(queue)

(* get: pulled first, then queued, then completed.                         *)
Known == Queued \cup completed \cup ({pulled} \ {None})

(* The queue without the entry at position i.                              *)
WithoutEntry(q, i) ==
  [j \in 1..(Len(q)-1) |-> IF j < i THEN q[j] ELSE q[j+1]]

FirstEntry(q, o) ==
  CHOOSE i \in 1..Len(q) : q[i] = o /\ \A j \in 1..(i-1) : q[j] # o

QueueInit ==
  /\ queue = <<>>
  /\ pulled = None
  /\ completed = {}
  /\ key \in [Operation -> SortKey]
  /\ dependencies \in [Operation -> SUBSET Operation]
  /\ \A o \in Operation : dependencies[o] \subseteq MayDependOn[o]
-----------------------------------------------------------------------------
(* The methods. Each says what becomes of the buckets.                     *)

(* add appends and sorts; it does not look for the object in any bucket.   *)
(* The mutant appends and leaves the queue as it is.                       *)
AddUnsorted(o) ==
  /\ queue' = Append(queue, o)
  /\ UNCHANGED <<pulled, completed>>

Add(o) ==
  /\ Sorts(Append(queue, o), queue', key', dependencies')
  /\ UNCHANGED <<pulled, completed>>

(* resort, after the holder changed a key or a dependency list. The mutant *)
(* leaves the queue in the order it has.                                   *)
SkipResort == UNCHANGED buckets

Resort ==
  /\ Sorts(queue, queue', key', dependencies')
  /\ UNCHANGED <<pulled, completed>>

(* next raises while an operation is pulled.                               *)
Pull ==
  /\ pulled = None
  /\ queue # <<>>
  /\ pulled' = Head(queue)
  /\ queue' = Tail(queue)
  /\ UNCHANGED completed

(* complete requires the pulled object. One mutant keeps it pulled, the    *)
(* other empties the slot first and archives what is left in it.           *)
ArchiveEmptied(o) ==
  /\ pulled = o
  /\ pulled' = None
  /\ completed' = completed \cup {pulled'}
  /\ UNCHANGED queue

ArchivePulledOnly(o) ==
  /\ pulled = o
  /\ completed' = completed \cup {o}
  /\ UNCHANGED <<queue, pulled>>

ArchivePulled(o) ==
  /\ pulled = o
  /\ completed' = completed \cup {o}
  /\ pulled' = None
  /\ UNCHANGED queue

(* remove: the first entry with the id, no sort.                           *)
RemoveQueued(o) ==
  /\ o \in Queued
  /\ queue' = WithoutEntry(queue, FirstEntry(queue, o))
  /\ UNCHANGED <<pulled, completed>>

(* The queued branch of cancel: remove, archive, no sort.                  *)
ArchiveQueued(o) ==
  /\ pulled # o
  /\ o \in Queued
  /\ queue' = WithoutEntry(queue, FirstEntry(queue, o))
  /\ completed' = completed \cup {o}
  /\ UNCHANGED pulled

(* cancel: the pulled operation, else a queued one.                        *)
CancelHeld(o) == ArchivePulled(o) \/ ArchiveQueued(o)
-----------------------------------------------------------------------------
(* The queue on its own: its callers, one action per public method.        *)

CallAdd(o) ==
  /\ ReAdd \/ o \notin Known
  /\ o \notin Queued          \* bound: at most one queued entry per object
  /\ UNCHANGED attributes
  /\ Add(o)

CallResort(o) ==
  /\ \E k \in SortKey, d \in SUBSET MayDependOn[o] :
       /\ key' = [key EXCEPT ![o] = k]
       /\ dependencies' = [dependencies EXCEPT ![o] = d]
  /\ Resort

CallNext == Pull /\ UNCHANGED attributes

CallComplete(o) == ArchivePulled(o) /\ UNCHANGED attributes

CallRemove(o) == RemoveQueued(o) /\ UNCHANGED attributes

CallCancel(o) == CancelHeld(o) /\ UNCHANGED attributes

CallClear == queue' = <<>> /\ UNCHANGED <<pulled, completed, key, dependencies>>

CallClearHistory ==
  completed' = {} /\ UNCHANGED <<queue, pulled, key, dependencies>>

QueueNext ==
  \/ \E o \in Operation :
       \/ CallAdd(o)
       \/ CallResort(o)
       \/ CallComplete(o)
       \/ CallRemove(o)
       \/ CallCancel(o)
  \/ CallNext
  \/ CallClear
  \/ CallClearHistory

QueueSpec == QueueInit /\ [][QueueNext]_queueVars
-----------------------------------------------------------------------------
QueueTypeOK ==
  /\ queue \in Seq(Operation)
  /\ pulled \in Operation \cup {None}
  /\ completed \in SUBSET Operation
  /\ key \in [Operation -> SortKey]
  /\ dependencies \in [Operation -> SUBSET Operation]

(* "One operation can only be in one bucket at a time"                     *)
(* (dispatch_queue.py:41): no operation is queued twice, or queued, pulled *)
(* or completed at once, however the calls interleave.                     *)
OneBucket ==
  /\ \A i, j \in 1..Len(queue) : queue[i] = queue[j] => i = j
  /\ pulled \notin Queued
  /\ pulled \notin completed
  /\ Queued \cap completed = {}

(* README.md:49: within the queued operations providers come before        *)
(* dependents, unless the dependencies among them form a cycle. Entries    *)
(* leave the queue without a sort, so this must survive pull, remove and   *)
(* cancel of operations the order was computed with.                       *)
ProvidersFirst ==
  LET providers == Providers(queue, dependencies)
  IN  ~Cyclic(providers) =>
        \A i \in 1..Len(queue) : \A j \in providers[i] : j < i

(* README.md:48-49: an operation never stands behind one of a larger key   *)
(* unless it waits for an operation further ahead or for that one, also    *)
(* when the dependencies form a cycle.                                     *)
KeyOrdered ==
  LET providers == Providers(queue, dependencies)
  IN  \A i, j \in 1..Len(queue) :
        i < j /\ providers[j] \subseteq 1..(i-1) => key[queue[i]] <= key[queue[j]]

(* A step takes an operation out from behind the head while others wait    *)
(* for it.                                                                 *)
LeavesDependents ==
  \E i \in 2..Len(queue) :
    /\ queue' = WithoutEntry(queue, i)
    /\ \E o \in Queued : queue[i] \in dependencies[o]

(* Every add and every change of a key or a dependency list establishes    *)
(* that order, and nothing loses it - although next, remove and cancel do  *)
(* not sort - but the removal or cancellation of a queued operation that   *)
(* others wait for: those are free to move up from then on, and stay where *)
(* they are until the next sort (dispatch_queue.py:137-164).               *)
OrderIsKept ==
  [][KeyOrdered \/ ~(Queued' \subseteq Queued) \/ attributes' # attributes
       => KeyOrdered' \/ LeavesDependents]_queueVars
=============================================================================
