---------------------------- MODULE DependencySort ----------------------------
(***************************************************************************)
(* DispatchQueue._apply_dependency_order, one step per iteration of its    *)
(* while loop: the operations are their indices in the key-sorted list,    *)
(* ready_heap is the set of indices whose remaining providers are zero and *)
(* heappop takes the smallest.                                             *)
(***************************************************************************)
EXTENDS DispatchOrder, FiniteSets

CONSTANT Length   \* the number of queued operations

ASSUME LengthAssumption == Length \in Nat

Index == 1..Length

VARIABLES
  providers,  \* the edges, read from the operations' dependencies
  degree,     \* incoming_degree
  ready,      \* ready_heap
  ordered,    \* ordered_indices
  result      \* the returned order, <<>> while the loop runs

vars == <<providers, degree, ready, ordered, result>>

outgoing(i) == {k \in Index : i \in providers[k]}

(* The tables the method builds before the loop.                           *)
Init ==
  /\ providers \in [Index -> SUBSET Index]
  /\ \A i \in Index : i \notin providers[i]
  /\ degree = [i \in Index |-> Cardinality(providers[i])]
  /\ ready = {i \in Index : degree[i] = 0}
  /\ ordered = <<>>
  /\ result = <<>>

(* heappop: the smallest index. The mutant pops the largest.               *)
PopLargest(S) == CHOOSE i \in S : \A j \in S : i >= j

Pop(S) == CHOOSE i \in S : \A j \in S : i <= j

(* incoming_degree after index i was placed. The mutant also counts down   *)
(* the operations that do not depend on i.                                 *)
CountedDownForAll(i) == [k \in Index |-> degree[k] - 1]

CountedDown(i) ==
  [k \in Index |-> IF k \in outgoing(i) THEN degree[k] - 1 ELSE degree[k]]

(* The dependents of i that placing i makes ready. The mutant forgets that *)
(* other providers may be open.                                            *)
ReleasedEarly(i) == outgoing(i)

Released(i) == {k \in outgoing(i) : CountedDown(i)[k] = 0}

(* One iteration: pop an index, release its dependents.                    *)
PlaceNext ==
  /\ result = <<>>
  /\ ready # {}
  /\ LET i == Pop(ready)
     IN  /\ ordered' = Append(ordered, i)
         /\ degree' = CountedDown(i)
         /\ ready' = (ready \ {i}) \cup Released(i)
  /\ UNCHANGED <<providers, result>>

(* The indices the method returns: under a cycle some were never released, *)
(* and it falls back to the order it was given.                            *)
Returned ==
  IF Len(ordered) # Length THEN [i \in Index |-> i] ELSE ordered

(* The mutant waits until every operation is placed.                       *)
ReturnWhenAllPlaced ==
  /\ result = <<>>
  /\ ready = {}
  /\ Len(ordered) = Length
  /\ result' = Returned
  /\ UNCHANGED <<providers, degree, ready, ordered>>

Return ==
  /\ result = <<>>
  /\ ready = {}
  /\ result' = Returned
  /\ UNCHANGED <<providers, degree, ready, ordered>>

Next == PlaceNext \/ Return

Spec == Init /\ [][Next]_vars /\ WF_vars(Next)
-----------------------------------------------------------------------------
TypeOK ==
  /\ providers \in [Index -> SUBSET Index]
  /\ degree \in [Index -> Nat]
  /\ ready \subseteq Index
  /\ ordered \in Seq(Index)
  /\ result \in Seq(Index)

(* Whatever the dependencies, the returned order is the one the queue's    *)
(* contract asks for: greedy by layers, or the sorted order under a cycle, *)
(* and each operation comes once (dispatch_queue.py:170-220).              *)
ResultInDependencyOrder ==
  result # <<>> => /\ result \in Permutation(Length)
                   /\ DependencyOrder(providers, result)

(* The heap holds exactly the unplaced operations none of whose providers  *)
(* is still unplaced: the counters never drift from the edges they count.  *)
ReadyIsUnblocked ==
  ready = {i \in Index \ Range(ordered) : providers[i] \subseteq Range(ordered)}

(* The loop ends for every graph, cyclic ones included.                    *)
Terminates == <>(Length = 0 \/ result # <<>>)
=============================================================================
