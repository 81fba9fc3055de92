---------------------------- MODULE DispatchOrder ----------------------------
(***************************************************************************)
(* What DispatchQueue._sort_operations leaves in the queue: a stable sort  *)
(* by the sort key, then providers before dependents with the sorted       *)
(* position as the tie-breaker, or the sorted order itself when the queued *)
(* operations depend on each other in a cycle.                             *)
(*                                                                         *)
(* The result is stated as a relation between the queue before and the     *)
(* queue after, through the permutations of its positions. The loop that   *)
(* computes it is module DependencySort, which is checked and proved       *)
(* against DependencyOrder below.                                          *)
(***************************************************************************)
EXTENDS Naturals, Sequences, Functions

Permutation(n) == Bijection(1..n, 1..n)

Permuted(q, p) == [i \in 1..Len(q) |-> q[p[i]]]

(* list.sort(key=self._operation_sort_key). The tuple of rule components is *)
(* abstracted to its rank among all tuples: key[o] is a number, and a      *)
(* smaller one dispatches first.                                           *)
StableSort(q, key, p) ==
  \A i, j \in 1..Len(q) :
    i < j => \/ key[q[p[i]]] < key[q[p[j]]]
             \/ key[q[p[i]]] = key[q[p[j]]] /\ p[i] < p[j]

(* The edges the sort follows: providers that are in the queue, other than *)
(* the operation itself. provider_indices keeps the last position of an id.*)
Providers(s, dependencies) ==
  [i \in 1..Len(s) |->
     {j \in (1..Len(s)) \ {i} :
        /\ s[j] \in dependencies[s[i]]
        /\ \A k \in 1..Len(s) : s[k] = s[j] => k <= j}]

(* Some operations each wait for another one of them.                      *)
Cyclic(providers) ==
  \E S \in SUBSET DOMAIN providers :
    /\ S # {}
    /\ \A i \in S : providers[i] \cap S # {}

(* Each position takes the smallest index whose providers are all placed.  *)
LayeredOrder(providers, p) ==
  \A n \in DOMAIN p :
    LET placed == {p[m] : m \in 1..(n-1)}
    IN  /\ providers[p[n]] \subseteq placed
        /\ \A k \in DOMAIN providers \ placed :
             providers[k] \subseteq placed => p[n] <= k

DependencyOrder(providers, p) ==
  IF Cyclic(providers) THEN \A i \in DOMAIN p : p[i] = i
                       ELSE LayeredOrder(providers, p)

(* result is the queue q after _sort_operations.                           *)
Sorts(q, result, key, dependencies) ==
  \E byKey \in Permutation(Len(q)) :
    /\ StableSort(q, key, byKey)
    /\ \E layered \in Permutation(Len(q)) :
         LET s == Permuted(q, byKey)
         IN  /\ DependencyOrder(Providers(s, dependencies), layered)
             /\ result = Permuted(s, layered)
=============================================================================
