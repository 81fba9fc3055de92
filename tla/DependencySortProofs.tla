-------------------------- MODULE DependencySortProofs --------------------------
(***************************************************************************)
(* The loop of _apply_dependency_order computes what module DispatchOrder  *)
(* asks of it, for any number of operations and any dependencies.          *)
(*                                                                         *)
(* The counters count the open providers, so the heap is the set of the    *)
(* operations that wait for nothing; what has been placed was placed in    *)
(* layers; and no member of a cycle is ever placed, because its provider   *)
(* in the cycle would have been placed before it. When the heap is empty   *)
(* the unplaced operations, if there are any, wait for each other.         *)
(***************************************************************************)
EXTENDS DependencySort, SequenceFacts, FiniteSetTheorems

Placed == Range(ordered)

Before(n) == {ordered[m] : m \in 1..(n-1)}

Cycle(S) == \A i \in S : providers[i] \cap S # {}

NobodyWaitsForItself == \A i \in Index : i \notin providers[i]

Counted == \A k \in Index : degree[k] = Cardinality(providers[k] \ Placed)

PlacedOnce ==
  /\ \A m, n \in 1..Len(ordered) : ordered[m] = ordered[n] => m = n
  /\ Cardinality(Placed) = Len(ordered)

PlacedInLayers ==
  \A n \in 1..Len(ordered) :
    /\ providers[ordered[n]] \subseteq Before(n)
    /\ \A k \in Index \ Before(n) : providers[k] \subseteq Before(n) => ordered[n] <= k

CyclesStay == \A S \in SUBSET Index : Cycle(S) => S \cap Placed = {}

ReturnedAtTheEnd == result # <<>> => ready = {} /\ result = Returned

Inv ==
  /\ TypeOK
  /\ NobodyWaitsForItself
  /\ Counted
  /\ ReadyIsUnblocked
  /\ PlacedOnce
  /\ PlacedInLayers
  /\ CyclesStay
  /\ ReturnedAtTheEnd
-----------------------------------------------------------------------------
(* A set of numbers that is not empty has a least one: Pop is defined. The *)
(* intervals up to its members are finite sets, and inclusion among finite *)
(* sets is well-founded.                                                   *)
LEMMA LeastOf ==
  ASSUME NEW S \in SUBSET Nat, S # {}
  PROVE  \E i \in S : \A j \in S : i <= j
<1> DEFINE T == {1..i : i \in S}
<1>1. T \subseteq FiniteSubsetsOf(Nat) /\ T # {}
  <2>1. ASSUME NEW i \in S PROVE 1..i \in SUBSET Nat /\ IsFiniteSet(1..i)
    BY FS_Interval
  <2> QED
    BY <2>1 DEF FiniteSubsetsOf
<1>2. PICK U \in T : \A V \in T : <<V, U>> \notin StrictSubsetOrdering(Nat)
  <2> HIDE DEF T
  <2> QED
    BY <1>1, FS_StrictSubsetOrderingWellFounded, WFMin, Zenon
<1>3. PICK i \in S : U = 1..i
  OBVIOUS
<1>4. ASSUME NEW j \in S, j < i PROVE FALSE
  <2>1. i \in 1..i /\ i \notin 1..j
    BY <1>4
  <2>2. 1..j \subseteq 1..i /\ 1..j \subseteq Nat /\ 1..i \subseteq Nat
    BY <1>4
  <2>3. <<1..j, 1..i>> \in StrictSubsetOrdering(Nat)
    BY <2>1, <2>2 DEF StrictSubsetOrdering
  <2> QED
    BY <1>2, <1>3, <2>3
<1>5. \A j \in S : ~(j < i) => i <= j
  OBVIOUS
<1> QED
  BY <1>4, <1>5

LEMMA PopFacts ==
  ASSUME NEW S \in SUBSET Index, S # {}
  PROVE  Pop(S) \in S /\ \A j \in S : Pop(S) <= j
<1>1. S \in SUBSET Nat
  BY LengthAssumption DEF Index
<1> QED
  BY <1>1, LeastOf DEF Pop

LEMMA IndexFacts ==
  /\ IsFiniteSet(Index)
  /\ Cardinality(Index) = Length
  /\ \A S \in SUBSET Index : IsFiniteSet(S) /\ Cardinality(S) \in Nat
<1>1. IsFiniteSet(Index) /\ Cardinality(Index) = Length
  BY FS_Interval, LengthAssumption DEF Index
<1> QED
  BY <1>1, FS_Subset, FS_CardinalityType

(* What Append does to the placed ones.                                    *)
LEMMA PlacingFacts ==
  ASSUME NEW S, NEW s \in Seq(S), NEW i \in S
  PROVE  /\ Append(s, i) \in Seq(S)
         /\ Len(Append(s, i)) = Len(s) + 1
         /\ \A m \in 1..Len(s) : Append(s, i)[m] = s[m]
         /\ Append(s, i)[Len(s) + 1] = i
         /\ Range(Append(s, i)) = Range(s) \cup {i}
  BY AppendFacts
-----------------------------------------------------------------------------
LEMMA InitInv == Init => Inv
<1> SUFFICES ASSUME Init PROVE Inv
  OBVIOUS
<1>1. Placed = {} /\ Len(ordered) = 0
  BY DEF Init, Placed, Range
<1>2. \A k \in Index : IsFiniteSet(providers[k]) /\ Cardinality(providers[k]) \in Nat
  BY IndexFacts DEF Init
<1>3. TypeOK
  BY <1>2 DEF Init, TypeOK
<1>4. NobodyWaitsForItself /\ Counted
  <2>1. \A k \in Index : providers[k] \ Placed = providers[k]
    BY <1>1
  <2> QED
    BY <2>1 DEF Init, NobodyWaitsForItself, Counted
<1>5. ReadyIsUnblocked
  <2>1. \A k \in Index : degree[k] = 0 <=> providers[k] = {}
    BY <1>2, FS_EmptySet DEF Init
  <2> QED
    BY <1>1, <2>1 DEF Init, ReadyIsUnblocked, Placed
<1>6. PlacedOnce /\ PlacedInLayers
  BY <1>1, FS_EmptySet DEF PlacedOnce, PlacedInLayers
<1>7. CyclesStay /\ ReturnedAtTheEnd
  BY <1>1 DEF Init, CyclesStay, ReturnedAtTheEnd
<1> QED
  BY <1>3, <1>4, <1>5, <1>6, <1>7 DEF Inv

LEMMA PlaceNextInv == Inv /\ PlaceNext => Inv'
<1> SUFFICES ASSUME Inv, PlaceNext PROVE Inv'
  OBVIOUS
<1> DEFINE i == Pop(ready)
<1>1. /\ providers \in [Index -> SUBSET Index]
      /\ degree \in [Index -> Nat]
      /\ ready \subseteq Index
      /\ ordered \in Seq(Index)
      /\ result \in Seq(Index)
  BY DEF Inv, TypeOK
<1>2. /\ ordered' = Append(ordered, i)
      /\ degree' = CountedDown(i)
      /\ ready' = (ready \ {i}) \cup Released(i)
      /\ providers' = providers
      /\ result' = <<>> /\ result = <<>>
  BY DEF PlaceNext
<1>3. i \in ready /\ i \in Index /\ \A j \in ready : i <= j
  BY <1>1, PopFacts DEF PlaceNext
<1> HIDE DEF i
<1>4. /\ ready = {k \in Index \ Placed : providers[k] \subseteq Placed}
      /\ i \notin Placed /\ providers[i] \subseteq Placed
  BY <1>3 DEF Inv, ReadyIsUnblocked, Placed
<1>5. /\ ordered' \in Seq(Index)
      /\ Len(ordered') = Len(ordered) + 1
      /\ \A m \in 1..Len(ordered) : ordered'[m] = ordered[m]
      /\ ordered'[Len(ordered) + 1] = i
      /\ Placed' = Placed \cup {i}
  <2>1. /\ Append(ordered, i) \in Seq(Index)
        /\ Len(Append(ordered, i)) = Len(ordered) + 1
        /\ \A m \in 1..Len(ordered) : Append(ordered, i)[m] = ordered[m]
        /\ Append(ordered, i)[Len(ordered) + 1] = i
        /\ Range(Append(ordered, i)) = Range(ordered) \cup {i}
    BY <1>1, <1>3, PlacingFacts
  <2> QED
    BY <1>2, <2>1 DEF Placed
<1>6. Len(ordered) \in Nat /\ Placed \subseteq Index
  BY <1>1 DEF Placed, Range
<1>7. NobodyWaitsForItself'
  BY <1>2 DEF Inv, NobodyWaitsForItself
<1>8. \A k \in Index : degree'[k] = Cardinality(providers[k] \ Placed')
  <2> SUFFICES ASSUME NEW k \in Index
               PROVE  degree'[k] = Cardinality(providers[k] \ Placed')
    OBVIOUS
  <2>1. degree[k] = Cardinality(providers[k] \ Placed)
    BY DEF Inv, Counted
  <2>2. IsFiniteSet(providers[k] \ Placed)
    BY <1>1, IndexFacts
  <2>3. providers[k] \ Placed' = (providers[k] \ Placed) \ {i}
    BY <1>5
  <2>4. Cardinality((providers[k] \ Placed) \ {i})
          = IF i \in providers[k] \ Placed THEN degree[k] - 1 ELSE degree[k]
    BY <2>1, <2>2, FS_RemoveElement
  <2>5. degree'[k] = IF i \in providers[k] THEN degree[k] - 1 ELSE degree[k]
    BY <1>2, <1>3 DEF CountedDown, outgoing
  <2> QED
    BY <1>4, <2>3, <2>4, <2>5
<1>9. \A k \in Index : degree'[k] \in Nat /\ (degree'[k] = 0 <=> providers[k] \subseteq Placed')
  <2> SUFFICES ASSUME NEW k \in Index
               PROVE  degree'[k] \in Nat /\ (degree'[k] = 0 <=> providers[k] \subseteq Placed')
    OBVIOUS
  <2>1. providers[k] \ Placed' \in SUBSET Index
    BY <1>1
  <2>2. Cardinality(providers[k] \ Placed') \in Nat /\ IsFiniteSet(providers[k] \ Placed')
    BY <2>1, IndexFacts
  <2>3. Cardinality(providers[k] \ Placed') = 0 <=> providers[k] \ Placed' = {}
    BY <2>2, FS_EmptySet
  <2> QED
    BY <1>8, <2>2, <2>3
<1>10. TypeOK'
  <2>1. degree' \in [Index -> Nat]
    BY <1>2, <1>9 DEF CountedDown
  <2>2. ready' \subseteq Index
    BY <1>1, <1>2 DEF Released, outgoing
  <2> QED
    BY <1>1, <1>2, <1>5, <2>1, <2>2 DEF TypeOK
<1>11. Counted'
  BY <1>2, <1>8 DEF Counted
<1>12. ReadyIsUnblocked'
  <2>1. \A k \in Placed : providers[k] \subseteq Placed
    <3> SUFFICES ASSUME NEW k \in Placed PROVE providers[k] \subseteq Placed
      OBVIOUS
    <3>1. PICK n \in 1..Len(ordered) : ordered[n] = k
      BY <1>1 DEF Placed, Range
    <3>2. Before(n) \subseteq Placed
      BY <1>1 DEF Before, Placed, Range
    <3> QED
      BY <3>1, <3>2 DEF Inv, PlacedInLayers
  <2>2. Released(i) = {k \in Index : i \in providers[k] /\ providers[k] \subseteq Placed'}
    BY <1>2, <1>9 DEF Released, outgoing
  <2>3. ready' = {k \in Index \ Placed' : providers[k] \subseteq Placed'}
    BY <1>2, <1>4, <1>5, <1>7, <2>1, <2>2 DEF NobodyWaitsForItself
  <2> QED
    BY <1>2, <2>3 DEF ReadyIsUnblocked, Placed
<1>13. PlacedOnce'
  <2>1. \A n \in 1..Len(ordered) : ordered[n] # i
    BY <1>1, <1>4 DEF Placed, Range
  <2>2. \A m, n \in 1..Len(ordered') : ordered'[m] = ordered'[n] => m = n
    BY <1>5, <1>6, <2>1 DEF Inv, PlacedOnce
  <2>3. IsFiniteSet(Placed)
    BY <1>6, IndexFacts
  <2>4. Cardinality(Placed') = Cardinality(Placed) + 1
    BY <1>4, <1>5, <2>3, FS_AddElement
  <2> QED
    BY <1>5, <2>2, <2>4 DEF Inv, PlacedOnce
<1>14. PlacedInLayers'
  <2>0. PICK L \in Nat : L = Len(ordered) + 1
    BY <1>6
  <2>1. \A n \in 1..L : Before(n)' = IF n = L THEN Placed ELSE Before(n)
    <3>1. ASSUME NEW n \in 1..L
          PROVE  Before(n)' = {ordered[m] : m \in 1..(n-1)}
      BY <1>5, <1>6, <2>0 DEF Before
    <3>2. Placed = {ordered[m] : m \in 1..(L-1)}
      BY <1>1, <1>6, <2>0 DEF Placed, Range
    <3> QED
      BY <3>1, <3>2 DEF Before
  <2>2. ASSUME NEW n \in 1..Len(ordered)
        PROVE  /\ providers'[ordered'[n]] \subseteq Before(n)'
               /\ \A k \in Index \ Before(n)' :
                    providers'[k] \subseteq Before(n)' => ordered'[n] <= k
    <3>1. Before(n)' = Before(n)
      BY <1>6, <2>0, <2>1
    <3> QED
      BY <1>2, <1>5, <3>1 DEF Inv, PlacedInLayers
  <2>3. /\ providers'[i] \subseteq Before(L)'
        /\ \A k \in Index \ Before(L)' : providers'[k] \subseteq Before(L)' => i <= k
    <3>1. Before(L)' = Placed
      BY <1>6, <2>0, <2>1
    <3> QED
      BY <1>2, <1>3, <1>4, <3>1
  <2>4. ordered'[L] = i /\ \A n \in 1..Len(ordered') : n \in 1..Len(ordered) \/ n = L
    BY <1>5, <1>6, <2>0
  <2> QED
    BY <2>2, <2>3, <2>4 DEF PlacedInLayers
<1>15. CyclesStay'
  <2> SUFFICES ASSUME NEW S \in SUBSET Index, Cycle(S)' PROVE S \cap Placed' = {}
    BY DEF CyclesStay
  <2>1. Cycle(S)
    BY <1>2 DEF Cycle
  <2>2. S \cap Placed = {}
    BY <2>1 DEF Inv, CyclesStay
  <2>3. i \notin S
    BY <1>4, <2>1, <2>2 DEF Cycle
  <2> QED
    BY <1>5, <2>2, <2>3
<1>16. ReturnedAtTheEnd'
  BY <1>2 DEF ReturnedAtTheEnd
<1> QED
  BY <1>7, <1>10, <1>11, <1>12, <1>13, <1>14, <1>15, <1>16 DEF Inv

LEMMA ReturnInv == Inv /\ Return => Inv'
<1> SUFFICES ASSUME Inv, Return PROVE Inv'
  OBVIOUS
<1>1. UNCHANGED <<providers, degree, ready, ordered>> /\ result' = Returned /\ ready = {}
  BY DEF Return
<1>2. TypeOK'
  <2>1. [j \in Index |-> j] \in Seq(Index)
    BY LengthAssumption DEF Index
  <2>2. result' \in Seq(Index)
    BY <1>1, <2>1 DEF Returned, Inv, TypeOK
  <2> QED
    BY <1>1, <2>2 DEF Inv, TypeOK
<1>3. NobodyWaitsForItself' /\ Counted' /\ ReadyIsUnblocked'
  BY <1>1 DEF Inv, NobodyWaitsForItself, Counted, ReadyIsUnblocked, Placed
<1>4. PlacedOnce' /\ PlacedInLayers'
  BY <1>1 DEF Inv, PlacedOnce, PlacedInLayers, Placed, Before
<1>5. CyclesStay'
  BY <1>1 DEF Inv, CyclesStay, Placed, Cycle
<1>6. ReturnedAtTheEnd'
  BY <1>1 DEF ReturnedAtTheEnd, Returned
<1> QED
  BY <1>2, <1>3, <1>4, <1>5, <1>6 DEF Inv

LEMMA StutterInv == Inv /\ UNCHANGED vars => Inv'
<1> SUFFICES ASSUME Inv, UNCHANGED vars PROVE Inv'
  OBVIOUS
<1>1. UNCHANGED <<providers, degree, ready, ordered, result>>
  BY DEF vars
<1>2. TypeOK' /\ NobodyWaitsForItself' /\ Counted' /\ ReadyIsUnblocked'
  BY <1>1 DEF Inv, TypeOK, NobodyWaitsForItself, Counted, ReadyIsUnblocked, Placed
<1>3. PlacedOnce' /\ PlacedInLayers' /\ CyclesStay'
  <2>1. PlacedOnce'
    BY <1>1 DEF Inv, PlacedOnce, Placed
  <2>2. PlacedInLayers'
    <3>1. \A n \in Nat : Before(n)' = Before(n)
      BY <1>1 DEF Before
    <3>2. Len(ordered) \in Nat
      BY DEF Inv, TypeOK
    <3> QED
      BY <1>1, <3>1, <3>2 DEF Inv, PlacedInLayers
  <2>3. CyclesStay'
    BY <1>1 DEF Inv, CyclesStay, Placed, Cycle
  <2> QED
    BY <2>1, <2>2, <2>3
<1>4. ReturnedAtTheEnd'
  BY <1>1 DEF Inv, ReturnedAtTheEnd, Returned
<1> QED
  BY <1>2, <1>3, <1>4 DEF Inv

THEOREM Invariance == Spec => []Inv
<1>1. Inv /\ [Next]_vars => Inv'
  BY PlaceNextInv, ReturnInv, StutterInv DEF Next
<1> QED
  BY InitInv, <1>1, PTL DEF Spec

(* The counters, the heap and the order of _apply_dependency_order keep    *)
(* their types; in particular no counter falls below zero.                 *)
THEOREM SortTypes == Spec => []TypeOK
<1>1. Inv => TypeOK
  BY DEF Inv
<1> QED
  BY <1>1, Invariance, PTL

(* The heap holds exactly the unplaced operations whose providers are all  *)
(* placed, after every iteration of the loop (dispatch_queue.py:206-214).  *)
THEOREM ReadyIsUnblockedAlways == Spec => []ReadyIsUnblocked
<1>1. Inv => ReadyIsUnblocked
  BY DEF Inv
<1> QED
  BY <1>1, Invariance, PTL

(* What _apply_dependency_order returns is an order of all operations in   *)
(* layers, or the order it was given if and only if the dependencies form  *)
(* a cycle (dispatch_queue.py:170-220): the relation that module           *)
(* DispatchQueue uses for every sort.                                      *)
THEOREM SortsInDependencyOrder == Spec => []ResultInDependencyOrder
<1>1. Inv => ResultInDependencyOrder
  <2> SUFFICES ASSUME Inv, result # <<>>
               PROVE  result \in Permutation(Length) /\ DependencyOrder(providers, result)
    BY DEF ResultInDependencyOrder
  <2>1. /\ providers \in [Index -> SUBSET Index]
        /\ ordered \in Seq(Index) /\ Len(ordered) \in Nat
        /\ Placed \subseteq Index
    BY DEF Inv, TypeOK, Placed, Range
  <2>2. result = Returned /\ \A k \in Index \ Placed : ~(providers[k] \subseteq Placed)
    BY DEF Inv, ReturnedAtTheEnd, ReadyIsUnblocked, Placed
  <2>3. CASE Len(ordered) # Length
    <3>1. result = [k \in Index |-> k]
      BY <2>2, <2>3 DEF Returned
    <3>2. result \in Permutation(Length)
      BY <3>1 DEF Permutation, Bijection, Injection, Surjection, IsInjective, Index
    <3>3. Index \ Placed # {}
      <4>1. Placed # Index
        BY <2>3, IndexFacts DEF Inv, PlacedOnce
      <4> QED
        BY <2>1, <4>1
    <3>4. Cyclic(providers)
      <4>1. Index \ Placed \in SUBSET DOMAIN providers
        BY <2>1
      <4>2. \A k \in Index \ Placed : providers[k] \cap (Index \ Placed) # {}
        BY <2>1, <2>2
      <4> QED
        BY <3>3, <4>1, <4>2 DEF Cyclic
    <3> QED
      BY <3>1, <3>2, <3>4 DEF DependencyOrder
  <2>4. CASE Len(ordered) = Length
    <3>1. result = ordered
      BY <2>2, <2>4 DEF Returned
    <3>2. Placed = Index
      BY <2>1, <2>4, IndexFacts, FS_Subset DEF Inv, PlacedOnce
    <3>3. result \in Permutation(Length)
      <4>1. ordered \in [1..Length -> 1..Length] /\ DOMAIN ordered = 1..Length
        BY <2>1, <2>4 DEF Index
      <4>2. \A m, n \in 1..Length : ordered[m] = ordered[n] => m = n
        BY <2>4 DEF Inv, PlacedOnce
      <4>3. \A k \in 1..Length : \E n \in 1..Length : ordered[n] = k
        BY <3>2, <4>1 DEF Placed, Range, Index
      <4> QED
        BY <3>1, <4>1, <4>2, <4>3
           DEF Permutation, Bijection, Injection, Surjection, IsInjective
    <3>4. ~Cyclic(providers)
      <4> SUFFICES ASSUME NEW S \in SUBSET Index, S # {}, Cycle(S) PROVE FALSE
        BY <2>1 DEF Cyclic, Cycle
      <4> QED
        BY <3>2 DEF Inv, CyclesStay
    <3>5. LayeredOrder(providers, ordered)
      BY <2>1 DEF Inv, PlacedInLayers, LayeredOrder, Before
    <3> QED
      BY <3>1, <3>3, <3>4, <3>5 DEF DependencyOrder
  <2> QED
    BY <2>3, <2>4
<1> QED
  BY <1>1, Invariance, PTL
=============================================================================
