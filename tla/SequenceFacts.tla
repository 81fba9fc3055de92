----------------------------- MODULE SequenceFacts -----------------------------
(***************************************************************************)
(* What the proofs need of sequences without repetitions (the entries of a *)
(* list after an append, after its head is gone and after another entry is *)
(* gone), of intervals (induction) and of FoldLeft (the function it is     *)
(* defined by exists).                                                     *)
(***************************************************************************)
EXTENDS Integers, Sequences, FiniteSetsExt, FiniteSetTheorems, TLAPS

Distinct(q) == \A i, j \in 1..Len(q) : q[i] = q[j] => i = j

(* Appending an element that is not there yet.                           *)
LEMMA AppendFacts ==
  ASSUME NEW S, NEW q \in Seq(S), NEW o \in S
  PROVE  /\ Append(q, o) \in Seq(S)
         /\ Range(Append(q, o)) = Range(q) \cup {o}
         /\ Distinct(q) /\ o \notin Range(q) => Distinct(Append(q, o))
<1> DEFINE n == Len(q)
           r == Append(q, o)
<1>1. /\ n \in Nat
      /\ r \in Seq(S)
      /\ Len(r) = n + 1
      /\ \A i \in 1..n : r[i] = q[i]
      /\ r[n+1] = o
      /\ DOMAIN q = 1..n
      /\ DOMAIN r = 1..(n+1)
  OBVIOUS
<1>2. Range(r) = Range(q) \cup {o}
  <2>1. ASSUME NEW x \in Range(r) PROVE x \in Range(q) \cup {o}
    BY <1>1 DEF Range
  <2>2. ASSUME NEW x \in Range(q) \cup {o} PROVE x \in Range(r)
    <3>1. CASE x = o
      <4>1. n + 1 \in DOMAIN r
        BY <1>1
      <4> QED
        BY <1>1, <3>1, <4>1 DEF Range
    <3>2. CASE x \in Range(q)
      <4>1. PICK i \in 1..n : q[i] = x
        BY <1>1, <3>2 DEF Range
      <4>2. i \in DOMAIN r /\ r[i] = x
        BY <1>1, <4>1
      <4> QED
        BY <4>2 DEF Range
    <3> QED
      BY <2>2, <3>1, <3>2
  <2> QED
    BY <2>1, <2>2
<1>3. ASSUME Distinct(q), o \notin Range(q) PROVE Distinct(r)
  <2> SUFFICES ASSUME NEW i \in 1..(n+1), NEW j \in 1..(n+1), r[i] = r[j]
               PROVE  i = j
    BY <1>1 DEF Distinct
  <2>1. \A m \in 1..n : q[m] # o
    BY <1>1, <1>3 DEF Range
  <2>2. CASE i \in 1..n /\ j \in 1..n
    BY <1>1, <1>3, <2>2 DEF Distinct
  <2>3. CASE i = n + 1 \/ j = n + 1
    BY <1>1, <2>1, <2>3
  <2> QED
    BY <1>1, <2>2, <2>3
<1> QED
  BY <1>1, <1>2, <1>3

(* Taking the head off.                                                    *)
LEMMA TailFacts ==
  ASSUME NEW S, NEW q \in Seq(S), q # <<>>
  PROVE  /\ Head(q) \in Range(q)
         /\ Head(q) \in S
         /\ Tail(q) \in Seq(S)
         /\ Range(q) = Range(Tail(q)) \cup {Head(q)}
         /\ Distinct(q) => Distinct(Tail(q)) /\ Head(q) \notin Range(Tail(q))
<1> DEFINE n == Len(q)
           r == Tail(q)
<1>1. /\ n \in Nat \ {0}
      /\ r \in Seq(S)
      /\ Len(r) = n - 1
      /\ \A i \in 1..(n-1) : r[i] = q[i+1]
      /\ Head(q) = q[1]
      /\ DOMAIN q = 1..n
      /\ DOMAIN r = 1..(n-1)
      /\ q \in [1..n -> S]
  OBVIOUS
<1>2. Head(q) \in Range(q) /\ Head(q) \in S
  BY <1>1 DEF Range
<1>3. Range(q) = Range(r) \cup {Head(q)}
  <2>1. ASSUME NEW x \in Range(q) PROVE x \in Range(r) \cup {Head(q)}
    <3>1. PICK i \in 1..n : q[i] = x
      BY <1>1, <2>1 DEF Range
    <3>2. CASE i = 1
      BY <1>1, <3>1, <3>2
    <3>3. CASE i # 1
      <4>1. i - 1 \in 1..(n-1) /\ r[i-1] = q[i]
        BY <1>1, <3>3
      <4> QED
        BY <1>1, <3>1, <4>1 DEF Range
    <3> QED
      BY <3>2, <3>3
  <2>2. ASSUME NEW x \in Range(r) PROVE x \in Range(q)
    <3>1. PICK i \in 1..(n-1) : r[i] = x
      BY <1>1, <2>2 DEF Range
    <3>2. i + 1 \in 1..n /\ q[i+1] = x
      BY <1>1, <3>1
    <3> QED
      BY <1>1, <3>2 DEF Range
  <2> QED
    BY <1>2, <2>1, <2>2
<1>4. ASSUME Distinct(q) PROVE Distinct(r) /\ Head(q) \notin Range(r)
  <2>1. Distinct(r)
    <3> SUFFICES ASSUME NEW i \in 1..(n-1), NEW j \in 1..(n-1), r[i] = r[j]
                 PROVE  i = j
      BY <1>1 DEF Distinct
    <3>1. q[i+1] = q[j+1] /\ i + 1 \in 1..n /\ j + 1 \in 1..n
      BY <1>1
    <3> QED
      BY <1>1, <1>4, <3>1 DEF Distinct
  <2>2. ASSUME Head(q) \in Range(r) PROVE FALSE
    <3>1. PICK i \in 1..(n-1) : r[i] = q[1]
      BY <1>1, <2>2 DEF Range
    <3>2. q[i+1] = q[1] /\ i + 1 \in 1..n /\ 1 \in 1..n /\ i + 1 # 1
      BY <1>1, <3>1
    <3> QED
      BY <1>1, <1>4, <3>2 DEF Distinct
  <2> QED
    BY <2>1, <2>2
<1> QED
  BY <1>1, <1>2, <1>3, <1>4

(* r is q without its entry at position i.                                 *)
EntryOut(q, i, r) ==
  /\ Len(r) = Len(q) - 1
  /\ \A j \in 1..(Len(q)-1) : r[j] = IF j < i THEN q[j] ELSE q[j+1]

LEMMA EntryOutFacts ==
  ASSUME NEW S, NEW q \in Seq(S), Distinct(q), NEW i \in 1..Len(q),
         NEW r \in Seq(S), EntryOut(q, i, r)
  PROVE  /\ Range(r) = Range(q) \ {q[i]}
         /\ Distinct(r)
<1> DEFINE n == Len(q)
           from(j) == IF j < i THEN j ELSE j + 1
<1>1. /\ n \in Nat \ {0}
      /\ DOMAIN q = 1..n
      /\ q \in [1..n -> S]
  OBVIOUS
<1>2. \A j \in 1..(n-1) : from(j) \in 1..n /\ from(j) # i
  BY <1>1
<1>3. \A j \in 1..(n-1) : r[j] = q[from(j)]
  BY DEF EntryOut
<1>4. r \in Seq(S) /\ Len(r) = n - 1 /\ DOMAIN r = 1..(n-1)
  BY DEF EntryOut
<1>5. ASSUME NEW x \in Range(r) PROVE x \in Range(q) \ {q[i]}
  <2>1. PICK j \in 1..(n-1) : q[from(j)] = x
    BY <1>3, <1>4, <1>5 DEF Range
  <2> QED
    BY <1>1, <1>2, <2>1 DEF Range, Distinct
<1>6. ASSUME NEW x \in Range(q) \ {q[i]} PROVE x \in Range(r)
  <2>1. PICK k \in 1..n : q[k] = x
    BY <1>1, <1>6 DEF Range
  <2>2. PICK j \in 1..(n-1) : from(j) = k
    <3>1. CASE k < i
      <4>1. k \in 1..(n-1) /\ from(k) = k
        BY <1>1, <3>1
      <4> QED
        BY <4>1
    <3>2. CASE k > i
      <4>1. k - 1 \in 1..(n-1) /\ from(k-1) = k
        BY <1>1, <3>2
      <4> QED
        BY <4>1
    <3> QED
      BY <1>6, <2>1, <3>1, <3>2
  <2> QED
    BY <1>3, <1>4, <2>1, <2>2 DEF Range
<1>7. Distinct(r)
  <2> SUFFICES ASSUME NEW j \in 1..(n-1), NEW k \in 1..(n-1), r[j] = r[k]
               PROVE  j = k
    BY <1>4 DEF Distinct
  <2>1. from(j) = from(k)
    BY <1>1, <1>2, <1>3 DEF Distinct
  <2> QED
    BY <2>1, <1>1
<1> QED
  BY <1>4, <1>5, <1>6, <1>7
-----------------------------------------------------------------------------
(* A set of natural numbers has a least element.                           *)
LEMMA LeastNatural ==
  ASSUME NEW T \in SUBSET Nat, T # {}
  PROVE  \E m \in T : \A k \in T : m <= k
<1> DEFINE less == OpToRel(<, Nat)
<1>1. \A j, k \in Nat : j < k => <<j, k>> \in less
  BY DEF OpToRel
<1>2. IsWellFoundedOn(less, Nat)
  BY NatLessThanWellFounded
<1> HIDE DEF less
<1>3. PICK m \in T : \A k \in T : ~ (<<k, m>> \in less)
  BY <1>2, WFMin
<1>4. ASSUME NEW k \in T PROVE m <= k
  <2>1. ~ (k < m)
    BY <1>1, <1>3
  <2> QED
    BY <2>1
<1> QED
  BY <1>4

(* Induction over an interval, for the set of numbers with a property.     *)
LEMMA Induction ==
  ASSUME NEW n \in Nat, NEW T, 0 \in T, \A i \in 1..n : i - 1 \in T => i \in T
  PROVE  \A i \in 0..n : i \in T
<1> SUFFICES ASSUME (0..n) \ T # {} PROVE FALSE
  OBVIOUS
<1>1. PICK m \in (0..n) \ T : \A k \in (0..n) \ T : m <= k
  <2>1. (0..n) \ T \in SUBSET Nat
    OBVIOUS
  <2> QED
    BY <2>1, LeastNatural
<1> QED
  BY <1>1

LEMMA MaxFacts ==
  ASSUME NEW n \in Nat, NEW T \in SUBSET (1..n), T # {}
  PROVE  /\ Max(T) \in T
         /\ \A k \in T : k <= Max(T)
<1> DEFINE above == {n - k : k \in T}
<1>1. above \in SUBSET Nat
  <2>1. \A k \in T : n - k \in Nat
    OBVIOUS
  <2> QED
    BY <2>1
<1>0. above # {}
  <2>1. PICK k : k \in T
    OBVIOUS
  <2>2. n - k \in above
    BY <2>1
  <2> QED
    BY <2>2
<1>2. PICK m \in above : \A k \in above : m <= k
  <2> HIDE DEF above
  <2> QED
    BY <1>0, <1>1, LeastNatural
<1>3. PICK k \in T : m = n - k
  OBVIOUS
<1>4. \A j \in T : k >= j
  <2> SUFFICES ASSUME NEW j \in T PROVE k >= j
    OBVIOUS
  <2>1. n - j \in above
    OBVIOUS
  <2> QED
    BY <1>2, <1>3, <2>1
<1> QED
  BY <1>4 DEF Max

LEMMA MaxOfInterval ==
  ASSUME NEW k \in Nat, k # 0
  PROVE  Max(1..k) = k
<1>1. 1..k \in SUBSET (1..k) /\ k \in 1..k
  OBVIOUS
<1>2. 1..k # {}
  BY <1>1
<1>3. Max(1..k) \in 1..k /\ \A j \in 1..k : j <= Max(1..k)
  BY <1>1, <1>2, MaxFacts
<1> QED
  BY <1>1, <1>3

LEMMA PrefixFacts ==
  ASSUME NEW n \in Nat, NEW k \in 1..n
  PROVE  /\ Max(1..k) = k
         /\ (1..k) \ {k} = 1..(k-1)
         /\ 1..k # {}
         /\ 1..k \in SUBSET (1..n)
<1>1. k \in Nat /\ k # 0
  OBVIOUS
<1>2. Max(1..k) = k
  BY <1>1, MaxOfInterval
<1> QED
  BY <1>2

(* step takes an accumulator and a position to the next accumulator.       *)
Steps(step, n, S) == step \in [S \X (1..n) -> S]

(* it is what FoldLeft iterates: it takes a set of positions to the        *)
(* accumulator after them.                                                 *)
Iterates(it, step, b, n, S) ==
  /\ it \in [SUBSET (1..n) -> S]
  /\ \A T \in SUBSET (1..n) :
       it[T] = IF T = {} THEN b ELSE step[<<it[T \ {Max(T)}], Max(T)>>]

(* The function by which a fold over n positions is defined exists.        *)
LEMMA FoldExists ==
  ASSUME NEW S, NEW b \in S, NEW n \in Nat, NEW step, Steps(step, n, S)
  PROVE  \E it : Iterates(it, step, b, n, S)
<1> DEFINE Below(k) == SUBSET (1..k)
           Folds(it, k) == \A T \in Below(k) :
             it[T] = IF T = {} THEN b ELSE step[<<it[T \ {Max(T)}], Max(T)>>]
           Done == {k \in 0..n : \E it \in [Below(k) -> S] : Folds(it, k)}
<1> USE DEF Steps
<1>1. 0 \in Done
  <2> DEFINE first == [T \in Below(0) |-> b]
  <2>1. \A T \in Below(0) : T = {}
    OBVIOUS
  <2>2. first \in [Below(0) -> S] /\ Folds(first, 0)
    BY <2>1
  <2> HIDE DEF first
  <2>3. \E it \in [Below(0) -> S] : Folds(it, 0)
    BY <2>2
  <2> HIDE DEF Folds, Below
  <2> QED
    BY <2>3
<1>2. ASSUME NEW k \in 1..n, k - 1 \in Done PROVE k \in Done
  <2>1. PICK it \in [Below(k-1) -> S] : Folds(it, k-1)
    BY <1>2
  <2> DEFINE more == [T \in Below(k) |->
                        IF k \in T THEN step[<<it[T \ {k}], k>>] ELSE it[T]]
  <2>2. ASSUME NEW T \in Below(k)
        PROVE  T \ {k} \in Below(k-1) /\ (k \notin T => T \in Below(k-1))
    <3>1. \A j \in 1..k : j # k => j \in 1..(k-1)
      OBVIOUS
    <3> QED
      BY <3>1
  <2>3. more \in [Below(k) -> S]
    <3> SUFFICES ASSUME NEW T \in Below(k)
                 PROVE  (IF k \in T THEN step[<<it[T \ {k}], k>>] ELSE it[T]) \in S
      OBVIOUS
    <3>1. it[T \ {k}] \in S
      BY <2>2
    <3> QED
      BY <2>2, <3>1
  <2>4. Folds(more, k)
    <3> SUFFICES ASSUME NEW T \in Below(k)
                 PROVE  more[T] = IF T = {} THEN b
                                  ELSE step[<<more[T \ {Max(T)}], Max(T)>>]
      OBVIOUS
    <3>1. CASE k \in T
      <4>1. Max(T) = k
        <5>1. T \in SUBSET (1..k) /\ T # {} /\ k \in Nat
          BY <3>1
        <5>2. Max(T) \in T /\ \A j \in T : j <= Max(T)
          BY <5>1, MaxFacts
        <5>3. Max(T) \in 1..k /\ k <= Max(T)
          BY <3>1, <5>1, <5>2
        <5> QED
          BY <5>3
      <4>2. T \ {k} \in Below(k) /\ k \notin T \ {k}
        OBVIOUS
      <4>3. more[T \ {k}] = it[T \ {k}]
        BY <4>2
      <4> QED
        BY <3>1, <4>1, <4>3
    <3>2. CASE k \notin T
      <4>1. T \in Below(k-1) /\ more[T] = it[T]
        BY <2>2, <3>2
      <4>2. CASE T = {}
        BY <2>1, <4>1, <4>2
      <4>3. CASE T # {}
        <5>1. T \ {Max(T)} \in Below(k) /\ k \notin T \ {Max(T)}
          BY <3>2
        <5>2. more[T \ {Max(T)}] = it[T \ {Max(T)}]
          BY <5>1
        <5> QED
          BY <2>1, <4>1, <4>3, <5>2
      <4> QED
        BY <4>2, <4>3
    <3> QED
      BY <3>1, <3>2
  <2> HIDE DEF more, Folds
  <2> QED
    BY <2>3, <2>4
<1>3. n \in Done
  <2> HIDE DEF Done
  <2> QED
    BY <1>1, <1>2, Induction
<1> QED
  BY <1>3 DEF Iterates
=============================================================================
