------------------------------ MODULE SharedLemmas ------------------------------
(***************************************************************************)
(* Lemmas of several proofs.  Induction over the naturals is for a set in  *)
(* place of a predicate: the theorems of NaturalsInduction take an         *)
(* operator, which no prover here can instantiate; a set can be, and       *)
(* {n \in Nat : P(n)} is one.                                              *)
(***************************************************************************)
EXTENDS Integers, Sequences, FiniteSets, FiniteSetTheorems, TLAPS

\* A set that holds zero and the successor of each natural number it holds, holds all.
\* If it lacked n, then adding one would map its part up to n, which is finite, one to
\* one to that part without zero, which is smaller.
LEMMA NatSetInduction ==
  ASSUME NEW S, 0 \in S, \A n \in Nat : n \in S => n + 1 \in S
  PROVE  Nat \subseteq S
<1> SUFFICES ASSUME NEW n \in Nat, n \notin S PROVE FALSE
  OBVIOUS
<1> DEFINE below == {k \in 0..n : k \in S}
           next  == [k \in below |-> k + 1]
<1>1. IsFiniteSet(below) /\ 0 \in below
  <2>1. IsFiniteSet(0..n)
    BY FS_Interval
  <2>2. below \in SUBSET (0..n)
    OBVIOUS
  <2>3. IsFiniteSet(below)
    BY <2>1, <2>2, FS_Subset
  <2> QED
    BY <2>3
<1>2. next \in [below -> below \ {0}]
  <2>1. ASSUME NEW k \in below PROVE k + 1 \in below \ {0}
    <3>1. k \in Nat /\ k <= n /\ k \in S /\ k # n
      OBVIOUS
    <3> QED
      BY <3>1
  <2> QED
    BY <2>1
<1> HIDE DEF below, next
<1>3. /\ Cardinality(below) \in Nat
      /\ IsFiniteSet(below \ {0})
      /\ Cardinality(below \ {0}) = Cardinality(below) - 1
  BY <1>1, FS_RemoveElement, FS_CardinalityType
<1>4. PICK j, k \in below : j # k /\ next[j] = next[k]
  <2>1. Cardinality(below \ {0}) < Cardinality(below)
    BY <1>3
  <2> QED
    BY <1>1, <1>2, <1>3, <2>1, FS_PigeonHole
<1> QED
  BY <1>4 DEF next, below

\* A set of naturals with a member has a least one.
LEMMA LeastOf ==
  ASSUME NEW s \in SUBSET Nat, s # {}
  PROVE  \E i \in s : \A k \in s : i <= k
<1> SUFFICES ASSUME \A i \in s : \E k \in s : k < i PROVE FALSE
  BY Z3
<1> DEFINE above == {n \in Nat : \A k \in s : n < k}
<1>1. 0 \in above
  <2>1. ASSUME NEW k \in s PROVE 0 < k
    <3>1. PICK m \in s : m < k
      OBVIOUS
    <3> QED
      BY <3>1
  <2> QED
    BY <2>1
<1>2. ASSUME NEW n \in Nat, n \in above PROVE n + 1 \in above
  <2>1. ASSUME NEW k \in s PROVE n + 1 < k
    <3>1. PICK m \in s : m < k
      OBVIOUS
    <3>2. n < m
      BY <1>2
    <3> QED
      BY <3>1, <3>2
  <2> QED
    BY <2>1
<1> HIDE DEF above
<1>3. Nat \subseteq above
  BY <1>1, <1>2, NatSetInduction
<1>4. PICK k \in s : TRUE
  OBVIOUS
<1> QED
  BY <1>3, <1>4 DEF above

\* One that is bounded has a greatest one.
LEMMA GreatestOf ==
  ASSUME NEW n \in Nat, NEW s \in SUBSET (0..n), s # {}
  PROVE  \E i \in s : \A k \in s : k <= i
<1> DEFINE mirrored == {n - k : k \in s}
<1>1. mirrored \in SUBSET Nat /\ mirrored # {}
  <2>1. \A k \in s : n - k \in Nat
    OBVIOUS
  <2>2. PICK k \in s : TRUE
    OBVIOUS
  <2> QED
    BY <2>1, <2>2
<1>2. PICK m \in mirrored : \A j \in mirrored : m <= j
  <2> HIDE DEF mirrored
  <2> QED
    BY <1>1, LeastOf
<1>3. PICK i \in s : m = n - i
  OBVIOUS
<1>4. ASSUME NEW k \in s PROVE k <= i
  <2>1. m <= n - k
    BY <1>2
  <2> QED
    BY <1>3, <2>1
<1> QED
  BY <1>4

\* A sequence with one more member at i, as InsertAt of the community modules has it.
Inserted(list, i, new) == SubSeq(list, 1, i - 1) \o <<new>> \o SubSeq(list, i, Len(list))

\* Where the members of a sequence are once one more has been inserted at i.
LEMMA InsertPositions ==
  ASSUME NEW S, NEW list \in Seq(S), NEW new \in S, NEW i \in 1..(Len(list) + 1)
  PROVE  LET n      == Len(list)
             landed == Inserted(list, i, new)
         IN  /\ n \in Nat
             /\ DOMAIN list = 1..n
             /\ DOMAIN landed = 1..(n + 1)
             /\ landed \in Seq(S)
             /\ landed[i] = new
             /\ \A k \in 1..n : k < i => landed[k] = list[k]
             /\ \A k \in 1..(n + 1) : k > i => k - 1 \in 1..n /\ landed[k] = list[k - 1]
             /\ i = n + 1 => landed = Append(list, new)
<1> DEFINE n == Len(list)
           landed == Inserted(list, i, new)
<1>1. n \in Nat /\ DOMAIN list = 1..n /\ \A k \in 1..n : list[k] \in S
  OBVIOUS
<1>2. landed = [k \in 1..(n + 1) |-> IF k < i THEN list[k]
                                      ELSE IF k = i THEN new ELSE list[k - 1]]
  <2> DEFINE head == SubSeq(list, 1, i - 1)
             tail == SubSeq(list, i, n)
  <2>1. /\ head \in Seq(S) /\ Len(head) = i - 1
        /\ \A k \in 1..(i - 1) : head[k] = list[k]
    BY <1>1
  <2>2. /\ tail \in Seq(S) /\ Len(tail) = n + 1 - i
        /\ \A k \in 1..(n + 1 - i) : tail[k] = list[i + k - 1]
    BY <1>1
  <2>3. landed = head \o <<new>> \o tail
    BY DEF Inserted
  <2> HIDE DEF head, tail, n, landed
  <2> DEFINE first == head \o <<new>>
  <2>4. /\ first \in Seq(S) /\ Len(first) = i
        /\ \A k \in 1..i : first[k] = IF k < i THEN list[k] ELSE new
    BY <1>1, <2>1 DEF n
  <2>5. landed = first \o tail
    BY <2>3
  <2> HIDE DEF first
  <2>6. /\ landed \in Seq(S) /\ Len(landed) = n + 1
        /\ \A k \in 1..(n + 1) : landed[k] = IF k <= i THEN first[k] ELSE tail[k - i]
    <3>1. first \in Seq(S) /\ tail \in Seq(S)
      BY <2>2, <2>4
    <3>2. first \o tail \in Seq(S) /\ Len(first \o tail) = Len(first) + Len(tail)
      BY <3>1
    <3>3. Len(first) + Len(tail) = n + 1 /\ i \in Nat /\ n \in Nat
      BY <1>1, <2>2, <2>4 DEF n
    <3>4. \A k \in 1..(n + 1) : (first \o tail)[k] = IF k <= i THEN first[k] ELSE tail[k - i]
      BY <2>2, <2>4, <3>3
    <3> QED
      BY <2>5, <3>2, <3>3, <3>4
  <2>7. \A k \in 1..(n + 1) : landed[k] = IF k < i THEN list[k]
                                            ELSE IF k = i THEN new ELSE list[k - 1]
    <3>1. SUFFICES ASSUME NEW k \in 1..(n + 1)
                   PROVE  landed[k] = IF k < i THEN list[k]
                                      ELSE IF k = i THEN new ELSE list[k - 1]
      OBVIOUS
    <3>2. CASE k <= i
      <4>1. k \in 1..i /\ landed[k] = first[k]
        BY <1>1, <2>6, <3>1, <3>2
      <4> QED
        BY <1>1, <2>4, <3>2, <4>1
    <3>3. CASE k > i
      <4>1. k - i \in 1..(n + 1 - i) /\ landed[k] = tail[k - i] /\ i + (k - i) - 1 = k - 1
        BY <1>1, <2>6, <3>1, <3>3
      <4> QED
        BY <1>1, <2>2, <3>3, <4>1
    <3> QED
      BY <1>1, <3>2, <3>3
  <2>8. landed = [k \in 1..Len(landed) |-> landed[k]]
    BY <2>6
  <2> QED
    BY <2>6, <2>7, <2>8 DEF n, landed
<1>3. \A k \in 1..(n + 1) : /\ k < i => k \in 1..n
                            /\ k > i => k - 1 \in 1..n
  BY <1>1 DEF n
<1>4. \A k \in 1..(n + 1) : landed[k] \in S
  BY <1>1, <1>2, <1>3 DEF n
<1>5. DOMAIN landed = 1..(n + 1)
  BY <1>2
<1>6. landed \in Seq(S)
  <2>1. landed = [k \in 1..(n + 1) |-> landed[k]]
    BY <1>2
  <2> QED
    BY <1>1, <1>4, <2>1
<1>7. ASSUME i = n + 1 PROVE landed = Append(list, new)
  <2> DEFINE longer == Append(list, new)
  <2>1. /\ DOMAIN longer = 1..(n + 1)
        /\ longer = [k \in DOMAIN longer |-> longer[k]]
        /\ \A k \in 1..n : longer[k] = list[k]
        /\ longer[n + 1] = new
    <3>1. /\ longer \in Seq(S) /\ Len(longer) = Len(list) + 1
          /\ \A k \in 1..Len(list) : longer[k] = list[k]
          /\ longer[Len(list) + 1] = new
      OBVIOUS
    <3> HIDE DEF longer
    <3>2. DOMAIN longer = 1..(Len(list) + 1) /\ longer = [k \in DOMAIN longer |-> longer[k]]
      BY <3>1
    <3> QED
      BY <3>1, <3>2 DEF n
  <2> HIDE DEF longer
  <2>2. \A k \in 1..(n + 1) : \/ k < i /\ k \in 1..n
                              \/ ~ (k < i) /\ k = i /\ k = n + 1
    BY <1>1, <1>7
  <2>3. \A k \in 1..(n + 1) : landed[k] = longer[k]
    BY <1>2, <2>1, <2>2
  <2>4. landed = longer
    BY <1>2, <2>1, <2>3
  <2> QED
    BY <2>4 DEF longer
<1> QED
  BY <1>1, <1>2, <1>3, <1>5, <1>6, <1>7 DEF n, landed
================================================================================
