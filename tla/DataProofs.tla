----------------------------- MODULE DataProofs -----------------------------
(***************************************************************************)
(* Facts about naturals, sequences and sorting that the proofs about the   *)
(* components share.                                                       *)
(***************************************************************************)
EXTENDS Sorting, Sequences, FiniteSetTheorems, SequenceTheorems,
        WellFoundedInduction, TLAPS

\* A function on an initial segment of the naturals is a sequence.
LEMMA FunctionIsSeq ==
  ASSUME NEW S, NEW n \in Nat, NEW f \in [1 .. n -> S]
  PROVE  f \in Seq(S) /\ Len(f) = n
OBVIOUS

\* A nonempty set of naturals has a least element.
LEMMA LeastExists ==
  ASSUME NEW T \in SUBSET Nat, T # {}
  PROVE  \E i \in T : \A j \in T : i <= j
<1>1. \A p \in Nat \X Nat : p \in OpToRel(<, Nat) <=> p[1] < p[2]
  BY Zenon DEF OpToRel
<1>2. PICK R : /\ IsWellFoundedOn(R, Nat)
               /\ \A p \in Nat \X Nat : p \in R <=> p[1] < p[2]
  BY <1>1, NatLessThanWellFounded, Zenon
<1>3. PICK i \in T : \A j \in T : <<j, i>> \notin R
  BY <1>2, WFMin
<1>4. ASSUME NEW j \in T PROVE i <= j
  <2>1. <<j, i>> \in Nat \X Nat
    OBVIOUS
  <2>2. ~(j < i)
    BY <1>2, <1>3, <2>1
  <2> QED BY <2>2
<1> QED BY <1>4

\* Taking the first element of a queue.
LEMMA TakeFirst ==
  ASSUME NEW S, NEW q \in Seq(S), q # <<>>
  PROVE  /\ Head(q) = q[1] /\ Head(q) \in S /\ 1 \in DOMAIN q
         /\ Tail(q) \in Seq(S)
         /\ DOMAIN Tail(q) = 1 .. Len(q) - 1
         /\ \A i \in DOMAIN Tail(q) : i + 1 \in DOMAIN q /\ Tail(q)[i] = q[i + 1]
         /\ \A i \in DOMAIN q : i # 1 => i - 1 \in DOMAIN Tail(q) /\ q[i] = Tail(q)[i - 1]
OBVIOUS

\* Putting one more at the end.
LEMMA PutLast ==
  ASSUME NEW S, NEW q \in Seq(S), NEW x \in S
  PROVE  /\ Append(q, x) \in Seq(S)
         /\ Len(Append(q, x)) = Len(q) + 1
         /\ DOMAIN Append(q, x) = DOMAIN q \cup {Len(q) + 1}
         /\ Len(q) + 1 \notin DOMAIN q
         /\ Append(q, x)[Len(q) + 1] = x
         /\ \A i \in DOMAIN q : Append(q, x)[i] = q[i]
         /\ \A i \in DOMAIN q : i < Len(q) + 1 /\ i \in Nat
OBVIOUS

-----------------------------------------------------------------------------
(* Sorting *)

\* `before` is a strict total order on S.
TotalOrder(before, S) ==
  /\ \A x \in S : <<x, x>> \notin before
  /\ \A x, y \in S : x # y => <<x, y>> \in before \/ <<y, x>> \in before
  /\ \A x, y, z \in S : <<x, y>> \in before /\ <<y, z>> \in before => <<x, z>> \in before

\* The elements before x.
Earlier(S, before, x) == {y \in S : <<y, x>> \in before}

\* Ranks rise with the order.
LEMMA RankRises ==
  ASSUME NEW S, IsFiniteSet(S), NEW before, TotalOrder(before, S),
         NEW x \in S, NEW y \in S, <<x, y>> \in before
  PROVE  Cardinality(Earlier(S, before, x)) < Cardinality(Earlier(S, before, y))
<1> DEFINE A == Earlier(S, before, x)
           B == Earlier(S, before, y)
<1>1. A \in SUBSET B /\ x \in B /\ x \notin A
  BY DEF TotalOrder, Earlier
<1>2. IsFiniteSet(B)
  <2>1. B \in SUBSET S BY DEF Earlier
  <2> QED BY <2>1, FS_Subset
<1> HIDE DEF A, B
<1>3. IsFiniteSet(A) /\ Cardinality(A) <= Cardinality(B)
      /\ (Cardinality(B) = Cardinality(A) => B = A)
  BY <1>1, <1>2, FS_Subset
<1>4. Cardinality(A) \in Nat /\ Cardinality(B) \in Nat
  BY <1>2, <1>3, FS_CardinalityType
<1>5. Cardinality(A) < Cardinality(B)
  BY <1>1, <1>3, <1>4
<1> QED BY <1>5 DEF A, B

\* A rank is a number below the size of the set.
LEMMA RankBounded ==
  ASSUME NEW S, IsFiniteSet(S), NEW before, TotalOrder(before, S), NEW x \in S
  PROVE  /\ Cardinality(S) \in Nat
         /\ Cardinality(Earlier(S, before, x)) \in 0 .. Cardinality(S) - 1
<1> DEFINE A == Earlier(S, before, x)
<1>1. A \in SUBSET S /\ x \notin A
  BY DEF TotalOrder, Earlier
<1> HIDE DEF A
<1>2. IsFiniteSet(A) /\ Cardinality(A) <= Cardinality(S)
      /\ (Cardinality(S) = Cardinality(A) => S = A)
  BY <1>1, FS_Subset
<1>3. Cardinality(A) \in Nat /\ Cardinality(S) \in Nat
  BY <1>2, FS_CardinalityType
<1>4. Cardinality(A) \in 0 .. Cardinality(S) - 1
  BY <1>1, <1>2, <1>3
<1> QED BY <1>3, <1>4 DEF A

\* InOrder lists every element once, in order.
LEMMA InOrderSorts ==
  ASSUME NEW S, IsFiniteSet(S), NEW before, TotalOrder(before, S)
  PROVE  /\ Cardinality(S) \in Nat
         /\ InOrder(S, before) \in [1 .. Cardinality(S) -> S]
         /\ \A k \in 1 .. Cardinality(S) :
              Cardinality(Earlier(S, before, InOrder(S, before)[k])) = k - 1
         /\ \A x \in S : \E k \in 1 .. Cardinality(S) : InOrder(S, before)[k] = x
         /\ \A i, j \in 1 .. Cardinality(S) :
              i < j => <<InOrder(S, before)[i], InOrder(S, before)[j]>> \in before
<1> DEFINE n == Cardinality(S)
           Rank(x) == Cardinality(Earlier(S, before, x))
           rank == [x \in S |-> Rank(x)]
           F == InOrder(S, before)
<1>1. n \in Nat BY FS_CardinalityType
<1>2. \A x \in S : Rank(x) \in 0 .. n - 1
  BY RankBounded
<1>3. \A x, y \in S : <<x, y>> \in before => Rank(x) < Rank(y)
  BY RankRises
<1> HIDE DEF Rank
<1>4. \A x, y \in S : Rank(x) = Rank(y) => x = y
  <2> SUFFICES ASSUME NEW x \in S, NEW y \in S, x # y PROVE Rank(x) # Rank(y) OBVIOUS
  <2>1. <<x, y>> \in before \/ <<y, x>> \in before BY DEF TotalOrder
  <2> QED BY <2>1, <1>1, <1>2, <1>3
<1>5. rank \in Injection(S, 0 .. n - 1)
  BY <1>2, <1>4 DEF Injection, IsInjective
<1>6. IsFiniteSet(0 .. n - 1) /\ Cardinality(0 .. n - 1) = n
  BY <1>1, FS_Interval
<1>7. rank \in Surjection(S, 0 .. n - 1)
  <2> HIDE DEF rank
  <2> QED BY <1>5, <1>6, FS_Injection
<1>8. \A k \in 1 .. n : \E x \in S : Rank(x) = k - 1
  <2> SUFFICES ASSUME NEW k \in 1 .. n PROVE \E x \in S : Rank(x) = k - 1 OBVIOUS
  <2>1. k - 1 \in 0 .. n - 1 BY <1>1
  <2>2. PICK x \in S : rank[x] = k - 1 BY <1>7, <2>1 DEF Surjection
  <2> QED BY <2>2
<1>9. F = [k \in 1 .. n |-> CHOOSE x \in S : Rank(x) = k - 1]
  BY DEF InOrder, Rank, Earlier
<1> HIDE DEF F, n, rank
<1>10. \A k \in 1 .. n : F[k] \in S /\ Rank(F[k]) = k - 1
  BY <1>8, <1>9
<1>11. F \in [1 .. n -> S]
  BY <1>9, <1>10
<1>12. \A x \in S : \E k \in 1 .. n : F[k] = x
  <2> SUFFICES ASSUME NEW x \in S PROVE \E k \in 1 .. n : F[k] = x OBVIOUS
  <2>1. Rank(x) + 1 \in 1 .. n BY <1>1, <1>2
  <2>2. F[Rank(x) + 1] \in S /\ Rank(F[Rank(x) + 1]) = Rank(x)
    <3>1. Rank(x) \in Int BY <1>2
    <3>2. Rank(F[Rank(x) + 1]) = (Rank(x) + 1) - 1 BY <1>10, <2>1
    <3> QED BY <1>10, <2>1, <3>1, <3>2
  <2> QED BY <2>1, <2>2, <1>4
<1>13. ASSUME NEW i \in 1 .. n, NEW j \in 1 .. n, i < j
       PROVE  <<F[i], F[j]>> \in before
  <2>1. F[i] \in S /\ F[j] \in S /\ Rank(F[i]) < Rank(F[j]) BY <1>10, <1>13
  <2>2. F[i] # F[j] /\ <<F[j], F[i]>> \notin before
    BY <2>1, <1>2, <1>3, <1>1
  <2> QED BY <2>1, <2>2 DEF TotalOrder
<1> QED BY <1>1, <1>10, <1>11, <1>12, <1>13 DEF F, n, Rank
=============================================================================
