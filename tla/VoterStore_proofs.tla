------------------------- MODULE VoterStore_proofs -------------------------
(***************************************************************************)
(* Proofs about VoterStore, for any set of voters, any writes of clients    *)
(* and any bounds.                                                         *)
(***************************************************************************)
EXTENDS VoterStore, TLAPS, WellFoundedInduction, SequenceTheorems, FiniteSetTheorems

-----------------------------------------------------------------------------
(***************************************************************************)
(* Numbers: the least of a set, induction, the greatest of a bounded set.  *)
(***************************************************************************)

\* A set of naturals has a least element.
LEMMA NatLeast ==
    ASSUME NEW T, T \subseteq Nat, T # {}
    PROVE  \E x \in T : \A y \in T : x <= y
<1> DEFINE Less == {p \in Nat \X Nat : p[1] < p[2]}
<1>1. IsWellFoundedOn(Less, Nat)
  BY NatLessThanWellFounded, Zenon DEF OpToRel
<1>2. PICK x \in T : \A y \in T : ~(<<y, x>> \in Less)
  <2> HIDE DEF Less
  <2>1. QED
    BY <1>1, WFMin
<1>3. \A y \in T : ~(y < x)
  BY <1>2
<1>4. QED
  BY <1>2, <1>3

\* Induction over the naturals, for a set.
LEMMA NatInSet ==
    ASSUME NEW T, 0 \in T, \A k \in Nat : k \in T => k + 1 \in T
    PROVE  \A k \in Nat : k \in T
<1> SUFFICES ASSUME NEW n \in Nat, n \notin T
             PROVE  FALSE
  OBVIOUS
<1> DEFINE Out == {k \in Nat : k \notin T}
<1>1. PICK k \in Out : \A y \in Out : k <= y
  <2>1. Out \subseteq Nat /\ Out # {}
    OBVIOUS
  <2> HIDE DEF Out
  <2>2. QED
    BY <2>1, NatLeast
<1>2. k # 0 /\ k \in Nat /\ k - 1 \in Nat /\ k - 1 \notin Out
  BY <1>1
<1>3. (k - 1) + 1 \in T
  BY <1>2
<1>4. QED
  BY <1>1, <1>2, <1>3

\* A nonempty set of integers with an upper bound has a greatest element, its Max.
LEMMA MaxOfBounded ==
    ASSUME NEW S, S \subseteq Int, S # {}, NEW b \in Int, \A x \in S : x <= b
    PROVE  Max(S) \in S /\ \A y \in S : y <= Max(S)
<1> DEFINE T == {b - x : x \in S}
<1>1. T \subseteq Nat /\ T # {}
  <2>1. \A x \in S : x \in Int /\ b - x \in Nat
    OBVIOUS
  <2>2. PICK x \in S : TRUE
    OBVIOUS
  <2>3. b - x \in T
    OBVIOUS
  <2>4. QED
    BY <2>1, <2>3
<1>2. PICK t \in T : \A y \in T : t <= y
  <2> HIDE DEF T
  <2>1. QED
    BY <1>1, NatLeast
<1>3. PICK x \in S : t = b - x
  BY <1>2
<1>4. \A y \in S : x >= y
  <2>1. TAKE y \in S
  <2>2. b - y \in T
    OBVIOUS
  <2>3. b - x <= b - y /\ x \in Int /\ y \in Int
    BY <1>2, <1>3, <2>2
  <2>4. QED
    BY <2>3
<1>5. \E m \in S : \A y \in S : m >= y
  BY <1>4
<1>6. Max(S) \in S /\ \A y \in S : Max(S) >= y
  BY <1>5, Zenon DEF Max
<1>7. QED
  BY <1>6

\* A nonempty set of naturals contains its Min.
LEMMA MinOfNaturals ==
    ASSUME NEW S, S \subseteq Nat, S # {}
    PROVE  Min(S) \in S
<1>1. PICK m \in S : \A y \in S : m <= y
  BY NatLeast
<1>2. Min(S) \in S /\ \A y \in S : Min(S) <= y
  BY <1>1, Zenon DEF Min
<1>3. QED
  BY <1>2

\* The greater of two numbers.
LEMMA MaxOfTwo ==
    ASSUME NEW x \in Int, NEW y \in Int
    PROVE  Max({x, y}) \in {x, y}
<1> DEFINE b == IF x <= y THEN y ELSE x
<1>1. b \in Int /\ {x, y} \subseteq Int /\ {x, y} # {} /\ \A z \in {x, y} : z <= b
  OBVIOUS
<1> HIDE DEF b
<1>2. QED
  BY <1>1, MaxOfBounded

-----------------------------------------------------------------------------
(***************************************************************************)
(* Folds.  A fold of a sequence of length n goes over the subsets of 1..n, *)
(* from which it takes the greatest index first.                           *)
(***************************************************************************)

\* The greatest index of a set, and what is left of it.
LEMMA GreatestIndex ==
    ASSUME NEW n \in Nat, NEW t \in SUBSET (1..n), t # {}
    PROVE  /\ Max(t) \in t /\ Max(t) \in 1..n /\ t \ {Max(t)} \in SUBSET (1..n)
           /\ t \ {Max(t)} \in SUBSET (1..(Max(t) - 1))
<1>1. t \subseteq Int /\ n \in Int /\ \A x \in t : x <= n
  OBVIOUS
<1>2. Max(t) \in t /\ \A y \in t : y <= Max(t)
  <2> HIDE DEF Max
  <2>1. QED
    BY <1>1, MaxOfBounded
<1>3. Max(t) \in 1..n
  BY <1>2
<1>4. \A y \in t \ {Max(t)} : y \in 1..(Max(t) - 1)
  <2>1. \A y \in t : y \in 1..n /\ y <= Max(t)
    BY <1>2
  <2> DEFINE m == Max(t)
  <2>2. m \in 1..n /\ \A y \in t : y \in 1..n /\ y <= m
    BY <1>3, <2>1
  <2> HIDE DEF m
  <2>3. \A y \in t \ {m} : y \in 1..(m - 1)
    BY <2>2
  <2>4. QED
    BY <2>3 DEF m
<1>5. QED
  BY <1>2, <1>3, <1>4

\* g is what the step R makes of b, for each set of indices.
IsFold(n, X, b, R, g) ==
    /\ g \in [SUBSET (1..n) -> X]
    /\ g[{}] = b
    /\ \A t \in SUBSET (1..n) : t # {} => g[t] = R[<<g[t \ {Max(t)}], Max(t)>>]

\* A step R that stays in X can be folded.
LEMMA FoldExists ==
    ASSUME NEW n \in Nat, NEW X, NEW b \in X, NEW R \in [X \X (1..n) -> X]
    PROVE  \E g : IsFold(n, X, b, R, g)
<1> DEFINE Good(k, g) == /\ g \in [SUBSET (1..k) -> X]
                         /\ g[{}] = b
                         /\ \A t \in SUBSET (1..k) : t # {} => g[t] = R[<<g[t \ {Max(t)}], Max(t)>>]
           T == {k \in Nat : k <= n => \E g : Good(k, g)}
<1>1. 0 \in T
  <2> DEFINE g == [t \in SUBSET (1..0) |-> b]
  <2>1. 1..0 = {}
    OBVIOUS
  <2>2. SUBSET (1..0) = {{}}
    BY <2>1
  <2>3. g \in [SUBSET (1..0) -> X] /\ g[{}] = b
    BY <2>2
  <2>4. \A t \in SUBSET (1..0) : t = {}
    BY <2>2
  <2> HIDE DEF g
  <2>5. Good(0, g)
    BY <2>3, <2>4
  <2>6. \E h : Good(0, h)
    BY <2>5
  <2> HIDE DEF Good
  <2>7. QED
    BY <2>6
<1>2. ASSUME NEW k \in Nat, k \in T
      PROVE  k + 1 \in T
  <2>1. SUFFICES ASSUME k + 1 <= n
                 PROVE  \E g : Good(k + 1, g)
    <3> HIDE DEF Good
    <3>1. QED
      OBVIOUS
  <2>2. PICK g : Good(k, g)
    <3> HIDE DEF Good
    <3>1. QED
      BY <1>2, <2>1
  <2> DEFINE h == [t \in SUBSET (1..(k + 1)) |->
                     IF k + 1 \in t THEN R[<<g[t \ {k + 1}], k + 1>>] ELSE g[t]]
  <2>3. \A t \in SUBSET (1..(k + 1)) : t \ {k + 1} \in SUBSET (1..k)
    OBVIOUS
  <2>4. \A t \in SUBSET (1..(k + 1)) : k + 1 \notin t => t \in SUBSET (1..k)
    OBVIOUS
  <2>5. k + 1 \in 1..n
    BY <2>1
  <2>6. \A t \in SUBSET (1..(k + 1)) : h[t] \in X
    BY <2>2, <2>3, <2>4, <2>5
  <2>7. h[{}] = b
    BY <2>2
  <2>8. ASSUME NEW t \in SUBSET (1..(k + 1)), t # {}
        PROVE  h[t] = R[<<h[t \ {Max(t)}], Max(t)>>]
    <3>1. CASE k + 1 \in t
      <4>1. Max(t) = k + 1
        <5>1. Max(t) \in t /\ Max(t) \in 1..(k + 1) /\ t \ {Max(t)} \in SUBSET (1..(Max(t) - 1))
          BY <2>8, GreatestIndex
        <5>2. Max(t) # k + 1 => k + 1 \in 1..(Max(t) - 1)
          BY <3>1, <5>1
        <5>3. QED
          BY <5>1, <5>2
      <4>2. h[t] = R[<<g[t \ {k + 1}], k + 1>>]
        BY <3>1
      <4>3. t \ {k + 1} \in SUBSET (1..(k + 1)) /\ k + 1 \notin t \ {k + 1}
        OBVIOUS
      <4>4. h[t \ {k + 1}] = g[t \ {k + 1}]
        BY <4>3
      <4>5. QED
        BY <4>1, <4>2, <4>4
    <3>2. CASE k + 1 \notin t
      <4>1. t \in SUBSET (1..k)
        BY <2>4, <3>2
      <4>2. g[t] = R[<<g[t \ {Max(t)}], Max(t)>>]
        BY <2>2, <2>8, <4>1
      <4>3. t \ {Max(t)} \in SUBSET (1..(k + 1)) /\ k + 1 \notin t \ {Max(t)}
        BY <3>2
      <4>4. h[t] = g[t] /\ h[t \ {Max(t)}] = g[t \ {Max(t)}]
        BY <3>2, <4>3
      <4>5. QED
        BY <4>2, <4>4
    <3>3. QED
      BY <3>1, <3>2
  <2>9. h \in [SUBSET (1..(k + 1)) -> X]
    BY <2>6
  <2> HIDE DEF h
  <2>10. QED
    BY <2>7, <2>8, <2>9
<1>3. n \in T
  <2> HIDE DEF T
  <2>1. QED
    BY <1>1, <1>2, NatInSet
<1>4. PICK g : Good(n, g)
  <2> HIDE DEF Good
  <2>1. QED
    BY <1>3
<1>5. QED
  BY <1>4 DEF IsFold

\* What is folded by a step that stays in X is in X.
LEMMA FoldStays ==
    ASSUME NEW n \in Nat, NEW X, NEW g, g[{}] \in X,
           \A t \in SUBSET (1..n) : t # {} /\ g[t \ {Max(t)}] \in X => g[t] \in X
    PROVE  g[1..n] \in X
<1> DEFINE T == {k \in Nat : k <= n => \A t \in SUBSET (1..k) : g[t] \in X}
<1>1. 0 \in T
  <2>1. SUBSET (1..0) = {{}}
    OBVIOUS
  <2>2. QED
    BY <2>1
<1>2. ASSUME NEW k \in Nat, k \in T
      PROVE  k + 1 \in T
  <2>1. SUFFICES ASSUME k + 1 <= n, NEW t \in SUBSET (1..(k + 1))
                 PROVE  g[t] \in X
    OBVIOUS
  <2>2. \A u \in SUBSET (1..k) : g[u] \in X
    BY <1>2, <2>1
  <2>3. CASE t = {}
    BY <2>3
  <2>4. CASE t # {}
    <3>1. t \in SUBSET (1..n)
      BY <2>1
    <3>2. Max(t) \in 1..(k + 1) /\ t \ {Max(t)} \in SUBSET (1..(Max(t) - 1))
      BY <2>4, GreatestIndex
    <3>3. t \ {Max(t)} \in SUBSET (1..k)
      BY <3>2
    <3>4. QED
      BY <2>2, <2>4, <3>1, <3>3
  <2>5. QED
    BY <2>3, <2>4
<1>3. n \in T
  <2> HIDE DEF T
  <2>1. QED
    BY <1>1, <1>2, NatInSet
<1>4. QED
  BY <1>3

-----------------------------------------------------------------------------
(***************************************************************************)
(* Sorting and selecting.                                                  *)
(***************************************************************************)

\* A finite set of naturals is sorted into a sequence of its elements, each once.
LEMMA SortedOK ==
    ASSUME NEW S, S \subseteq Nat, IsFiniteSet(S)
    PROVE  /\ Cardinality(S) \in Nat
           /\ Sorted(S) \in [1..Cardinality(S) -> S]
           /\ \A i, j \in 1..Cardinality(S) : Sorted(S)[i] = Sorted(S)[j] => i = j
<1> DEFINE Upto(x) == {y \in S : y <= x}
           n == Cardinality(S)
<1>1. n \in Nat
  BY FS_CardinalityType
<1>2. ASSUME NEW x \in S
      PROVE  /\ IsFiniteSet(Upto(x)) /\ Cardinality(Upto(x)) \in Nat
             /\ IsFiniteSet(Upto(x) \ {x}) /\ Cardinality(Upto(x)) = Cardinality(Upto(x) \ {x}) + 1
  <2>1. Upto(x) \in SUBSET S /\ x \in Upto(x)
    OBVIOUS
  <2> HIDE DEF Upto
  <2>2. IsFiniteSet(Upto(x))
    BY <2>1, FS_Subset
  <2>3. IsFiniteSet(Upto(x) \ {x}) /\ Cardinality(Upto(x) \ {x}) = Cardinality(Upto(x)) - 1
    BY <2>1, <2>2, FS_RemoveElement
  <2>4. Cardinality(Upto(x)) \in Nat /\ Cardinality(Upto(x) \ {x}) \in Nat
    BY <2>2, <2>3, FS_CardinalityType
  <2>5. QED
    BY <2>2, <2>3, <2>4
<1>3. ASSUME NEW T \in SUBSET S, T # {}
      PROVE  Max(T) \in T /\ \A y \in T : y <= Max(T)
  <2>1. IsFiniteSet(T)
    BY <1>3, FS_Subset
  <2>2. PICK m \in T : \A y \in T : y <= m
    <3> DEFINE Bounds == {b \in Nat : \A y \in T : y <= b}
    <3>1. \E b \in Nat : \A y \in T : y <= b
      <4> DEFINE Sizes == {k \in Nat : \A U \in SUBSET T : IsFiniteSet(U) /\ Cardinality(U) = k
                                             => \E b \in Nat : \A y \in U : y <= b}
      <4>1. 0 \in Sizes
        <5>1. ASSUME NEW U \in SUBSET T, IsFiniteSet(U), Cardinality(U) = 0
              PROVE  \A y \in U : y <= 0
          BY <5>1, FS_EmptySet
        <5>2. QED
          BY <5>1
      <4>2. ASSUME NEW k \in Nat, k \in Sizes
            PROVE  k + 1 \in Sizes
        <5>1. SUFFICES ASSUME NEW U \in SUBSET T, IsFiniteSet(U), Cardinality(U) = k + 1
                       PROVE  \E b \in Nat : \A y \in U : y <= b
          OBVIOUS
        <5>2. PICK z : z \in U
          BY <5>1, FS_EmptySet
        <5>3. IsFiniteSet(U \ {z}) /\ Cardinality(U \ {z}) = k
          <6>1. IsFiniteSet(U \ {z}) /\ Cardinality(U \ {z}) = Cardinality(U) - 1
            BY <5>1, <5>2, FS_RemoveElement
          <6>2. QED
            BY <5>1, <6>1
        <5>4. PICK b \in Nat : \A y \in U \ {z} : y <= b
          BY <4>2, <5>3
        <5>5. z \in Nat /\ U \subseteq Nat
          BY <5>2
        <5>6. \A y \in U : y <= b + z
          BY <5>4, <5>5
        <5>7. QED
          BY <5>5, <5>6
      <4>3. Cardinality(T) \in Sizes
        <5>1. Cardinality(T) \in Nat
          BY <2>1, FS_CardinalityType
        <5> HIDE DEF Sizes
        <5>2. QED
          BY <4>1, <4>2, <5>1, NatInSet
      <4>4. QED
        BY <2>1, <4>3
    <3>2. PICK b \in Nat : \A y \in T : y <= b
      BY <3>1
    <3>3. Max(T) \in T /\ \A y \in T : y <= Max(T)
      <4>1. T \subseteq Int /\ b \in Int
        OBVIOUS
      <4>2. QED
        BY <1>3, <3>2, <4>1, MaxOfBounded
    <3>4. QED
      BY <3>3
  <2>3. T \subseteq Int
    OBVIOUS
  <2>4. QED
    BY <1>3, <2>2, <2>3, MaxOfBounded
<1>4. ASSUME NEW j \in 1..n
      PROVE  \E x \in S : Cardinality(Upto(x)) = j
  <2> DEFINE T == {x \in S : Cardinality(Upto(x)) >= j}
  <2>1. S # {}
    BY <1>1, FS_EmptySet
  <2>2. Max(S) \in T
    <3>1. Max(S) \in S /\ \A y \in S : y <= Max(S)
      BY <1>3, <2>1
    <3>2. Upto(Max(S)) = S
      BY <3>1
    <3>3. QED
      BY <3>1, <3>2
  <2>3. PICK m \in T : \A y \in T : m <= y
    <3>1. T \subseteq Nat /\ T # {}
      BY <2>2
    <3> HIDE DEF T
    <3>2. QED
      BY <3>1, NatLeast
  <2>4. SUFFICES ASSUME Cardinality(Upto(m)) # j
                 PROVE  FALSE
    BY <2>3
  <2> DEFINE B == Upto(m) \ {m}
  <2>5. IsFiniteSet(B) /\ Cardinality(B) \in Nat /\ Cardinality(B) >= j
    <3>1. Cardinality(Upto(m)) \in Nat /\ Cardinality(Upto(m)) >= j
      BY <1>2, <2>3
    <3>2. IsFiniteSet(B) /\ Cardinality(Upto(m)) = Cardinality(B) + 1
      BY <1>2, <2>3
    <3>3. Cardinality(B) \in Nat
      BY <3>2, FS_CardinalityType
    <3> HIDE DEF B, Upto
    <3>4. QED
      BY <2>4, <3>1, <3>2, <3>3
  <2>6. B # {} /\ B \in SUBSET S
    BY <2>5, FS_EmptySet
  <2>7. Max(B) \in B /\ \A y \in B : y <= Max(B)
    <3> HIDE DEF B
    <3>1. QED
      BY <1>3, <2>6
  <2>8. PICK p : p = Max(B)
    OBVIOUS
  <2>9. p \in S /\ p < m /\ p \in Nat /\ m \in Nat
    <3>1. p \in S /\ p # m /\ p <= m
      <4> HIDE DEF Max
      <4>1. QED
        BY <2>7, <2>8
    <3>2. p \in Nat /\ m \in Nat
      BY <2>3, <3>1
    <3>3. QED
      BY <3>1, <3>2
  <2>10. Upto(p) = B
    <3>1. p \in B /\ \A y \in B : y <= p
      <4> HIDE DEF B
      <4>1. QED
        BY <2>7, <2>8
    <3>2. \A y \in S : y \in Nat /\ (y \in B <=> y <= m /\ y # m)
      OBVIOUS
    <3>3. \A y \in S : y <= p <=> y \in B
      <4> HIDE DEF B
      <4>1. \A y \in S : y <= p => y <= m /\ y # m
        BY <2>9, <3>2
      <4>2. QED
        BY <3>1, <3>2, <4>1
    <3>4. QED
      BY <3>3
  <2>11. p \in T
    <3> HIDE DEF B, Upto
    <3>1. QED
      BY <2>5, <2>9, <2>10
  <2>12. QED
    BY <2>3, <2>9, <2>11
<1>5. DOMAIN Sorted(S) = 1..n /\ \A j \in 1..n : Sorted(S)[j] = CHOOSE x \in S : Cardinality(Upto(x)) = j
  BY DEF Sorted
<1>6. \A j \in 1..n : Sorted(S)[j] \in S /\ Cardinality(Upto(Sorted(S)[j])) = j
  <2>1. TAKE j \in 1..n
  <2>2. \E x \in S : Cardinality(Upto(x)) = j
    BY <1>4
  <2>3. PICK z : z = CHOOSE x \in S : Cardinality(Upto(x)) = j
    OBVIOUS
  <2>4. z \in S /\ Cardinality(Upto(z)) = j
    <3> HIDE DEF Upto
    <3>1. QED
      BY <2>2, <2>3, Zenon
  <2>5. QED
    BY <1>5, <2>3, <2>4
<1>7. Sorted(S) \in [1..n -> S]
  <2>1. Sorted(S) = [j \in 1..n |-> Sorted(S)[j]]
    BY DEF Sorted
  <2>2. QED
    BY <1>6, <2>1
<1>8. QED
  <2> HIDE DEF Upto
  <2>1. \A i, j \in 1..n : Sorted(S)[i] = Sorted(S)[j] => i = j
    BY <1>6
  <2>2. QED
    BY <1>1, <1>7, <2>1

\* What is selected of a sequence is a sequence of some of its elements, none of them
\* taken twice.
LEMMA SelectedOK ==
    ASSUME NEW Y, NEW seq \in Seq(Y), NEW A
    PROVE  /\ Selected(seq, A) \in Seq(Y)
           /\ \A j \in DOMAIN Selected(seq, A) :
                 Selected(seq, A)[j] \in A /\ \E i \in DOMAIN seq : Selected(seq, A)[j] = seq[i]
           /\ (\A i, j \in DOMAIN seq : Id(seq[i].node) = Id(seq[j].node) => i = j)
                 => \A i, j \in DOMAIN Selected(seq, A) :
                      Id(Selected(seq, A)[i].node) = Id(Selected(seq, A)[j].node) => i = j
<1> DEFINE I == {i \in DOMAIN seq : seq[i] \in A}
           order == Sorted(I)
           n == Cardinality(I)
<1>1. Len(seq) \in Nat /\ DOMAIN seq = 1..Len(seq) /\ \A i \in DOMAIN seq : seq[i] \in Y
  OBVIOUS
<1>2. I \subseteq Nat /\ IsFiniteSet(I)
  <2>1. I \in SUBSET (1..Len(seq))
    BY <1>1
  <2>2. IsFiniteSet(1..Len(seq))
    BY <1>1, FS_Interval
  <2> HIDE DEF I
  <2>3. IsFiniteSet(I)
    BY <2>1, <2>2, FS_Subset
  <2>4. QED
    BY <2>1, <2>3
<1>3. /\ n \in Nat /\ order \in [1..n -> I]
      /\ \A i, j \in 1..n : order[i] = order[j] => i = j
  <2> HIDE DEF I
  <2>1. QED
    BY <1>2, SortedOK
<1>4. Selected(seq, A) = [j \in 1..n |-> seq[order[j]]]
  <2>1. Selected(seq, A) = [j \in DOMAIN order |-> seq[order[j]]]
    BY DEF Selected
  <2>2. DOMAIN order = 1..n
    BY <1>3
  <2>3. QED
    BY <2>1, <2>2
<1>5. \A j \in 1..n : order[j] \in DOMAIN seq /\ seq[order[j]] \in A
  BY <1>3
<1> HIDE DEF I, order, n
<1>6. DOMAIN Selected(seq, A) = 1..n /\ \A j \in 1..n : Selected(seq, A)[j] = seq[order[j]]
  BY <1>4
<1>7. Selected(seq, A) \in Seq(Y)
  BY <1>1, <1>3, <1>4, <1>5
<1>8. QED
  BY <1>3, <1>5, <1>6, <1>7

-----------------------------------------------------------------------------
(***************************************************************************)
(* Types.  H is a set of instances: those that were started.               *)
(***************************************************************************)

\* The instances that were started, and number 0 for whoever has the id.
Started == {x \in Voters \X Nat : Inst(x) <= instance[Id(x)]}

SeqNumbers == {k \in Int : k >= -1}

ReplicaType(H) == [node: H, down: BOOLEAN, seq: SeqNumbers]

\* A replica set names a voter once.
ReplicaSets(H) ==
    {rs \in Seq(ReplicaType(H)) : \A i, j \in DOMAIN rs : Id(rs[i].node) = Id(rs[j].node) => i = j}

Infos == [inst: Nat, down: BOOLEAN, acked: BOOLEAN, intro: BOOLEAN]

\* What a store knows of the voters: of each an instance that was started, or nothing.
VoterSets(H) ==
    {f \in [Voters -> Infos \cup {NoVoter}] : \A v \in Voters : f[v] # NoVoter => <<v, f[v].inst>> \in H}

LeaderInstances == {0} \cup Ticks

Queued == [check: Int, value: Nat]

Entries == [seq: Nat, cur: Nat, pseq: Nat, pend: Nat, queue: Seq(Queued)]

DoneWrites(H) == [key: Keys, value: Nat, holders: SUBSET H]

Assertions == {"WriteRejected", "NotInConfiguration", "SyncGap"}

Stores(H) ==
    [phase: Phases, leader: H, leaderInst: LeaderInstances, gen: Nat, epoch: Nat,
     replicas: ReplicaSets(H), highest: Nat, confSeq: Nat, bootWait: BOOLEAN, globalTime: BOOLEAN,
     voters: VoterSets(H), entries: [Keys -> Entries], done: SUBSET DoneWrites(H),
     asserts: SUBSET Assertions, alone: BOOLEAN]

\* A configuration names a voter once too.
Configurations(H) ==
    {c \in [gen: Nat, epoch: Nat, replicas: Seq(H)] :
       \A i, j \in DOMAIN c.replicas : Id(c.replicas[i]) = Id(c.replicas[j]) => i = j}

Sent == [key: Keys, seq: Nat, value: Nat]

-----------------------------------------------------------------------------
(***************************************************************************)
(* The replica set and what a store knows of the voters.                   *)
(***************************************************************************)

\* An instance is its id and its number.
LEMMA InstanceParts ==
    ASSUME NEW H, H \subseteq Voters \X Nat, NEW x \in H
    PROVE  Id(x) \in Voters /\ Inst(x) \in Nat /\ x = <<Id(x), Inst(x)>>
BY DEF Id, Inst

\* The sequence of one replica changes.
LEMMA SequenceSet ==
    ASSUME NEW H, NEW rs \in ReplicaSets(H), NEW i, NEW q \in SeqNumbers
    PROVE  [rs EXCEPT ![i].seq = q] \in ReplicaSets(H)
<1> DEFINE t == [rs EXCEPT ![i].seq = q]
<1>1. /\ Len(rs) \in Nat /\ DOMAIN rs = 1..Len(rs) /\ \A j \in DOMAIN rs : rs[j] \in ReplicaType(H)
      /\ \A j, k \in DOMAIN rs : Id(rs[j].node) = Id(rs[k].node) => j = k
  BY DEF ReplicaSets
<1>2. DOMAIN t = DOMAIN rs /\ t = [j \in 1..Len(rs) |-> t[j]]
  BY <1>1
<1>3. \A j \in DOMAIN rs : t[j] \in ReplicaType(H) /\ t[j].node = rs[j].node
  BY <1>1 DEF ReplicaType
<1> HIDE DEF t
<1>4. t \in Seq(ReplicaType(H))
  BY <1>1, <1>2, <1>3
<1>5. \A j, k \in DOMAIN t : Id(t[j].node) = Id(t[k].node) => j = k
  BY <1>1, <1>2, <1>3
<1>6. QED
  BY <1>4, <1>5 DEF ReplicaSets, t

\* Some replicas turn out to be down.
LEMMA DownSet ==
    ASSUME NEW H, NEW rs \in ReplicaSets(H), NEW t, t = [i \in DOMAIN rs |-> t[i]],
           \A i \in DOMAIN rs : \E b \in BOOLEAN : t[i] = MarkDown(rs[i], b)
    PROVE  t \in ReplicaSets(H)
<1>1. /\ Len(rs) \in Nat /\ DOMAIN rs = 1..Len(rs) /\ \A j \in DOMAIN rs : rs[j] \in ReplicaType(H)
      /\ \A j, k \in DOMAIN rs : Id(rs[j].node) = Id(rs[k].node) => j = k
  BY DEF ReplicaSets
<1>2. ASSUME NEW j \in DOMAIN rs
      PROVE  t[j] \in ReplicaType(H) /\ t[j].node = rs[j].node
  <2>1. PICK b \in BOOLEAN : t[j] = MarkDown(rs[j], b)
    OBVIOUS
  <2>2. rs[j].down \/ b \in BOOLEAN
    BY <1>1 DEF ReplicaType
  <2>3. QED
    BY <1>1, <2>1, <2>2 DEF ReplicaType, MarkDown
<1>3. t \in Seq(ReplicaType(H)) /\ DOMAIN t = DOMAIN rs
  BY <1>1, <1>2
<1>4. QED
  BY <1>1, <1>2, <1>3 DEF ReplicaSets

\* Some voters turn out to be down.
LEMMA DownInfos ==
    ASSUME NEW H, NEW f \in VoterSets(H), NEW t, t = [v \in Voters |-> t[v]],
           \A v \in Voters : \E b \in BOOLEAN : t[v] = MarkDown(f[v], b) /\ (b => f[v] # NoVoter)
    PROVE  t \in VoterSets(H)
<1>1. /\ \A v \in Voters : f[v] \in Infos \cup {NoVoter}
      /\ \A v \in Voters : f[v] # NoVoter => <<v, f[v].inst>> \in H
  BY DEF VoterSets
<1>2. ASSUME NEW v \in Voters
      PROVE  t[v] \in Infos \cup {NoVoter} /\ (t[v] # NoVoter => <<v, t[v].inst>> \in H)
  <2>1. PICK b \in BOOLEAN : t[v] = MarkDown(f[v], b) /\ (b => f[v] # NoVoter)
    OBVIOUS
  <2>2. CASE f[v] = NoVoter
    <3>1. ~(f[v].down \/ b)
      BY <2>1, <2>2 DEF NoVoter
    <3>2. t[v] = NoVoter
      BY <2>1, <2>2, <3>1 DEF NoVoter, MarkDown
    <3>3. QED
      BY <3>2
  <2>3. CASE f[v] # NoVoter
    <3>1. f[v].down \/ b \in BOOLEAN
      BY <1>1, <2>3 DEF Infos
    <3>2. t[v] \in Infos /\ t[v].inst = f[v].inst
      BY <1>1, <2>1, <2>3, <3>1 DEF Infos, MarkDown
    <3>3. QED
      BY <1>1, <2>3, <3>2
  <2>4. QED
    BY <2>2, <2>3
<1>3. QED
  BY <1>2 DEF VoterSets

\* UpdateDownVoters.
LEMMA UpdateDownVotersOK ==
    ASSUME NEW H, NEW n \in Voters, Self(n) \in H, NEW s \in Stores(H), NEW X
    PROVE  UpdateDownVoters(n, s, X) \in Stores(H)
<1> DEFINE Hits(x) == \E d \in X : Id(d) = Id(x) /\ Inst(x) <= Inst(d)
           rs == [i \in DOMAIN s.replicas |-> MarkDown(s.replicas[i], Hits(s.replicas[i].node))]
           vs == [v \in Voters |-> MarkDown(s.voters[v], IsVoter(s, v) /\ Hits(<<v, s.voters[v].inst>>))]
           leader == IF Hits(s.leader) THEN Self(n) ELSE s.leader
<1>1. s.replicas \in ReplicaSets(H) /\ s.voters \in VoterSets(H) /\ s.leader \in H
  BY DEF Stores
<1>2. UpdateDownVoters(n, s, X) = [s EXCEPT !.replicas = rs, !.voters = vs, !.leader = leader]
  BY DEF UpdateDownVoters
<1>3. rs \in ReplicaSets(H)
  <2>1. \A i \in DOMAIN s.replicas : \E b \in BOOLEAN : rs[i] = MarkDown(s.replicas[i], b)
    <3>1. TAKE i \in DOMAIN s.replicas
    <3>2. Hits(s.replicas[i].node) \in BOOLEAN /\ rs[i] = MarkDown(s.replicas[i], Hits(s.replicas[i].node))
      OBVIOUS
    <3> HIDE DEF Hits, rs
    <3>3. QED
      BY <3>2
  <2>2. rs = [i \in DOMAIN s.replicas |-> rs[i]]
    OBVIOUS
  <2> HIDE DEF rs
  <2>3. QED
    BY <1>1, <2>1, <2>2, DownSet
<1>4. vs \in VoterSets(H)
  <2>1. \A v \in Voters : \E b \in BOOLEAN : vs[v] = MarkDown(s.voters[v], b) /\ (b => s.voters[v] # NoVoter)
    <3>1. TAKE v \in Voters
    <3> DEFINE b == IsVoter(s, v) /\ Hits(<<v, s.voters[v].inst>>)
    <3>2. b \in BOOLEAN /\ vs[v] = MarkDown(s.voters[v], b) /\ (b => s.voters[v] # NoVoter)
      BY DEF IsVoter
    <3> HIDE DEF b, vs
    <3>3. QED
      BY <3>2
  <2>2. vs = [v \in Voters |-> vs[v]]
    OBVIOUS
  <2> HIDE DEF vs
  <2>3. QED
    BY <1>1, <2>1, <2>2, DownInfos
<1>5. leader \in H
  BY <1>1
<1> HIDE DEF rs, vs, leader
<1>6. QED
  BY <1>2, <1>3, <1>4, <1>5 DEF Stores

\* UpdateVoterInstances.
LEMMA UpdateVoterInstancesOK ==
    ASSUME NEW H, H \subseteq Voters \X Nat, NEW n \in Voters, Self(n) \in H,
           NEW s \in Stores(H), NEW X \in SUBSET H, NEW addNew \in BOOLEAN
    PROVE  UpdateVoterInstances(n, s, X, addNew) \in Stores(H)
<1> DEFINE Newer(x) == \E y \in X : Id(y) = Id(x) /\ Inst(y) > Inst(x)
           Named(v) == CHOOSE y \in X : Id(y) = v
           Of(v) == IF ~ \E y \in X : Id(y) = v THEN s.voters[v]
                    ELSE IF IsVoter(s, v)
                    THEN IF Newer(<<v, s.voters[v].inst>>) THEN VoterInfo(Inst(Named(v))) ELSE s.voters[v]
                    ELSE IF addNew /\ Named(v) # Self(n) THEN VoterInfo(Inst(Named(v))) ELSE NoVoter
           vs == [v \in Voters |-> Of(v)]
           leader == IF Newer(s.leader) THEN Self(n) ELSE s.leader
           rs == [i \in DOMAIN s.replicas |-> MarkDown(s.replicas[i], Newer(s.replicas[i].node))]
<1>1. s.replicas \in ReplicaSets(H) /\ s.voters \in VoterSets(H) /\ s.leader \in H
  BY DEF Stores
<1>2. UpdateVoterInstances(n, s, X, addNew)
        = [s EXCEPT !.voters = vs, !.leader = leader, !.replicas = rs]
  BY DEF UpdateVoterInstances
<1>3. rs \in ReplicaSets(H)
  <2>1. \A i \in DOMAIN s.replicas : \E b \in BOOLEAN : rs[i] = MarkDown(s.replicas[i], b)
    <3>1. TAKE i \in DOMAIN s.replicas
    <3>2. /\ Newer(s.replicas[i].node) \in BOOLEAN
          /\ rs[i] = MarkDown(s.replicas[i], Newer(s.replicas[i].node))
      OBVIOUS
    <3> HIDE DEF Newer, rs
    <3>3. QED
      BY <3>2
  <2>2. rs = [i \in DOMAIN s.replicas |-> rs[i]]
    OBVIOUS
  <2> HIDE DEF rs
  <2>3. QED
    BY <1>1, <2>1, <2>2, DownSet
<1>4. ASSUME NEW v \in Voters
      PROVE  Of(v) \in Infos \cup {NoVoter} /\ (Of(v) # NoVoter => <<v, Of(v).inst>> \in H)
  <2>1. s.voters[v] \in Infos \cup {NoVoter} /\ (s.voters[v] # NoVoter => <<v, s.voters[v].inst>> \in H)
    BY <1>1 DEF VoterSets
  <2>2. ASSUME \E y \in X : Id(y) = v
        PROVE  LET w == VoterInfo(Inst(Named(v))) IN w \in Infos /\ <<v, w.inst>> \in H
    <3>1. Named(v) \in X /\ Id(Named(v)) = v
      BY <2>2, Zenon
    <3>2. PICK y : y = Named(v)
      OBVIOUS
    <3>3. Inst(y) \in Nat /\ y = <<v, Inst(y)>> /\ y \in H
      BY <3>1, <3>2, InstanceParts
    <3>4. VoterInfo(Inst(y)) \in Infos /\ VoterInfo(Inst(y)).inst = Inst(y)
      BY <3>3 DEF VoterInfo, Infos
    <3> HIDE DEF Named
    <3>5. QED
      BY <3>2, <3>3, <3>4
  <2>3. Of(v) \in {s.voters[v], NoVoter} \/ ((\E y \in X : Id(y) = v) /\ Of(v) = VoterInfo(Inst(Named(v))))
    <3> HIDE DEF Named, Newer
    <3>1. QED
      OBVIOUS
  <2> HIDE DEF Of, Named
  <2>4. QED
    BY <2>1, <2>2, <2>3
<1>5. vs \in VoterSets(H)
  <2>1. vs = [v \in Voters |-> vs[v]] /\ \A v \in Voters : vs[v] = Of(v)
    OBVIOUS
  <2> HIDE DEF vs, Of
  <2>2. QED
    BY <1>4, <2>1 DEF VoterSets
<1>6. leader \in H
  BY <1>1
<1> HIDE DEF rs, vs, leader
<1>7. QED
  BY <1>2, <1>3, <1>5, <1>6 DEF Stores

\* AdoptConfiguration.
LEMMA AdoptConfigurationOK ==
    ASSUME NEW H, NEW s \in Stores(H), NEW c \in Configurations(H)
    PROVE  AdoptConfiguration(s, c) \in Stores(H)
<1> DEFINE older == c.gen = s.gen /\ c.epoch <= s.epoch
           new == IF older THEN s.replicas ELSE [i \in DOMAIN c.replicas |-> Replica(c.replicas[i])]
           epoch == IF older THEN s.epoch ELSE c.epoch
           rs == [i \in DOMAIN new |-> MarkDown(new[i], IsVoterDown(s, new[i].node))]
           t == [s EXCEPT !.gen = c.gen, !.epoch = epoch, !.replicas = rs]
<1>1. s.replicas \in ReplicaSets(H) /\ s.gen \in Nat /\ s.epoch \in Nat
  BY DEF Stores
<1>2. AdoptConfiguration(s, c) \in {s, t}
  BY DEF AdoptConfiguration
<1>3. /\ c.gen \in Nat /\ c.epoch \in Nat
      /\ Len(c.replicas) \in Nat /\ DOMAIN c.replicas = 1..Len(c.replicas)
      /\ \A i \in DOMAIN c.replicas : c.replicas[i] \in H
      /\ \A i, j \in DOMAIN c.replicas : Id(c.replicas[i]) = Id(c.replicas[j]) => i = j
  BY DEF Configurations
<1>4. new \in ReplicaSets(H)
  <2> DEFINE from == [i \in DOMAIN c.replicas |-> Replica(c.replicas[i])]
  <2>1. \A i \in DOMAIN c.replicas : from[i] \in ReplicaType(H) /\ from[i].node = c.replicas[i]
    BY <1>3 DEF Replica, ReplicaType, SeqNumbers
  <2>2. DOMAIN from = 1..Len(c.replicas) /\ from = [i \in 1..Len(c.replicas) |-> from[i]]
    BY <1>3
  <2> HIDE DEF from
  <2>3. from \in Seq(ReplicaType(H))
    BY <1>3, <2>1, <2>2
  <2>4. \A i, j \in DOMAIN from : Id(from[i].node) = Id(from[j].node) => i = j
    BY <1>3, <2>1, <2>2
  <2>5. from \in ReplicaSets(H)
    BY <2>3, <2>4 DEF ReplicaSets
  <2>6. new \in {s.replicas, from}
    BY DEF from
  <2> HIDE DEF new
  <2>7. QED
    BY <1>1, <2>5, <2>6
<1> HIDE DEF new
<1>5. rs \in ReplicaSets(H)
  <2>1. \A i \in DOMAIN new : \E b \in BOOLEAN : rs[i] = MarkDown(new[i], b)
    <3>1. TAKE i \in DOMAIN new
    <3>2. IsVoterDown(s, new[i].node) \in BOOLEAN /\ rs[i] = MarkDown(new[i], IsVoterDown(s, new[i].node))
      BY DEF IsVoterDown
    <3> HIDE DEF rs
    <3>3. QED
      BY <3>2
  <2>2. rs = [i \in DOMAIN new |-> rs[i]]
    OBVIOUS
  <2> HIDE DEF rs
  <2>3. QED
    BY <1>4, <2>1, <2>2, DownSet
<1>6. epoch \in Nat
  BY <1>1, <1>3
<1> HIDE DEF rs, epoch
<1>7. t \in Stores(H)
  BY <1>3, <1>5, <1>6 DEF Stores
<1> HIDE DEF t
<1>8. QED
  BY <1>2, <1>7

\* UpdateReplicaSet.
LEMMA UpdateReplicaSetOK ==
    ASSUME NEW H, H \subseteq Voters \X Nat, NEW n \in Voters, Self(n) \in H,
           NEW s \in Stores(H), NEW c \in Configurations(H)
    PROVE  UpdateReplicaSet(n, s, c) \in Stores(H)
<1>1. ToSet(c.replicas) \in SUBSET H
  BY DEF ToSet, Configurations
<1>2. UpdateVoterInstances(n, s, ToSet(c.replicas), TRUE) \in Stores(H)
  <2>1. \A addNew \in BOOLEAN : UpdateVoterInstances(n, s, ToSet(c.replicas), addNew) \in Stores(H)
    BY <1>1, UpdateVoterInstancesOK
  <2>2. QED
    BY <2>1, Zenon
<1>3. QED
  BY <1>2, AdoptConfigurationOK, Zenon DEF UpdateReplicaSet

\* The answer, or the introduction, of a voter is noted.
LEMMA NotedOK ==
    ASSUME NEW H, NEW s \in Stores(H), NEW v \in Voters, s.voters[v] # NoVoter, NEW b \in BOOLEAN
    PROVE  [s EXCEPT !.voters[v].acked = b] \in Stores(H) /\ [s EXCEPT !.voters[v].intro = b] \in Stores(H)
<1> DEFINE f == [s.voters EXCEPT ![v].acked = b]
           g == [s.voters EXCEPT ![v].intro = b]
<1>1. s.voters \in VoterSets(H)
  BY DEF Stores
<1>2. f \in VoterSets(H) /\ g \in VoterSets(H)
  BY <1>1 DEF VoterSets, Infos
<1>3. [s EXCEPT !.voters = f] \in Stores(H) /\ [s EXCEPT !.voters = g] \in Stores(H)
  <2> HIDE DEF f, g
  <2>1. QED
    BY <1>2 DEF Stores
<1>4. QED
  BY <1>3

\* What is no voter has not answered.
LEMMA NoVoterSilent == [NoVoter EXCEPT !.acked = FALSE] = NoVoter
<1>1. ASSUME NEW b, b = NoVoter.acked
      PROVE  [NoVoter EXCEPT !.acked = b] = NoVoter
  BY <1>1 DEF NoVoter
<1>2. FALSE = NoVoter.acked
  BY DEF NoVoter
<1>3. QED
  BY <1>1, <1>2, Zenon

\* No answer of a voter.
LEMMA ForgottenOK ==
    ASSUME NEW H, NEW s \in Stores(H), NEW v \in Voters
    PROVE  [s EXCEPT !.voters[v].acked = FALSE] \in Stores(H)
<1>1. CASE s.voters[v] # NoVoter
  <2>1. \A b \in BOOLEAN : [s EXCEPT !.voters[v].acked = b] \in Stores(H)
    BY <1>1, NotedOK
  <2>2. QED
    BY <2>1, Zenon
<1>2. CASE s.voters[v] = NoVoter
  <2> DEFINE f == [s.voters EXCEPT ![v].acked = FALSE]
  <2>1. s.voters \in VoterSets(H)
    BY DEF Stores
  <2>2. [NoVoter EXCEPT !.acked = FALSE] = NoVoter
    BY NoVoterSilent
  <2>3. [s.voters EXCEPT ![v] = NoVoter] = s.voters
    BY <1>2, <2>1 DEF VoterSets
  <2>4. f = s.voters
    BY <1>2, <2>2, <2>3
  <2>5. [s EXCEPT !.voters = s.voters] = s
    BY DEF Stores
  <2>6. QED
    BY <2>4, <2>5
<1>3. QED
  BY <1>1, <1>2

\* ResetVoterInfo.
LEMMA ResetVoterInfoOK ==
    ASSUME NEW H, NEW s \in Stores(H)
    PROVE  ResetVoterInfo(s) \in Stores(H)
<1> DEFINE f == [v \in Voters |-> [s.voters[v] EXCEPT !.acked = FALSE]]
<1>1. s.voters \in VoterSets(H)
  BY DEF Stores
<1>2. \A v \in Voters : f[v] \in Infos \cup {NoVoter} /\ (f[v] # NoVoter => <<v, f[v].inst>> \in H)
  <2>1. TAKE v \in Voters
  <2>2. s.voters[v] \in Infos \cup {NoVoter} /\ (s.voters[v] # NoVoter => <<v, s.voters[v].inst>> \in H)
    BY <1>1 DEF VoterSets
  <2>3. CASE s.voters[v] = NoVoter
    <3>1. [NoVoter EXCEPT !.acked = FALSE] = NoVoter
      BY NoVoterSilent
    <3>2. f[v] = NoVoter
      BY <2>3, <3>1
    <3>3. QED
      BY <3>2
  <2>4. CASE s.voters[v] # NoVoter
    BY <2>2, <2>4 DEF Infos
  <2>5. QED
    BY <2>3, <2>4
<1>3. f \in VoterSets(H)
  <2>1. f = [v \in Voters |-> f[v]]
    OBVIOUS
  <2> HIDE DEF f
  <2>2. QED
    BY <1>2, <2>1 DEF VoterSets
<1>4. ResetVoterInfo(s) = [s EXCEPT !.voters = f]
  BY DEF ResetVoterInfo
<1> HIDE DEF f
<1>5. QED
  BY <1>3, <1>4 DEF Stores

-----------------------------------------------------------------------------
(***************************************************************************)
(* Entries.                                                                *)
(***************************************************************************)

\* Some replicas of a replica set, in their order.
LEMMA SomeReplicas ==
    ASSUME NEW H, NEW rs \in ReplicaSets(H), NEW A
    PROVE  /\ Selected(rs, A) \in ReplicaSets(H)
           /\ \A i \in DOMAIN Selected(rs, A) : Selected(rs, A)[i] \in A \cap ToSet(rs)
<1>1. rs \in Seq(ReplicaType(H)) /\ \A i, j \in DOMAIN rs : Id(rs[i].node) = Id(rs[j].node) => i = j
  BY DEF ReplicaSets
<1>2. /\ Selected(rs, A) \in Seq(ReplicaType(H))
      /\ \A j \in DOMAIN Selected(rs, A) :
            Selected(rs, A)[j] \in A /\ \E i \in DOMAIN rs : Selected(rs, A)[j] = rs[i]
      /\ \A i, j \in DOMAIN Selected(rs, A) :
            Id(Selected(rs, A)[i].node) = Id(Selected(rs, A)[j].node) => i = j
  BY <1>1, SelectedOK
<1>3. QED
  BY <1>2 DEF ReplicaSets, ToSet

\* The members of a replica set.
LEMMA Members ==
    ASSUME NEW H, NEW rs \in ReplicaSets(H), NEW r \in ToSet(rs)
    PROVE  r \in ReplicaType(H) /\ r.node \in H /\ r.down \in BOOLEAN /\ r.seq \in SeqNumbers
<1>1. PICK i \in DOMAIN rs : r = rs[i]
  BY DEF ToSet
<1>2. rs \in Seq(ReplicaType(H))
  BY DEF ReplicaSets
<1>3. r \in ReplicaType(H)
  BY <1>1, <1>2
<1>4. QED
  BY <1>3 DEF ReplicaType

\* The replicas that are up.
LEMMA UpsOK ==
    ASSUME NEW H, NEW rs \in ReplicaSets(H)
    PROVE  Ups(rs) \in ReplicaSets(H) /\ \A i \in DOMAIN Ups(rs) : Ups(rs)[i] \in ToSet(rs)
BY SomeReplicas DEF Ups

\* Write.
LEMMA WriteOK ==
    ASSUME NEW H, NEW s \in Stores(H), NEW k \in Keys, NEW seq \in Nat, NEW check, NEW v \in Nat
    PROVE  Write(s, k, seq, check, v) \in Stores(H)
<1> DEFINE e == IF s.phase = "Primary" /\ HasSecondary(s)
                THEN [s.entries[k] EXCEPT !.pend = v, !.pseq = seq]
                ELSE [s.entries[k] EXCEPT !.cur = v, !.seq = seq]
           es == [s.entries EXCEPT ![k] = e]
           rs == [s.replicas EXCEPT ![1].seq = seq]
           as == IF s.phase # "Primary" THEN s.asserts \cup {"WriteRejected"} ELSE s.asserts
<1>1. s.entries \in [Keys -> Entries] /\ s.replicas \in ReplicaSets(H) /\ s.asserts \in SUBSET Assertions
  BY DEF Stores
<1>2. Write(s, k, seq, check, v) \in {[s EXCEPT !.asserts = as], [s EXCEPT !.entries = es, !.replicas = rs]}
  <2>1. CASE WriteError(s, k, check, v) # ""
    BY <2>1 DEF Write
  <2>2. CASE WriteError(s, k, check, v) = ""
    <3> DEFINE written ==
             [s EXCEPT !.entries[k] = IF s.phase = "Primary" /\ HasSecondary(s)
                                      THEN [s.entries[k] EXCEPT !.pend = v, !.pseq = seq]
                                      ELSE [s.entries[k] EXCEPT !.cur = v, !.seq = seq],
                       !.replicas[1].seq = seq]
    <3>1. Write(s, k, seq, check, v) = written
      BY <2>2 DEF Write
    <3>2. written = [s EXCEPT !.entries = es, !.replicas = rs]
      OBVIOUS
    <3>3. QED
      BY <3>1, <3>2
  <2>3. QED
    BY <2>1, <2>2
<1>3. as \in SUBSET Assertions
  BY <1>1 DEF Assertions
<1>4. es \in [Keys -> Entries]
  <2>1. e \in Entries
    <3>1. s.entries[k] \in Entries
      BY <1>1
    <3>2. /\ [s.entries[k] EXCEPT !.pend = v, !.pseq = seq] \in Entries
          /\ [s.entries[k] EXCEPT !.cur = v, !.seq = seq] \in Entries
      BY <3>1 DEF Entries
    <3>3. QED
      BY <3>2
  <2> HIDE DEF e
  <2>2. QED
    BY <1>1, <2>1
<1>5. rs \in ReplicaSets(H)
  <2>1. seq \in SeqNumbers
    BY DEF SeqNumbers
  <2>2. QED
    BY <1>1, <2>1, SequenceSet
<1> HIDE DEF as, es, rs
<1>6. [s EXCEPT !.asserts = as] \in Stores(H)
  BY <1>3 DEF Stores
<1>7. [s EXCEPT !.entries = es, !.replicas = rs] \in Stores(H)
  BY <1>4, <1>5 DEF Stores
<1>8. QED
  BY <1>2, <1>6, <1>7

\* Done.
LEMMA DoneOK ==
    ASSUME NEW H, NEW s \in Stores(H), NEW k \in Keys, NEW v \in Nat
    PROVE  Done(s, k, v) \in Stores(H)
<1> DEFINE holders == {r.node : r \in ToSet(UpReplicas(s))}
           done == s.done \cup {[key |-> k, value |-> v, holders |-> holders]}
<1>1. s.replicas \in ReplicaSets(H) /\ s.done \in SUBSET DoneWrites(H)
  BY DEF Stores
<1>2. holders \in SUBSET H
  <2>1. UpReplicas(s) \in ReplicaSets(H)
    BY <1>1, UpsOK DEF UpReplicas
  <2>2. \A r \in ToSet(UpReplicas(s)) : r.node \in H
    BY <2>1, Members
  <2>3. QED
    BY <2>2
<1>3. Done(s, k, v) = [s EXCEPT !.done = done]
  BY DEF Done
<1> HIDE DEF holders
<1>4. done \in SUBSET DoneWrites(H)
  BY <1>1, <1>2 DEF DoneWrites
<1> HIDE DEF done
<1>5. QED
  BY <1>3, <1>4 DEF Stores

\* The queue of an entry changes.
LEMMA QueueOK ==
    ASSUME NEW H, NEW s \in Stores(H), NEW k \in Keys, NEW q \in Seq(Queued)
    PROVE  [s EXCEPT !.entries[k].queue = q] \in Stores(H)
<1> DEFINE es == [s.entries EXCEPT ![k].queue = q]
<1>1. s.entries \in [Keys -> Entries]
  BY DEF Stores
<1>2. es \in [Keys -> Entries]
  BY <1>1 DEF Entries
<1>3. [s EXCEPT !.entries = es] \in Stores(H)
  <2> HIDE DEF es
  <2>1. QED
    BY <1>2 DEF Stores
<1>4. QED
  BY <1>3

\* The highest sequence changes.
LEMMA HighestOK ==
    ASSUME NEW H, NEW s \in Stores(H), NEW q \in Nat
    PROVE  [s EXCEPT !.highest = q] \in Stores(H)
BY DEF Stores

\* ProcessWriteRequest.
LEMMA ProcessWriteRequestOK ==
    ASSUME NEW H, NEW s \in Stores(H), NEW k \in Keys, NEW check \in Int, NEW v \in Nat
    PROVE  ProcessWriteRequest(s, k, check, v) \in Stores(H)
<1> DEFINE w == Write(s, k, s.highest + 1, check, v)
           t == [w EXCEPT !.highest = w.highest + 1]
           q == Append(s.entries[k].queue, [check |-> check, value |-> v])
<1>1. s.highest \in Nat /\ s.entries[k].queue \in Seq(Queued)
  BY DEF Stores, Entries
<1>2. w \in Stores(H)
  BY <1>1, WriteOK
<1> HIDE DEF w
<1>3. w.highest + 1 \in Nat
  BY <1>2 DEF Stores
<1>4. t \in Stores(H)
  BY <1>2, <1>3, HighestOK
<1>5. q \in Seq(Queued)
  <2>1. [check |-> check, value |-> v] \in Queued
    BY DEF Queued
  <2>2. QED
    BY <1>1, <2>1, AppendProperties
<1>6. [s EXCEPT !.entries[k].queue = q] \in Stores(H)
  <2> HIDE DEF q
  <2>1. QED
    BY <1>5, QueueOK
<1>7. ProcessWriteRequest(s, k, check, v) \in {t, Done(t, k, v), [s EXCEPT !.entries[k].queue = q], s}
  BY DEF ProcessWriteRequest, w
<1> HIDE DEF t, q
<1>8. Done(t, k, v) \in Stores(H)
  BY <1>4, DoneOK
<1>9. QED
  BY <1>4, <1>6, <1>7, <1>8

\* Commit.
LEMMA CommitOK ==
    ASSUME NEW H, NEW s \in Stores(H), NEW k \in Keys, NEW committed
    PROVE  Commit(s, k, committed) \in Stores(H)
<1> DEFINE e == s.entries[k]
           f == [e EXCEPT !.cur = e.pend, !.seq = e.pseq, !.pend = 0]
           es == [s.entries EXCEPT ![k] = f]
           t == [s EXCEPT !.entries = es]
<1>1. s.entries \in [Keys -> Entries]
  BY DEF Stores
<1>2. e \in Entries
  BY <1>1
<1>3. Commit(s, k, committed) \in {s, Done(t, k, e.pend)}
  BY DEF Commit
<1> HIDE DEF e
<1>4. f \in Entries /\ e.pend \in Nat
  BY <1>2 DEF Entries
<1> HIDE DEF f
<1>5. es \in [Keys -> Entries]
  BY <1>1, <1>4
<1> HIDE DEF es
<1>6. t \in Stores(H)
  BY <1>5 DEF Stores
<1> HIDE DEF t
<1>7. Done(t, k, e.pend) \in Stores(H)
  BY <1>4, <1>6, DoneOK
<1>8. QED
  BY <1>3, <1>7

\* ServeNext.
LEMMA ServeNextOK ==
    ASSUME NEW H, NEW s \in Stores(H), NEW k \in Keys
    PROVE  ServeNext(s, k) \in Stores(H)
<1> DEFINE queue == s.entries[k].queue
           t == [s EXCEPT !.entries[k].queue = Tail(queue)]
<1>1. queue \in Seq(Queued)
  BY DEF Stores, Entries
<1>2. SUFFICES ASSUME queue # <<>>
               PROVE  ProcessWriteRequest(t, k, Head(queue).check, Head(queue).value) \in Stores(H)
  BY DEF ServeNext
<1> HIDE DEF queue
<1>3. Tail(queue) \in Seq(Queued) /\ Head(queue) \in Queued
  BY <1>1, <1>2, HeadTailProperties
<1>4. t \in Stores(H)
  BY <1>3, QueueOK
<1>5. Head(queue).check \in Int /\ Head(queue).value \in Nat
  BY <1>3 DEF Queued
<1> HIDE DEF t
<1>6. QED
  BY <1>4, <1>5, ProcessWriteRequestOK

-----------------------------------------------------------------------------
(***************************************************************************)
(* The folds.  Each of their steps stays in a set, and so does the fold.   *)
(***************************************************************************)

\* The elements of a finite set as a sequence.
LEMMA SetToSeqOK ==
    ASSUME NEW S, IsFiniteSet(S)
    PROVE  SetToSeq(S) \in [1..Cardinality(S) -> S] /\ Cardinality(S) \in Nat
<1>1. Cardinality(S) \in Nat /\ ExistsBijection(1..Cardinality(S), S)
  BY FS_CardinalityType
<1>2. PICK f : f \in Bijection(1..Cardinality(S), S)
  BY <1>1 DEF ExistsBijection
<1>3. f \in [1..Cardinality(S) -> S] /\ IsInjective(f)
  BY <1>2 DEF Bijection, Injection, IsInjective
<1>4. QED
  BY <1>1, <1>3 DEF SetToSeq

\* Serve.
LEMMA ServeOK ==
    ASSUME NEW H, NEW s \in Stores(H), NEW k \in Keys
    PROVE  Serve(s, k) \in Stores(H)
<1> DEFINE seq == s.entries[k].queue
           n == Len(seq)
           X == Stores(H)
           R == [p \in X \X (1..n) |-> ServeNext(p[1], k)]
           Folds(g) == g = [t \in SUBSET DOMAIN seq |-> IF t = {} THEN s ELSE ServeNext(g[t \ {Max(t)}], k)]
           fold == CHOOSE g : Folds(g)
<1>1. n \in Nat /\ DOMAIN seq = 1..n /\ \A i \in 1..n : seq[i] \in Queued
  BY DEF Stores, Entries
<1>2. Serve(s, k) = fold[DOMAIN seq]
  BY DEF Serve, FoldLeft, MapThenFoldSet
<1>3. s \in X
  BY DEF Stores
<1>4. \A x \in X, i \in 1..n : ServeNext(x, k) \in X
  BY ServeNextOK
<1> HIDE DEF seq, n
<1>5. R \in [X \X (1..n) -> X]
  <2> HIDE DEF X
  <2>1. \A p \in X \X (1..n) : ServeNext(p[1], k) \in X
    BY <1>4
  <2>2. QED
    BY <2>1
<1>6. \E g : Folds(g)
  <2>0. PICK g : IsFold(n, X, s, R, g)
    <3> HIDE DEF R, X
    <3>1. QED
      BY <1>1, <1>3, <1>5, FoldExists
  <2>1. /\ g \in [SUBSET (1..n) -> X] /\ g[{}] = s
        /\ \A t \in SUBSET (1..n) : t # {} => g[t] = R[<<g[t \ {Max(t)}], Max(t)>>]
    <3> HIDE DEF R, X
    <3>1. QED
      BY <2>0 DEF IsFold
  <2>2. ASSUME NEW t \in SUBSET (1..n), t # {}
        PROVE  g[t] = ServeNext(g[t \ {Max(t)}], k)
    <3>1. Max(t) \in 1..n /\ t \ {Max(t)} \in SUBSET (1..n)
      BY <1>1, <2>2, GreatestIndex
    <3> HIDE DEF X
    <3>2. <<g[t \ {Max(t)}], Max(t)>> \in X \X (1..n)
      BY <2>1, <3>1
    <3>3. QED
      BY <2>1, <2>2, <3>2
  <2> HIDE DEF X
  <2>3. g = [t \in SUBSET (1..n) |-> g[t]]
    BY <2>1
  <2> DEFINE f == [t \in SUBSET (1..n) |-> IF t = {} THEN s ELSE ServeNext(g[t \ {Max(t)}], k)]
  <2>4. f = [t \in SUBSET (1..n) |-> f[t]] /\ \A t \in SUBSET (1..n) : f[t] = g[t]
    BY <2>1, <2>2
  <2> HIDE DEF f
  <2>5. g = f
    BY <2>3, <2>4
  <2>6. Folds(g)
    BY <1>1, <2>5 DEF f
  <2> HIDE DEF Folds
  <2>7. QED
    BY <2>6
<1>7. Folds(fold)
  <2> HIDE DEF Folds
  <2>1. QED
    BY <1>6
<1> HIDE DEF fold, X
<1>8. fold[1..n] \in X
  <2>1. fold[{}] \in X
    BY <1>1, <1>3, <1>7
  <2>2. ASSUME NEW t \in SUBSET (1..n), t # {}, fold[t \ {Max(t)}] \in X
        PROVE  fold[t] \in X
    <3>1. Max(t) \in 1..n
      BY <1>1, <2>2, GreatestIndex
    <3>2. fold[t] = ServeNext(fold[t \ {Max(t)}], k)
      BY <1>1, <1>7, <2>2
    <3>3. QED
      BY <1>4, <2>2, <3>1, <3>2
  <2>3. QED
    BY <1>1, <2>1, <2>2, FoldStays
<1>9. QED
  BY <1>1, <1>2, <1>8 DEF X

\* The keys are finitely many, each somewhere in KeyOrder.
LEMMA KeyOrderOK == IsFiniteSet(Keys) /\ Len(KeyOrder) \in Nat /\ DOMAIN KeyOrder = 1..Len(KeyOrder)
                    /\ \A i \in 1..Len(KeyOrder) : KeyOrder[i] \in Keys
<1>1. Writes \in Seq(ToSet(Writes))
  BY WritesAssumption
<1>2. ToSet(Writes) = {Writes[i] : i \in 1..Len(Writes)} /\ Len(Writes) \in Nat
  BY <1>1 DEF ToSet
<1>3. IsFiniteSet(1..Len(Writes))
  BY <1>2, FS_Interval
<1>4. IsFiniteSet(ToSet(Writes))
  <2> DEFINE f == [i \in 1..Len(Writes) |-> Writes[i]]
  <2>1. f \in Surjection(1..Len(Writes), ToSet(Writes))
    BY <1>2 DEF Surjection
  <2> HIDE DEF f
  <2>2. QED
    BY <1>3, <2>1, FS_Surjection
<1>5. IsFiniteSet(Keys)
  <2> DEFINE f == [r \in ToSet(Writes) |-> r.key]
  <2>1. f \in Surjection(ToSet(Writes), Keys)
    BY DEF Surjection, Keys
  <2> HIDE DEF f
  <2>2. QED
    BY <1>4, <2>1, FS_Surjection
<1>6. KeyOrder \in [1..Cardinality(Keys) -> Keys] /\ Cardinality(Keys) \in Nat
  BY <1>5, SetToSeqOK DEF KeyOrder
<1>7. Len(KeyOrder) = Cardinality(Keys)
  BY <1>6
<1>8. QED
  BY <1>5, <1>6, <1>7

\* CommitEntries.
LEMMA CommitEntriesOK ==
    ASSUME NEW H, NEW s \in Stores(H)
    PROVE  CommitEntries(s) \in Stores(H)
<1> DEFINE seq == KeyOrder
           n == Len(seq)
           X == Stores(H)
           R == [p \in X \X (1..n) |-> Serve(Commit(p[1], seq[p[2]], GetCommitedSequence(s)), seq[p[2]])]
           Folds(g) == g = [t \in SUBSET DOMAIN seq |-> IF t = {} THEN s ELSE Serve(Commit(g[t \ {Max(t)}], seq[Max(t)], GetCommitedSequence(s)), seq[Max(t)])]
           fold == CHOOSE g : Folds(g)
<1>1. n \in Nat /\ DOMAIN seq = 1..n /\ \A i \in 1..n : seq[i] \in Keys
  BY KeyOrderOK
<1>2. CommitEntries(s) = fold[DOMAIN seq]
  BY DEF CommitEntries, FoldLeft, MapThenFoldSet
<1>3. s \in X
  BY DEF Stores
<1>4. \A x \in X, i \in 1..n : Serve(Commit(x, seq[i], GetCommitedSequence(s)), seq[i]) \in X
  <2>1. TAKE x \in X, i \in 1..n
  <2>2. Commit(x, seq[i], GetCommitedSequence(s)) \in X
    BY <1>1, CommitOK
  <2>3. QED
    BY <1>1, <2>2, ServeOK
<1> HIDE DEF seq, n
<1>5. R \in [X \X (1..n) -> X]
  <2> HIDE DEF X
  <2>1. \A p \in X \X (1..n) : Serve(Commit(p[1], seq[p[2]], GetCommitedSequence(s)), seq[p[2]]) \in X
    BY <1>4
  <2>2. QED
    BY <2>1
<1>6. \E g : Folds(g)
  <2>0. PICK g : IsFold(n, X, s, R, g)
    <3> HIDE DEF R, X
    <3>1. QED
      BY <1>1, <1>3, <1>5, FoldExists
  <2>1. /\ g \in [SUBSET (1..n) -> X] /\ g[{}] = s
        /\ \A t \in SUBSET (1..n) : t # {} => g[t] = R[<<g[t \ {Max(t)}], Max(t)>>]
    <3> HIDE DEF R, X
    <3>1. QED
      BY <2>0 DEF IsFold
  <2>2. ASSUME NEW t \in SUBSET (1..n), t # {}
        PROVE  g[t] = Serve(Commit(g[t \ {Max(t)}], seq[Max(t)], GetCommitedSequence(s)), seq[Max(t)])
    <3>1. Max(t) \in 1..n /\ t \ {Max(t)} \in SUBSET (1..n)
      BY <1>1, <2>2, GreatestIndex
    <3> HIDE DEF X
    <3>2. <<g[t \ {Max(t)}], Max(t)>> \in X \X (1..n)
      BY <2>1, <3>1
    <3>3. QED
      BY <2>1, <2>2, <3>2
  <2> HIDE DEF X
  <2>3. g = [t \in SUBSET (1..n) |-> g[t]]
    BY <2>1
  <2> DEFINE f == [t \in SUBSET (1..n) |-> IF t = {} THEN s ELSE Serve(Commit(g[t \ {Max(t)}], seq[Max(t)], GetCommitedSequence(s)), seq[Max(t)])]
  <2>4. f = [t \in SUBSET (1..n) |-> f[t]] /\ \A t \in SUBSET (1..n) : f[t] = g[t]
    BY <2>1, <2>2
  <2> HIDE DEF f
  <2>5. g = f
    BY <2>3, <2>4
  <2>6. Folds(g)
    BY <1>1, <2>5 DEF f
  <2> HIDE DEF Folds
  <2>7. QED
    BY <2>6
<1>7. Folds(fold)
  <2> HIDE DEF Folds
  <2>1. QED
    BY <1>6
<1> HIDE DEF fold, X
<1>8. fold[1..n] \in X
  <2>1. fold[{}] \in X
    BY <1>1, <1>3, <1>7
  <2>2. ASSUME NEW t \in SUBSET (1..n), t # {}, fold[t \ {Max(t)}] \in X
        PROVE  fold[t] \in X
    <3>1. Max(t) \in 1..n
      BY <1>1, <2>2, GreatestIndex
    <3>2. fold[t] = Serve(Commit(fold[t \ {Max(t)}], seq[Max(t)], GetCommitedSequence(s)), seq[Max(t)])
      BY <1>1, <1>7, <2>2
    <3>3. QED
      BY <1>4, <2>2, <3>1, <3>2
  <2>3. QED
    BY <1>1, <2>1, <2>2, FoldStays
<1>9. QED
  BY <1>1, <1>2, <1>8 DEF X

\* Add: a replica set names a voter once.
LEMMA AddReplicaOK ==
    ASSUME NEW H, NEW rs \in ReplicaSets(H), NEW x \in H
    PROVE  AddReplica(rs, x) \in ReplicaSets(H)
<1> DEFINE P(i) == Id(rs[i].node) = Id(x)
           same == SelectInSeq(rs, LAMBDA r : Id(r.node) = Id(x))
           I == {i \in 1..Len(rs) : P(i)}
           base == IF same = 0 THEN rs ELSE RemoveAt(rs, same)
           new == Append(base, Replica(x))
<1>1. /\ rs \in Seq(ReplicaType(H)) /\ Len(rs) \in Nat /\ DOMAIN rs = 1..Len(rs)
      /\ \A i \in 1..Len(rs) : rs[i] \in ReplicaType(H)
      /\ \A i, j \in 1..Len(rs) : Id(rs[i].node) = Id(rs[j].node) => i = j
  BY DEF ReplicaSets
<1>2. same \in 0..Len(rs) /\ (same = 0 => I = {}) /\ (same # 0 => I = {same})
  <2>1. CASE I = {}
    <3>1. same = 0
      BY <2>1 DEF SelectInSeq
    <3>2. QED
      BY <1>1, <2>1, <3>1
  <2>2. CASE I # {}
    <3>1. same = Min(I)
      BY <2>2 DEF SelectInSeq
    <3>2. I \subseteq Nat
      OBVIOUS
    <3> HIDE DEF I
    <3>3. Min(I) \in I
      BY <2>2, <3>2, MinOfNaturals
    <3> HIDE DEF same
    <3>4. same \in 1..Len(rs) /\ P(same)
      BY <3>1, <3>3 DEF I
    <3>5. \A i \in I : i = same
      BY <1>1, <3>4 DEF I
    <3>6. QED
      BY <3>1, <3>3, <3>4, <3>5
  <2>3. QED
    BY <2>1, <2>2
<1>3. Replica(x) \in ReplicaType(H)
  BY DEF Replica, ReplicaType, SeqNumbers
<1>4. AddReplica(rs, x) \in {rs, new}
  BY DEF AddReplica
<1> HIDE DEF same
<1>5. /\ base \in Seq(ReplicaType(H))
      /\ \A i \in 1..Len(base) : \E j \in (1..Len(rs)) \ {same} : base[i] = rs[j]
      /\ \A i, j \in 1..Len(base) : Id(base[i].node) = Id(base[j].node) => i = j
  <2>1. CASE same = 0
    BY <1>1, <2>1
  <2>2. CASE same # 0
    <3>1. same \in 1..Len(rs)
      BY <1>1, <1>2, <2>2
    <3>2. base = [i \in 1..(Len(rs) - 1) |-> IF i < same THEN rs[i] ELSE rs[i + 1]]
        <4> DEFINE a == SubSeq(rs, 1, same - 1)
               b == SubSeq(rs, same + 1, Len(rs))
    <4>0. /\ same \in Int /\ Len(rs) \in Int /\ same - 1 \in Int /\ same + 1 \in Int /\ 1 \in Int
          /\ \A i \in 1..(same - 1) : rs[i] \in ReplicaType(H)
          /\ \A i \in (same + 1)..Len(rs) : rs[i] \in ReplicaType(H)
      BY <1>1, <3>1
    <4>1. /\ a \in Seq(ReplicaType(H)) /\ Len(a) = IF 1 <= same - 1 THEN same - 1 - 1 + 1 ELSE 0
          /\ \A i \in 1..(same - 1 - 1 + 1) : a[i] = rs[1 + i - 1]
      BY <4>0, SubSeqProperties
    <4>2. /\ b \in Seq(ReplicaType(H))
          /\ Len(b) = IF same + 1 <= Len(rs) THEN Len(rs) - (same + 1) + 1 ELSE 0
          /\ \A i \in 1..(Len(rs) - (same + 1) + 1) : b[i] = rs[(same + 1) + i - 1]
      <5> DEFINE m == same + 1
      <5>1. m \in Int /\ Len(rs) \in Int /\ \A i \in m..Len(rs) : rs[i] \in ReplicaType(H)
        BY <4>0
      <5> HIDE DEF m
      <5>2. /\ SubSeq(rs, m, Len(rs)) \in Seq(ReplicaType(H))
            /\ Len(SubSeq(rs, m, Len(rs))) = IF m <= Len(rs) THEN Len(rs) - m + 1 ELSE 0
            /\ \A i \in 1..(Len(rs) - m + 1) : SubSeq(rs, m, Len(rs))[i] = rs[m + i - 1]
        BY <5>1, SubSeqProperties
      <5>3. QED
        BY <5>2 DEF m
    <4> HIDE DEF a, b
    <4>3. Len(a) = same - 1 /\ Len(b) = Len(rs) - same
      <5>1. Len(rs) \in Nat /\ same \in 1..Len(rs)
        BY <1>1, <3>1
      <5>2. Len(a) = IF 1 <= same - 1 THEN same - 1 - 1 + 1 ELSE 0
        BY <4>1
      <5>3. Len(b) = IF same + 1 <= Len(rs) THEN Len(rs) - (same + 1) + 1 ELSE 0
        BY <4>2
      <5>4. Len(a) = same - 1
        BY <5>1, <5>2
      <5>5. Len(b) = Len(rs) - same
        BY <5>1, <5>3
      <5>6. QED
        BY <5>4, <5>5
    <4>4. /\ a \o b \in Seq(ReplicaType(H)) /\ Len(a \o b) = Len(a) + Len(b)
          /\ \A i \in 1..(Len(a) + Len(b)) : (a \o b)[i] = IF i <= Len(a) THEN a[i] ELSE b[i - Len(a)]
      BY <4>1, <4>2, ConcatProperties
    <4>5. base = a \o b
      BY <2>2 DEF RemoveAt, a, b
    <4> DEFINE c == a \o b
    <4>6. c \in Seq(ReplicaType(H)) /\ Len(c) = Len(rs) - 1
      BY <4>3, <4>4, <3>1, <1>1
    <4>7. ASSUME NEW i \in 1..(Len(rs) - 1)
          PROVE  c[i] = IF i < same THEN rs[i] ELSE rs[i + 1]
      <5>1. c[i] = IF i <= same - 1 THEN a[i] ELSE b[i - (same - 1)]
        BY <1>1, <3>1, <4>3, <4>4
      <5>2. CASE i < same
        <6>1. i <= same - 1 /\ i \in 1..(same - 1 - 1 + 1) /\ 1 + i - 1 = i
          BY <3>1, <1>1, <5>2
        <6>2. QED
          BY <4>1, <5>1, <5>2, <6>1
      <5>3. CASE ~(i < same)
        <6> DEFINE j == i - (same - 1)
        <6>1. ~(i <= same - 1) /\ j \in 1..(Len(rs) - (same + 1) + 1) /\ (same + 1) + j - 1 = i + 1
          BY <3>1, <1>1, <5>3
        <6>2. QED
          BY <4>2, <5>1, <5>3, <6>1
      <5>4. QED
        BY <5>2, <5>3
    <4> HIDE DEF c
    <4>8. c = [i \in 1..(Len(rs) - 1) |-> c[i]]
      BY <4>6
    <4>9. c = [i \in 1..(Len(rs) - 1) |-> IF i < same THEN rs[i] ELSE rs[i + 1]]
      BY <4>7, <4>8
    <4>10. QED
      BY <4>5, <4>9 DEF c
    <3>3. Len(rs) - 1 \in Nat
      BY <1>1, <3>1
    <3> HIDE DEF base
    <3>4. base \in Seq(ReplicaType(H)) /\ Len(base) = Len(rs) - 1
      BY <1>1, <3>1, <3>2, <3>3
    <3>5. \A i \in 1..Len(base) :
            base[i] = rs[IF i < same THEN i ELSE i + 1] /\ (IF i < same THEN i ELSE i + 1) \in (1..Len(rs)) \ {same}
      BY <1>1, <3>1, <3>2, <3>4
    <3>6. ASSUME NEW i \in 1..Len(base), NEW j \in 1..Len(base), Id(base[i].node) = Id(base[j].node)
          PROVE  i = j
      <4> DEFINE a == IF i < same THEN i ELSE i + 1
                 b == IF j < same THEN j ELSE j + 1
      <4>1. a \in 1..Len(rs) /\ b \in 1..Len(rs) /\ base[i] = rs[a] /\ base[j] = rs[b]
        BY <3>5
      <4> HIDE DEF a, b
      <4>2. a = b
        BY <1>1, <3>6, <4>1
      <4>3. QED
        BY <4>2, <3>1, <3>4, <3>3 DEF a, b
    <3>7. QED
      BY <3>4, <3>5, <3>6
  <2>3. QED
    BY <2>1, <2>2
<1> HIDE DEF base
<1>6. new \in Seq(ReplicaType(H)) /\ Len(new) = Len(base) + 1 /\ new[Len(base) + 1] = Replica(x)
      /\ \A i \in 1..Len(base) : new[i] = base[i]
  BY <1>3, <1>5, AppendProperties
<1>7. \A i \in 1..Len(base) : Id(new[i].node) # Id(x)
  <2>1. TAKE i \in 1..Len(base)
  <2>2. PICK j \in (1..Len(rs)) \ {same} : base[i] = rs[j]
    BY <1>5
  <2>3. j \notin I
    BY <1>2, <2>2
  <2>4. QED
    BY <1>6, <2>2, <2>3
<1>8. \A i, j \in DOMAIN new : Id(new[i].node) = Id(new[j].node) => i = j
  <2> HIDE DEF new
  <2>1. Len(base) \in Nat /\ DOMAIN new = 1..(Len(base) + 1) /\ new[Len(base) + 1].node = x
    BY <1>5, <1>6 DEF Replica
  <2>2. \A i \in DOMAIN new : i \in 1..Len(base) \/ i = Len(base) + 1
    BY <2>1
  <2>3. QED
    BY <1>5, <1>6, <1>7, <2>1, <2>2
<1> HIDE DEF new
<1>9. new \in ReplicaSets(H)
  BY <1>6, <1>8 DEF ReplicaSets
<1>10. QED
  BY <1>4, <1>9

\* The voters that join.
LEMMA JoiningOK ==
    ASSUME NEW H, NEW s \in Stores(H)
    PROVE  /\ Len(Joining(s)) \in Nat /\ DOMAIN Joining(s) = 1..Len(Joining(s))
           /\ \A i \in 1..Len(Joining(s)) :
                Joining(s)[i] \in {v \in Voters : <<v, s.voters[v].inst>> \in H}
<1> DEFINE J == {v \in Voters : IsVoter(s, v) /\ ~s.voters[v].down /\ s.voters[v].intro}
<1>1. J \subseteq Nat /\ IsFiniteSet(J)
  BY VotersAssumption, FS_Subset
<1>2. \A v \in J : v \in Voters /\ <<v, s.voters[v].inst>> \in H
  BY DEF Stores, VoterSets, IsVoter
<1>3. Joining(s) = Sorted(J)
  BY DEF Joining
<1> HIDE DEF J
<1>4. Cardinality(J) \in Nat /\ Sorted(J) \in [1..Cardinality(J) -> J]
  BY <1>1, SortedOK
<1>5. Len(Sorted(J)) = Cardinality(J)
  BY <1>4
<1>6. QED
  BY <1>2, <1>3, <1>4, <1>5

\* Joined.
LEMMA JoinedOK ==
    ASSUME NEW H, NEW s \in Stores(H)
    PROVE  Joined(s) \in ReplicaSets(H)
<1> DEFINE seq == Joining(s)
           n == Len(seq)
           X == ReplicaSets(H)
           R == [p \in X \X (1..n) |-> AddReplica(p[1], <<seq[p[2]], s.voters[seq[p[2]]].inst>>)]
           Folds(g) == g = [t \in SUBSET DOMAIN seq |-> IF t = {} THEN s.replicas ELSE AddReplica(g[t \ {Max(t)}], <<seq[Max(t)], s.voters[seq[Max(t)]].inst>>)]
           fold == CHOOSE g : Folds(g)
<1>1. n \in Nat /\ DOMAIN seq = 1..n /\ \A i \in 1..n : seq[i] \in {v \in Voters : <<v, s.voters[v].inst>> \in H}
  BY JoiningOK
<1>2. Joined(s) = fold[DOMAIN seq]
  BY DEF Joined, FoldLeft, MapThenFoldSet
<1>3. s.replicas \in X
  BY DEF Stores
<1>4. \A x \in X, i \in 1..n : AddReplica(x, <<seq[i], s.voters[seq[i]].inst>>) \in X
  BY <1>1, AddReplicaOK
<1> HIDE DEF seq, n
<1>5. R \in [X \X (1..n) -> X]
  <2> HIDE DEF X
  <2>1. \A p \in X \X (1..n) : AddReplica(p[1], <<seq[p[2]], s.voters[seq[p[2]]].inst>>) \in X
    BY <1>4
  <2>2. QED
    BY <2>1
<1>6. \E g : Folds(g)
  <2>0. PICK g : IsFold(n, X, s.replicas, R, g)
    <3> HIDE DEF R, X
    <3>1. QED
      BY <1>1, <1>3, <1>5, FoldExists
  <2>1. /\ g \in [SUBSET (1..n) -> X] /\ g[{}] = s.replicas
        /\ \A t \in SUBSET (1..n) : t # {} => g[t] = R[<<g[t \ {Max(t)}], Max(t)>>]
    <3> HIDE DEF R, X
    <3>1. QED
      BY <2>0 DEF IsFold
  <2>2. ASSUME NEW t \in SUBSET (1..n), t # {}
        PROVE  g[t] = AddReplica(g[t \ {Max(t)}], <<seq[Max(t)], s.voters[seq[Max(t)]].inst>>)
    <3>1. Max(t) \in 1..n /\ t \ {Max(t)} \in SUBSET (1..n)
      BY <1>1, <2>2, GreatestIndex
    <3> HIDE DEF X
    <3>2. <<g[t \ {Max(t)}], Max(t)>> \in X \X (1..n)
      BY <2>1, <3>1
    <3>3. QED
      BY <2>1, <2>2, <3>2
  <2> HIDE DEF X
  <2>3. g = [t \in SUBSET (1..n) |-> g[t]]
    BY <2>1
  <2> DEFINE f == [t \in SUBSET (1..n) |-> IF t = {} THEN s.replicas ELSE AddReplica(g[t \ {Max(t)}], <<seq[Max(t)], s.voters[seq[Max(t)]].inst>>)]
  <2>4. f = [t \in SUBSET (1..n) |-> f[t]] /\ \A t \in SUBSET (1..n) : f[t] = g[t]
    BY <2>1, <2>2
  <2> HIDE DEF f
  <2>5. g = f
    BY <2>3, <2>4
  <2>6. Folds(g)
    BY <1>1, <2>5 DEF f
  <2> HIDE DEF Folds
  <2>7. QED
    BY <2>6
<1>7. Folds(fold)
  <2> HIDE DEF Folds
  <2>1. QED
    BY <1>6
<1> HIDE DEF fold, X
<1>8. fold[1..n] \in X
  <2>1. fold[{}] \in X
    BY <1>1, <1>3, <1>7
  <2>2. ASSUME NEW t \in SUBSET (1..n), t # {}, fold[t \ {Max(t)}] \in X
        PROVE  fold[t] \in X
    <3>1. Max(t) \in 1..n
      BY <1>1, <2>2, GreatestIndex
    <3>2. fold[t] = AddReplica(fold[t \ {Max(t)}], <<seq[Max(t)], s.voters[seq[Max(t)]].inst>>)
      BY <1>1, <1>7, <2>2
    <3>3. QED
      BY <1>4, <2>2, <3>1, <3>2
  <2>3. QED
    BY <1>1, <2>1, <2>2, FoldStays
<1>9. QED
  BY <1>1, <1>2, <1>8 DEF X

\* WriteAll.
LEMMA WriteAllOK ==
    ASSUME NEW H, NEW s \in Stores(H), NEW E \in SUBSET Sent, IsFiniteSet(E)
    PROVE  WriteAll(s, E) \in Stores(H)
<1> DEFINE seq == SetToSeq(E)
           n == Len(seq)
           X == Stores(H)
           R == [p \in X \X (1..n) |-> Write(p[1], seq[p[2]].key, seq[p[2]].seq, -1, seq[p[2]].value)]
           Folds(g) == g = [t \in SUBSET DOMAIN seq |-> IF t = {} THEN s ELSE Write(g[t \ {Max(t)}], seq[Max(t)].key, seq[Max(t)].seq, -1, seq[Max(t)].value)]
           fold == CHOOSE g : Folds(g)
<1>1. n \in Nat /\ DOMAIN seq = 1..n /\ \A i \in 1..n : seq[i] \in Sent
  BY SetToSeqOK
<1>2. WriteAll(s, E) = fold[DOMAIN seq]
  BY DEF WriteAll, FoldLeft, MapThenFoldSet
<1>3. s \in X
  BY DEF Stores
<1>4. \A x \in X, i \in 1..n : Write(x, seq[i].key, seq[i].seq, -1, seq[i].value) \in X
  BY <1>1, WriteOK DEF Sent
<1> HIDE DEF seq, n
<1>5. R \in [X \X (1..n) -> X]
  <2> HIDE DEF X
  <2>1. \A p \in X \X (1..n) : Write(p[1], seq[p[2]].key, seq[p[2]].seq, -1, seq[p[2]].value) \in X
    BY <1>4
  <2>2. QED
    BY <2>1
<1>6. \E g : Folds(g)
  <2>0. PICK g : IsFold(n, X, s, R, g)
    <3> HIDE DEF R, X
    <3>1. QED
      BY <1>1, <1>3, <1>5, FoldExists
  <2>1. /\ g \in [SUBSET (1..n) -> X] /\ g[{}] = s
        /\ \A t \in SUBSET (1..n) : t # {} => g[t] = R[<<g[t \ {Max(t)}], Max(t)>>]
    <3> HIDE DEF R, X
    <3>1. QED
      BY <2>0 DEF IsFold
  <2>2. ASSUME NEW t \in SUBSET (1..n), t # {}
        PROVE  g[t] = Write(g[t \ {Max(t)}], seq[Max(t)].key, seq[Max(t)].seq, -1, seq[Max(t)].value)
    <3>1. Max(t) \in 1..n /\ t \ {Max(t)} \in SUBSET (1..n)
      BY <1>1, <2>2, GreatestIndex
    <3> HIDE DEF X
    <3>2. <<g[t \ {Max(t)}], Max(t)>> \in X \X (1..n)
      BY <2>1, <3>1
    <3>3. QED
      BY <2>1, <2>2, <3>2
  <2> HIDE DEF X
  <2>3. g = [t \in SUBSET (1..n) |-> g[t]]
    BY <2>1
  <2> DEFINE f == [t \in SUBSET (1..n) |-> IF t = {} THEN s ELSE Write(g[t \ {Max(t)}], seq[Max(t)].key, seq[Max(t)].seq, -1, seq[Max(t)].value)]
  <2>4. f = [t \in SUBSET (1..n) |-> f[t]] /\ \A t \in SUBSET (1..n) : f[t] = g[t]
    BY <2>1, <2>2
  <2> HIDE DEF f
  <2>5. g = f
    BY <2>3, <2>4
  <2>6. Folds(g)
    BY <1>1, <2>5 DEF f
  <2> HIDE DEF Folds
  <2>7. QED
    BY <2>6
<1>7. Folds(fold)
  <2> HIDE DEF Folds
  <2>1. QED
    BY <1>6
<1> HIDE DEF fold, X
<1>8. fold[1..n] \in X
  <2>1. fold[{}] \in X
    BY <1>1, <1>3, <1>7
  <2>2. ASSUME NEW t \in SUBSET (1..n), t # {}, fold[t \ {Max(t)}] \in X
        PROVE  fold[t] \in X
    <3>1. Max(t) \in 1..n
      BY <1>1, <2>2, GreatestIndex
    <3>2. fold[t] = Write(fold[t \ {Max(t)}], seq[Max(t)].key, seq[Max(t)].seq, -1, seq[Max(t)].value)
      BY <1>1, <1>7, <2>2
    <3>3. QED
      BY <1>4, <2>2, <3>1, <3>2
  <2>3. QED
    BY <1>1, <2>1, <2>2, FoldStays
<1>9. QED
  BY <1>1, <1>2, <1>8 DEF X

-----------------------------------------------------------------------------
(***************************************************************************)
(* The state machine.                                                      *)
(***************************************************************************)

\* ChangeReplicaSet.
LEMMA ChangeReplicaSetOK ==
    ASSUME NEW H, NEW s \in Stores(H)
    PROVE  ChangeReplicaSet(s) \in Stores(H)
<1> DEFINE found == \E r \in ToSet(s.replicas) : ~r.down /\ r.seq <= 0
           conf == IF ~found THEN 0 ELSE IF s.confSeq = 0 THEN s.highest ELSE s.confSeq
           joined == [Joined(s) EXCEPT ![1].seq = s.highest + 1]
           rs == Ups(joined)
           next == s.highest + 1
           epoch == s.epoch + 1
<1>1. s.highest \in Nat /\ s.confSeq \in Nat /\ s.epoch \in Nat
  BY DEF Stores
<1>2. ChangeReplicaSet(s) \in {[s EXCEPT !.confSeq = conf],
                               [s EXCEPT !.highest = next, !.confSeq = next, !.epoch = epoch, !.replicas = rs]}
  BY DEF ChangeReplicaSet
<1>3. next \in SeqNumbers /\ next \in Nat /\ epoch \in Nat
  BY <1>1 DEF SeqNumbers
<1>4. conf \in Nat
  BY <1>1
<1>5. joined \in ReplicaSets(H)
  <2> HIDE DEF next
  <2>1. \A q \in SeqNumbers : [Joined(s) EXCEPT ![1].seq = q] \in ReplicaSets(H)
    BY JoinedOK, SequenceSet
  <2>2. QED
    BY <1>3, <2>1 DEF next
<1> HIDE DEF joined
<1>6. rs \in ReplicaSets(H)
  BY <1>5, UpsOK
<1> HIDE DEF conf, rs, next, epoch
<1>7. [s EXCEPT !.confSeq = conf] \in Stores(H)
  BY <1>4 DEF Stores
<1>8. [s EXCEPT !.highest = next, !.confSeq = next, !.epoch = epoch, !.replicas = rs] \in Stores(H)
  BY <1>3, <1>6 DEF Stores
<1>9. QED
  BY <1>2, <1>7, <1>8

\* CheckStablePrimary.
LEMMA CheckStablePrimaryOK ==
    ASSUME NEW H, NEW s \in Stores(H)
    PROVE  CheckStablePrimary(s) \in Stores(H)
BY CommitEntriesOK, ChangeReplicaSetOK DEF CheckStablePrimary

\* Bootstrap.
LEMMA BootstrapOK ==
    ASSUME NEW H, NEW n \in Voters, Self(n) \in H, NEW s \in Stores(H)
    PROVE  Bootstrap(n, s) \in Stores(H)
<1> DEFINE rs == <<Replica(Self(n))>>
           next == s.gen + 1
           gen == Max({s.leaderInst, next})
           t == [s EXCEPT !.phase = "Primary", !.replicas = rs, !.gen = gen, !.epoch = 1, !.highest = 0]
<1>1. rs \in ReplicaSets(H)
  <2>1. Replica(Self(n)) \in ReplicaType(H)
    BY DEF Replica, ReplicaType, SeqNumbers
  <2>2. QED
    BY <2>1 DEF ReplicaSets
<1>2. s.leaderInst \in Nat /\ s.leaderInst \in Int /\ next \in Nat /\ next \in Int
  <2>1. s.leaderInst \in LeaderInstances /\ s.gen \in Nat
    BY DEF Stores
  <2>2. LeaderInstances \subseteq Nat
    BY TicksAssumption DEF LeaderInstances
  <2>3. s.leaderInst \in Nat
    BY <2>1, <2>2
  <2>4. next \in Nat
    BY <2>1
  <2> HIDE DEF next, rs, gen, t
  <2>5. Nat \subseteq Int
    OBVIOUS
  <2>6. QED
    BY <2>3, <2>4, <2>5
<1> HIDE DEF next
<1>3. gen \in Nat
  <2>1. gen \in {s.leaderInst, next}
    BY <1>2, MaxOfTwo
  <2>2. QED
    BY <1>2, <2>1
<1>4. Bootstrap(n, s) = CheckStablePrimary(t)
  BY DEF Bootstrap, next
<1> HIDE DEF rs, gen
<1>5. t \in Stores(H)
  BY <1>1, <1>3 DEF Stores, Phases
<1> HIDE DEF t
<1>6. QED
  BY <1>4, <1>5, CheckStablePrimaryOK

\* The index of a replica.
LEMMA ReplicaIndexOK ==
    ASSUME NEW H, NEW s \in Stores(H), NEW x
    PROVE  ReplicaIndex(s, x) \in Nat /\ (ReplicaIndex(s, x) # 0 => ReplicaIndex(s, x) \in DOMAIN s.replicas)
<1> DEFINE I == {i \in 1..Len(s.replicas) : s.replicas[i].node = x}
<1>1. s.replicas \in Seq(ReplicaType(H))
  BY DEF Stores, ReplicaSets
<1>2. ReplicaIndex(s, x) = IF I # {} THEN Min(I) ELSE 0
  BY DEF ReplicaIndex, SelectInSeq
<1>3. I \subseteq Nat /\ I \subseteq DOMAIN s.replicas
  BY <1>1
<1> HIDE DEF I
<1>4. CASE I = {}
  <2>1. ReplicaIndex(s, x) = 0
    BY <1>2, <1>4
  <2>2. QED
    BY <2>1
<1>5. CASE I # {}
  <2>1. ReplicaIndex(s, x) \in I
    BY <1>2, <1>3, <1>5, MinOfNaturals
  <2>2. QED
    BY <1>3, <2>1
<1>6. QED
  BY <1>4, <1>5

\* CheckPrimaryPromotion.
LEMMA CheckPrimaryPromotionOK ==
    ASSUME NEW H, NEW n \in Voters, NEW s \in Stores(H)
    PROVE  CheckPrimaryPromotion(n, s) \in Stores(H)
<1> DEFINE index == ReplicaIndex(s, Self(n))
           steps == IF index = 0 THEN 0 ELSE index - 1
           next == s.highest + 1
           epoch == s.epoch + steps * EpochStep + 1
           rs == [UpReplicas(s) EXCEPT ![1].seq = next]
           t == [s EXCEPT !.phase = "Primary", !.highest = next, !.epoch = epoch, !.replicas = rs]
<1>1. next \in Nat /\ next \in SeqNumbers /\ s.epoch \in Nat
  BY DEF Stores, SeqNumbers
<1>2. steps \in Nat
  BY ReplicaIndexOK
<1> HIDE DEF index, steps
<1>3. steps * EpochStep \in Nat
  <2>1. \A a, b \in Nat : a * b \in Nat
    OBVIOUS
  <2>2. QED
    BY <1>2, <2>1, StepAssumption
<1>4. epoch \in Nat
  BY <1>1, <1>3
<1>5. UpReplicas(s) \in ReplicaSets(H)
  BY UpsOK DEF UpReplicas, Stores
<1>6. CheckPrimaryPromotion(n, s) \in {s, CheckStablePrimary(t)}
  BY DEF CheckPrimaryPromotion, index, steps
<1> HIDE DEF next
<1>7. rs \in ReplicaSets(H)
  BY <1>1, <1>5, SequenceSet
<1> HIDE DEF rs, epoch
<1>8. t \in Stores(H)
  BY <1>1, <1>4, <1>7 DEF Stores, Phases
<1> HIDE DEF t
<1>9. QED
  BY <1>6, <1>8, CheckStablePrimaryOK

\* The phase, and the clock reading that names a leader, change.
LEMMA PhaseOK ==
    ASSUME NEW H, NEW s \in Stores(H), NEW p \in Phases, NEW i \in LeaderInstances
    PROVE  [s EXCEPT !.phase = p] \in Stores(H) /\ [s EXCEPT !.phase = p, !.leaderInst = i] \in Stores(H)
BY DEF Stores

\* CheckReadySecondary.
LEMMA CheckReadySecondaryOK ==
    ASSUME NEW H, NEW n \in Voters, Self(n) \in H, NEW s \in Stores(H),
           NEW in, in.tick \in LeaderInstances
    PROVE  CheckReadySecondary(n, s, in) \in Stores(H)
<1> DEFINE X == {r.node : r \in {q \in Ahead(n, s) : ~q.down}} \cap in.tableDown
           t == UpdateDownVoters(n, s, X)
           u == [t EXCEPT !.phase = "BecomePrimary", !.leaderInst = in.tick]
<1>1. CheckReadySecondary(n, s, in) \in {t, CheckPrimaryPromotion(n, u)}
  BY DEF CheckReadySecondary
<1> HIDE DEF X
<1>2. t \in Stores(H)
  BY UpdateDownVotersOK
<1> HIDE DEF t
<1>3. "BecomePrimary" \in Phases
  BY DEF Phases
<1>4. u \in Stores(H)
  BY <1>2, <1>3, PhaseOK
<1> HIDE DEF u
<1>5. QED
  BY <1>1, <1>2, <1>4, CheckPrimaryPromotionOK

\* CheckBootstrap.
LEMMA CheckBootstrapOK ==
    ASSUME NEW H, NEW n \in Voters, Self(n) \in H, NEW s \in Stores(H)
    PROVE  CheckBootstrap(n, s) \in Stores(H)
BY BootstrapOK DEF CheckBootstrap

\* Candidate.
LEMMA CandidateOK ==
    ASSUME NEW H, H \subseteq Voters \X Nat, NEW n, NEW s \in Stores(H)
    PROVE  Candidate(n, s) = 0 \/ (Candidate(n, s) \in Voters /\ IsVoter(s, Candidate(n, s)))
<1> DEFINE ups == {v \in Voters : IsVoter(s, v) /\ ~s.voters[v].down}
           lower == {v \in ups : v < n}
<1>1. lower \subseteq Nat /\ lower \subseteq ups
  BY VotersAssumption
<1>2. Candidate(n, s) \in ups \cup {0} \/ (lower # {} /\ Candidate(n, s) = Min(lower))
  BY DEF Candidate
<1>3. \A v \in ups : v \in Voters /\ IsVoter(s, v)
  OBVIOUS
<1> HIDE DEF lower, ups
<1>4. lower # {} => Min(lower) \in lower
  BY <1>1, MinOfNaturals
<1>5. QED
  BY <1>1, <1>2, <1>3, <1>4

\* CheckSecondaryPromotion.
LEMMA CheckSecondaryPromotionOK ==
    ASSUME NEW H, NEW n \in Voters, Self(n) \in H, NEW s \in Stores(H),
           NEW in, in.tick \in LeaderInstances
    PROVE  CheckSecondaryPromotion(n, s, in) \in Stores(H)
<1> DEFINE t == [s EXCEPT !.bootWait = TRUE]
           a == [t EXCEPT !.leaderInst = in.tick, !.alone = TRUE]
           b == [t EXCEPT !.phase = "Bootstrap", !.leaderInst = in.tick]
           c == ResetVoterInfo(b)
<1>1. CheckSecondaryPromotion(n, s, in) \in {s, t, Bootstrap(n, a), CheckBootstrap(n, c)}
  <2> DEFINE ups == UpReplicas(s)
             may == ~s.globalTime /\ s.bootWait /\ in.waited
  <2>1. CheckSecondaryPromotion(n, s, in) =
          CASE ups # <<>> /\ ups[1].node # Self(n) -> s
            [] ups # <<>> /\ ups[1].node = Self(n) -> IF may THEN Bootstrap(n, a) ELSE t
            [] OTHER -> IF Candidate(n, s) = 0 /\ may THEN CheckBootstrap(n, c) ELSE t
    BY DEF CheckSecondaryPromotion
  <2> HIDE DEF ups, may, t, a, c
  <2>2. QED
    BY <2>1, Zenon
<1>2. /\ \A w \in BOOLEAN : [s EXCEPT !.bootWait = w] \in Stores(H)
      /\ \A r \in Stores(H), w \in BOOLEAN : [r EXCEPT !.leaderInst = in.tick, !.alone = w] \in Stores(H)
  BY DEF Stores
<1>3. t \in Stores(H)
  BY <1>2, Zenon
<1> HIDE DEF t
<1>4. a \in Stores(H)
  BY <1>2, <1>3, Zenon
<1>5. b \in Stores(H)
  <2>1. "Bootstrap" \in Phases
    BY DEF Phases
  <2>2. QED
    BY <1>3, <2>1, PhaseOK
<1> HIDE DEF a, b
<1>6. c \in Stores(H)
  BY <1>5, ResetVoterInfoOK
<1> HIDE DEF c
<1>7. Bootstrap(n, a) \in Stores(H) /\ CheckBootstrap(n, c) \in Stores(H)
  BY <1>4, <1>6, BootstrapOK, CheckBootstrapOK
<1>8. QED
  BY <1>1, <1>3, <1>7

\* CheckIntroduce.
LEMMA CheckIntroduceOK ==
    ASSUME NEW H, NEW n \in Voters, Self(n) \in H, NEW s \in Stores(H),
           NEW in, in.tick \in LeaderInstances
    PROVE  CheckIntroduce(n, s, in) \in Stores(H)
<1> DEFINE t == [s EXCEPT !.phase = "BecomeSecondary"]
<1>1. t \in Stores(H)
  BY DEF Stores, Phases
<1>2. CheckIntroduce(n, s, in) \in {s, CheckSecondaryPromotion(n, t, in)}
  BY DEF CheckIntroduce
<1> HIDE DEF t
<1>3. QED
  BY <1>1, <1>2, CheckSecondaryPromotionOK

\* RunStateMachine.
LEMMA RunStateMachineOK ==
    ASSUME NEW H, NEW n \in Voters, Self(n) \in H, NEW s \in Stores(H),
           NEW in, in.tick \in LeaderInstances
    PROVE  RunStateMachine(n, s, in) \in Stores(H)
<1>1. s.phase \in Phases
  BY DEF Stores
<1>2. RunStateMachine(n, s, in) \in
        {CheckStablePrimary(s), CheckPrimaryPromotion(n, s), CheckReadySecondary(n, s, in),
         CheckSecondaryPromotion(n, s, in), CheckBootstrap(n, s), CheckIntroduce(n, s, in)}
  BY <1>1 DEF RunStateMachine, Phases
<1>3. QED
  BY <1>2, CheckStablePrimaryOK, CheckPrimaryPromotionOK, CheckReadySecondaryOK,
     CheckSecondaryPromotionOK, CheckBootstrapOK, CheckIntroduceOK

-----------------------------------------------------------------------------
(***************************************************************************)
(* Messages.                                                               *)
(***************************************************************************)

\* What the handlers of a type of message rely on.
BodyOK(H, type, body) ==
    /\ type \in {"BootstrapRequest", "LeaderProbeRequest", "ProgressRequest", "IntroduceReply"}
         => body.leaderInst \in LeaderInstances
    /\ type \in {"SyncRequest", "IntroduceReply", "BootstrapReply"} => body.config \in Configurations(H)
    /\ type = "ConfigQueryReply" => body \in Configurations(H)
    /\ type = "IntroduceReply" => body.voters \in SUBSET H
    /\ type \in {"SyncRequest", "ProgressReply"} =>
         body.end \in Nat /\ body.entries \in SUBSET Sent /\ IsFiniteSet(body.entries)
    /\ type = "SyncReply" => body.seq \in Nat

MessageOK(H, m) == m.from \in H /\ m.to \in H /\ BodyOK(H, m.type, m.body)

\* What a handler returns.
AnswerOK(H, h) ==
    /\ h.s \in Stores(H)
    /\ h.reply # <<>> => BodyOK(H, h.reply[1], h.reply[2])
    /\ \A m \in h.probes : MessageOK(H, m)

\* A message from n.
LEMMA MessageIsOK ==
    ASSUME NEW H, NEW n, Self(n) \in H, NEW s, NEW to \in H, NEW type, NEW body, BodyOK(H, type, body)
    PROVE  MessageOK(H, Message(n, s, type, to, body))
BY DEF MessageOK, Message

\* Replies.
LEMMA ReplyOK ==
    ASSUME NEW H, NEW s \in Stores(H), NEW type, NEW body, BodyOK(H, type, body)
    PROVE  AnswerOK(H, Reply(s, type, body))
BY DEF AnswerOK, Reply

\* No reply.
LEMMA NoReplyOK ==
    ASSUME NEW H, NEW s \in Stores(H)
    PROVE  AnswerOK(H, NoReply(s))
BY DEF AnswerOK, NoReply

\* The configuration of a store.
LEMMA ConfigurationOK ==
    ASSUME NEW H, NEW s \in Stores(H)
    PROVE  Configuration(s) \in Configurations(H)
<1> DEFINE c == [i \in DOMAIN s.replicas |-> s.replicas[i].node]
<1>1. /\ Len(s.replicas) \in Nat /\ DOMAIN s.replicas = 1..Len(s.replicas)
      /\ \A i \in DOMAIN s.replicas : s.replicas[i].node \in H
      /\ \A i, j \in DOMAIN s.replicas : Id(s.replicas[i].node) = Id(s.replicas[j].node) => i = j
  <2>1. s.replicas \in ReplicaSets(H)
    BY DEF Stores
  <2>2. /\ Len(s.replicas) \in Nat /\ DOMAIN s.replicas = 1..Len(s.replicas)
        /\ \A i \in DOMAIN s.replicas : s.replicas[i] \in ReplicaType(H)
        /\ \A i, j \in DOMAIN s.replicas : Id(s.replicas[i].node) = Id(s.replicas[j].node) => i = j
    BY <2>1 DEF ReplicaSets
  <2>3. QED
    BY <2>2 DEF ReplicaType
<1>2. c \in Seq(H) /\ \A i, j \in DOMAIN c : Id(c[i]) = Id(c[j]) => i = j
  BY <1>1
<1>3. s.gen \in Nat /\ s.epoch \in Nat
  BY DEF Stores
<1>4. Configuration(s) = [gen |-> s.gen, epoch |-> s.epoch, replicas |-> c]
  BY DEF Configuration
<1> HIDE DEF c
<1>5. QED
  BY <1>2, <1>3, <1>4 DEF Configurations

\* The entries that are sent.
LEMMA EntriesAfterOK ==
    ASSUME NEW H, NEW s \in Stores(H), NEW seq
    PROVE  EntriesAfter(s, seq) \in SUBSET Sent /\ IsFiniteSet(EntriesAfter(s, seq))
<1> DEFINE At(k) == IF s.entries[k].pend # 0 THEN s.entries[k].pseq ELSE s.entries[k].seq
           Value(k) == IF s.entries[k].pend # 0 THEN s.entries[k].pend ELSE s.entries[k].cur
           E(k) == [key |-> k, seq |-> At(k), value |-> Value(k)]
           K == {k \in Keys : Exists(s.entries[k]) /\ At(k) > seq}
           f == [k \in K |-> E(k)]
<1>1. s.entries \in [Keys -> Entries]
  BY DEF Stores
<1>2. \A k \in Keys : At(k) \in Nat /\ Value(k) \in Nat
  BY <1>1 DEF Entries
<1>3. EntriesAfter(s, seq) = {E(k) : k \in K}
  BY DEF EntriesAfter
<1> HIDE DEF At, Value
<1>4. \A k \in Keys : E(k) \in Sent
  BY <1>2 DEF Sent
<1>5. K \subseteq Keys /\ IsFiniteSet(K)
  BY KeyOrderOK, FS_Subset
<1> HIDE DEF K, E
<1>6. f \in Surjection(K, {E(k) : k \in K})
  BY DEF Surjection
<1> HIDE DEF f
<1>7. IsFiniteSet({E(k) : k \in K})
  BY <1>5, <1>6, FS_Surjection
<1>8. QED
  BY <1>3, <1>4, <1>5, <1>7

\* A voter that is known is an instance that was started.
LEMMA KnownVoter ==
    ASSUME NEW H, NEW s \in Stores(H), NEW v \in Voters, IsVoter(s, v)
    PROVE  <<v, s.voters[v].inst>> \in H
BY DEF Stores, VoterSets, IsVoter

\* VoterRequests.
LEMMA VoterRequestsOK ==
    ASSUME NEW H, NEW n, Self(n) \in H, NEW s \in Stores(H), NEW type, NEW body, BodyOK(H, type, body)
    PROVE  \A m \in VoterRequests(n, s, type, body) : MessageOK(H, m)
<1>1. TAKE m \in VoterRequests(n, s, type, body)
<1>2. PICK v \in Voters : IsVoter(s, v) /\ m = Message(n, s, type, <<v, s.voters[v].inst>>, body)
  BY DEF VoterRequests
<1>3. QED
  BY <1>2, KnownVoter, MessageIsOK

\* SyncRequest.
LEMMA SyncRequestOK ==
    ASSUME NEW H, NEW n, Self(n) \in H, NEW s \in Stores(H), NEW r, r.node \in H
    PROVE  MessageOK(H, SyncRequest(n, s, r))
<1> DEFINE config == Configuration(s)
           entries == EntriesAfter(s, r.seq)
           start == r.seq + 1
           body == [config |-> config, start |-> start, end |-> s.highest, entries |-> entries]
<1>1. config \in Configurations(H) /\ entries \in SUBSET Sent /\ IsFiniteSet(entries) /\ s.highest \in Nat
  BY ConfigurationOK, EntriesAfterOK DEF Stores
<1>2. SyncRequest(n, s, r) = Message(n, s, "SyncRequest", r.node, body)
  BY DEF SyncRequest
<1> HIDE DEF config, entries, start
<1>3. BodyOK(H, "SyncRequest", body)
  BY <1>1 DEF BodyOK
<1> HIDE DEF body
<1>4. QED
  BY <1>2, <1>3, MessageIsOK

\* SyncRequests.
LEMMA SyncRequestsOK ==
    ASSUME NEW H, NEW n, Self(n) \in H, NEW s \in Stores(H)
    PROVE  \A m \in SyncRequests(n, s) : MessageOK(H, m)
<1> DEFINE behind == {r \in ToSet(s.replicas) : ~r.down /\ r.seq > 0 /\ r.seq < s.highest}
           new == Selected(s.replicas, {r \in ToSet(s.replicas) : ~r.down /\ r.seq <= 0})
           syncNew == s.confSeq > 0 /\ (\A r \in behind : r.seq >= s.confSeq) /\ new # <<>>
<1>1. SyncRequests(n, s) = {SyncRequest(n, s, r) : r \in behind \cup (IF syncNew THEN {new[1]} ELSE {})}
  BY DEF SyncRequests
<1>2. s.replicas \in ReplicaSets(H)
  BY DEF Stores
<1>3. \A r \in behind : r.node \in H
  BY <1>2, Members
<1>4. syncNew => new # <<>>
  OBVIOUS
<1> HIDE DEF behind, syncNew
<1>5. new \in ReplicaSets(H)
  BY <1>2, SomeReplicas
<1> HIDE DEF new
<1>6. syncNew => new[1].node \in H
  <2>1. new \in Seq(ReplicaType(H))
    BY <1>5 DEF ReplicaSets
  <2>2. syncNew => new[1] \in ReplicaType(H)
    BY <1>4, <2>1
  <2>3. QED
    BY <2>2 DEF ReplicaType
<1>7. TAKE m \in SyncRequests(n, s)
<1>8. PICK r : m = SyncRequest(n, s, r) /\ (r \in behind \/ (syncNew /\ r = new[1]))
  BY <1>1
<1>9. QED
  BY <1>3, <1>6, <1>8, SyncRequestOK

\* Wanted.
LEMMA WantedOK ==
    ASSUME NEW H, H \subseteq Voters \X Nat, NEW n, Self(n) \in H, NEW s \in Stores(H)
    PROVE  \A m \in Wanted(n, s) : MessageOK(H, m)
<1> DEFINE inst == [leaderInst |-> s.leaderInst]
           progress == [leaderInst |-> s.leaderInst, seq |-> s.highest]
           A == {Message(n, s, "ProgressRequest", r.node, progress) : r \in Unasked(n, s)}
           B == {Message(n, s, "Join", x, <<>>) : x \in {UpReplicas(s)[1].node} \ {Self(n)}}
           C == {Message(n, s, "ConfigQueryRequest", <<v, s.voters[v].inst>>, <<>>) :
                   v \in {Candidate(n, s)} \ {0}}
<1>1. s.leaderInst \in LeaderInstances /\ s.replicas \in ReplicaSets(H)
  BY DEF Stores
<1>2. /\ BodyOK(H, "BootstrapRequest", inst) /\ BodyOK(H, "ProgressRequest", progress)
      /\ BodyOK(H, "Join", <<>>) /\ BodyOK(H, "ConfigQueryRequest", <<>>)
      /\ BodyOK(H, "IntroduceRequest", <<>>)
  BY <1>1 DEF BodyOK
<1>3. \/ Wanted(n, s) \in {SyncRequests(n, s), A, C, {},
                           VoterRequests(n, s, "BootstrapRequest", inst),
                           VoterRequests(n, s, "IntroduceRequest", <<>>)}
      \/ IsActive(s) /\ Wanted(n, s) = B
  BY DEF Wanted
<1>4. \A m \in A : MessageOK(H, m)
  <2>1. TAKE m \in A
  <2>2. PICK r \in ToSet(s.replicas) : m = Message(n, s, "ProgressRequest", r.node, progress)
    BY DEF Unasked
  <2> HIDE DEF progress, A
  <2>3. QED
    BY <1>1, <1>2, <2>2, Members, MessageIsOK
<1>5. IsActive(s) => \A m \in B : MessageOK(H, m)
  <2>1. SUFFICES ASSUME IsActive(s), NEW m \in B
                 PROVE  MessageOK(H, m)
    OBVIOUS
  <2>2. UpReplicas(s) \in Seq(ReplicaType(H)) /\ UpReplicas(s) # <<>>
    BY <1>1, <2>1, UpsOK DEF UpReplicas, IsActive, ReplicaSets
  <2>3. UpReplicas(s)[1] \in ReplicaType(H)
    BY <2>2
  <2>4. UpReplicas(s)[1].node \in H
    BY <2>3 DEF ReplicaType
  <2>5. m = Message(n, s, "Join", UpReplicas(s)[1].node, <<>>)
    OBVIOUS
  <2>6. QED
    BY <1>2, <2>4, <2>5, MessageIsOK
<1>6. \A m \in C : MessageOK(H, m)
  <2>1. TAKE m \in C
  <2> DEFINE v == Candidate(n, s)
  <2>2. v # 0 /\ m = Message(n, s, "ConfigQueryRequest", <<v, s.voters[v].inst>>, <<>>)
    OBVIOUS
  <2>3. v \in Voters /\ IsVoter(s, v)
    BY <2>2, CandidateOK
  <2> HIDE DEF v
  <2>4. QED
    BY <1>2, <2>2, <2>3, KnownVoter, MessageIsOK
<1> HIDE DEF inst, progress, A, B, C
<1>7. QED
  BY <1>2, <1>3, <1>4, <1>5, <1>6, SyncRequestsOK, VoterRequestsOK

-----------------------------------------------------------------------------
(***************************************************************************)
(* Handlers.                                                               *)
(***************************************************************************)

\* Another voter exists, and may be a new one or not.
LEMMA HeardOK ==
    ASSUME NEW H, H \subseteq Voters \X Nat, NEW n \in Voters, Self(n) \in H,
           NEW s \in Stores(H), NEW X \in SUBSET H
    PROVE  /\ UpdateVoterInstances(n, s, X, TRUE) \in Stores(H)
           /\ UpdateVoterInstances(n, s, X, FALSE) \in Stores(H)
<1>1. \A addNew \in BOOLEAN : UpdateVoterInstances(n, s, X, addNew) \in Stores(H)
  BY UpdateVoterInstancesOK
<1>2. QED
  BY <1>1, Zenon

\* ProcessMessageCommon.
LEMMA ProcessMessageCommonOK ==
    ASSUME NEW H, H \subseteq Voters \X Nat, NEW n \in Voters, Self(n) \in H,
           NEW s \in Stores(H), NEW m, MessageOK(H, m)
    PROVE  ProcessMessageCommon(n, s, m) \in Stores(H)
<1>1. UpdateVoterInstances(n, s, {m.from}, FALSE) \in Stores(H)
  BY HeardOK DEF MessageOK
<1>2. QED
  BY <1>1, UpdateDownVotersOK DEF ProcessMessageCommon

\* The leader of a store changes.
LEMMA LeaderOK ==
    ASSUME NEW H, NEW s \in Stores(H), NEW x \in H, NEW i \in LeaderInstances
    PROVE  [s EXCEPT !.leader = x, !.leaderInst = i] \in Stores(H)
BY DEF Stores

\* ProcessConfigQueryRequest.
LEMMA ProcessConfigQueryRequestOK ==
    ASSUME NEW H, NEW s \in Stores(H)
    PROVE  AnswerOK(H, ProcessConfigQueryRequest(s))
<1>1. Configuration(s) \in Configurations(H)
  BY ConfigurationOK
<1>2. BodyOK(H, "ConfigQueryReply", Configuration(s))
  BY <1>1 DEF BodyOK
<1>3. QED
  BY <1>2, ReplyOK DEF ProcessConfigQueryRequest

\* ProcessIntroduceRequest.
LEMMA ProcessIntroduceRequestOK ==
    ASSUME NEW H, H \subseteq Voters \X Nat, NEW n \in Voters, Self(n) \in H,
           NEW s \in Stores(H), NEW m, MessageOK(H, m)
    PROVE  AnswerOK(H, ProcessIntroduceRequest(n, s, m))
<1> DEFINE t == UpdateVoterInstances(n, s, {m.from}, TRUE)
           i == IF t.phase = "Bootstrap" THEN t.leaderInst ELSE 0
           config == Configuration(t)
           V == {<<v, t.voters[v].inst>> : v \in {w \in Voters : IsVoter(t, w) /\ ~t.voters[w].down}}
           body == [leaderInst |-> i, config |-> config, voters |-> V]
<1>1. t \in Stores(H)
  BY HeardOK DEF MessageOK
<1>2. ProcessIntroduceRequest(n, s, m) = Reply(t, "IntroduceReply", body)
  BY DEF ProcessIntroduceRequest
<1> HIDE DEF t
<1>3. i \in LeaderInstances /\ config \in Configurations(H)
  BY <1>1, ConfigurationOK DEF Stores, LeaderInstances
<1>4. V \in SUBSET H
  BY <1>1, KnownVoter
<1> HIDE DEF i, config, V
<1>5. BodyOK(H, "IntroduceReply", body)
  BY <1>3, <1>4 DEF BodyOK
<1> HIDE DEF body
<1>6. QED
  BY <1>1, <1>2, <1>5, ReplyOK

\* ProcessBootstrapRequest.
LEMMA ProcessBootstrapRequestOK ==
    ASSUME NEW H, NEW n \in Voters, NEW s \in Stores(H),
           NEW m, MessageOK(H, m), m.type = "BootstrapRequest"
    PROVE  AnswerOK(H, ProcessBootstrapRequest(n, s, m))
<1> DEFINE open == /\ ~IsActiveReplica(s) /\ s.phase # "Bootstrap"
                   /\ KnowsVoter(s, m.from) /\ ~s.voters[Id(m.from)].down
           accepted == open /\ s.leader \in {m.from, Self(n)}
           i == IF s.leader = m.from THEN Max({s.leaderInst, m.body.leaderInst}) ELSE m.body.leaderInst
           t == [s EXCEPT !.leader = m.from, !.leaderInst = i]
           u == IF accepted THEN t ELSE s
           config == Configuration(s)
           body == [leaderInst |-> m.body.leaderInst, config |-> config, accepted |-> accepted]
<1>1. ProcessBootstrapRequest(n, s, m) = Reply(u, "BootstrapReply", body)
  BY DEF ProcessBootstrapRequest
<1> HIDE DEF open, accepted
<1>2. m.body.leaderInst \in LeaderInstances /\ s.leaderInst \in LeaderInstances /\ m.from \in H
  BY DEF MessageOK, BodyOK, Stores
<1>3. LeaderInstances \subseteq Int
  BY TicksAssumption DEF LeaderInstances
<1>4. i \in LeaderInstances
  <2>1. Max({s.leaderInst, m.body.leaderInst}) \in {s.leaderInst, m.body.leaderInst}
    BY <1>2, <1>3, MaxOfTwo
  <2>2. QED
    BY <1>2, <2>1
<1> HIDE DEF i
<1>5. u \in Stores(H)
  BY <1>2, <1>4, LeaderOK
<1>6. config \in Configurations(H)
  BY ConfigurationOK
<1> HIDE DEF u, config
<1>7. BodyOK(H, "BootstrapReply", body)
  BY <1>6 DEF BodyOK
<1> HIDE DEF body
<1>8. QED
  BY <1>1, <1>5, <1>7, ReplyOK

\* ProcessLeaderProbeRequest.
LEMMA ProcessLeaderProbeRequestOK ==
    ASSUME NEW H, NEW s \in Stores(H), NEW m
    PROVE  AnswerOK(H, ProcessLeaderProbeRequest(s, m))
<1>1. \A body : BodyOK(H, "LeaderProbeReply", body)
  BY DEF BodyOK
<1> DEFINE body == [leaderInst |-> m.body.leaderInst,
                    isLeader |-> s.phase = "Bootstrap" /\ m.body.leaderInst = s.leaderInst]
<1>2. ProcessLeaderProbeRequest(s, m) = Reply(s, "LeaderProbeReply", body)
  BY DEF ProcessLeaderProbeRequest
<1> HIDE DEF body
<1>3. QED
  BY <1>1, <1>2, ReplyOK

\* Probe.
LEMMA ProbeOK ==
    ASSUME NEW H, NEW n, Self(n) \in H, NEW s \in Stores(H)
    PROVE  AnswerOK(H, Probe(n, s))
<1> DEFINE body == [leaderInst |-> s.leaderInst]
           probe == Message(n, s, "LeaderProbeRequest", s.leader, body)
<1>1. s.leaderInst \in LeaderInstances /\ s.leader \in H
  BY DEF Stores
<1>2. BodyOK(H, "LeaderProbeRequest", body)
  BY <1>1 DEF BodyOK
<1>3. Probe(n, s) = [s |-> s, reply |-> <<>>, probes |-> {probe}]
  BY DEF Probe
<1> HIDE DEF body
<1>4. MessageOK(H, probe)
  BY <1>1, <1>2, MessageIsOK
<1> HIDE DEF probe
<1>5. QED
  BY <1>3, <1>4 DEF AnswerOK

\* ProcessProgressRequest.
LEMMA ProcessProgressRequestOK ==
    ASSUME NEW H, NEW n \in Voters, Self(n) \in H, NEW s \in Stores(H),
           NEW m, MessageOK(H, m), m.type = "ProgressRequest"
    PROVE  AnswerOK(H, ProcessProgressRequest(n, s, m))
<1> DEFINE t == [s EXCEPT !.leader = m.from, !.leaderInst = m.body.leaderInst]
           entries == EntriesAfter(s, m.body.seq)
           body == [end |-> s.highest, entries |-> entries]
<1>1. t \in Stores(H)
  BY LeaderOK DEF MessageOK, BodyOK
<1>2. ProcessProgressRequest(n, s, m) \in {Probe(n, s), Reply(t, "ProgressReply", body), NoReply(s)}
  BY DEF ProcessProgressRequest
<1>3. s.highest \in Nat /\ entries \in SUBSET Sent /\ IsFiniteSet(entries)
  BY EntriesAfterOK DEF Stores
<1> HIDE DEF t, entries
<1>4. BodyOK(H, "ProgressReply", body)
  BY <1>3 DEF BodyOK
<1> HIDE DEF body
<1>5. AnswerOK(H, Reply(t, "ProgressReply", body))
  BY <1>1, <1>4, ReplyOK
<1>6. AnswerOK(H, Probe(n, s)) /\ AnswerOK(H, NoReply(s))
  BY ProbeOK, NoReplyOK
<1>7. QED
  BY <1>2, <1>5, <1>6

\* ProcessSyncRequest.
LEMMA ProcessSyncRequestOK ==
    ASSUME NEW H, H \subseteq Voters \X Nat, NEW n \in Voters, Self(n) \in H, NEW s \in Stores(H),
           NEW m, MessageOK(H, m), m.type = "SyncRequest"
    PROVE  AnswerOK(H, ProcessSyncRequest(n, s, m))
<1> DEFINE t == UpdateReplicaSet(n, s, m.body.config)
           unknown == IF ReplicaIndex(t, Self(n)) = 0 THEN {"NotInConfiguration"} ELSE {}
           gap == IF m.body.start > t.highest + 1 THEN {"SyncGap"} ELSE {}
           new == {e \in m.body.entries : e.seq > t.highest}
           a == WriteAll(t, new)
           b == [a EXCEPT !.highest = m.body.end]
           w == IF t.highest >= m.body.end THEN t ELSE b
           as == w.asserts \cup unknown \cup gap
           u == [w EXCEPT !.phase = "Secondary", !.leader = m.from, !.leaderInst = 0, !.asserts = as]
           body == [seq |-> u.highest]
<1>0. /\ m.from \in H /\ m.body.config \in Configurations(H) /\ m.body.end \in Nat
      /\ m.body.entries \in SUBSET Sent /\ IsFiniteSet(m.body.entries)
  BY DEF MessageOK, BodyOK
<1>1. t \in Stores(H)
  BY <1>0, UpdateReplicaSetOK
<1>2. ProcessSyncRequest(n, s, m) \in {Probe(n, s), Reply(u, "SyncReply", body), NoReply(s)}
  BY DEF ProcessSyncRequest
<1>3. unknown \in SUBSET Assertions /\ gap \in SUBSET Assertions
  BY DEF Assertions
<1> HIDE DEF t, unknown, gap
<1>4. new \in SUBSET Sent /\ IsFiniteSet(new)
  BY <1>0, FS_Subset
<1> HIDE DEF new
<1>5. a \in Stores(H)
  BY <1>1, <1>4, WriteAllOK
<1> HIDE DEF a
<1>6. b \in Stores(H)
  BY <1>0, <1>5, HighestOK
<1> HIDE DEF b
<1>7. w \in Stores(H)
  BY <1>1, <1>6
<1> HIDE DEF w
<1>8. as \in SUBSET Assertions
  BY <1>3, <1>7 DEF Stores
<1> HIDE DEF as
<1>9. u \in Stores(H) /\ u.highest \in Nat
  BY <1>0, <1>7, <1>8 DEF Stores, Phases, LeaderInstances
<1> HIDE DEF u
<1>10. BodyOK(H, "SyncReply", body)
  BY <1>9 DEF BodyOK
<1> HIDE DEF body
<1>11. AnswerOK(H, Reply(u, "SyncReply", body))
  BY <1>9, <1>10, ReplyOK
<1>12. AnswerOK(H, Probe(n, s)) /\ AnswerOK(H, NoReply(s))
  BY ProbeOK, NoReplyOK
<1>13. QED
  BY <1>2, <1>11, <1>12

\* ProcessRequest.
LEMMA ProcessRequestOK ==
    ASSUME NEW H, H \subseteq Voters \X Nat, NEW n \in Voters, Self(n) \in H, NEW s \in Stores(H),
           NEW m, MessageOK(H, m), m.type \in Requests
    PROVE  AnswerOK(H, ProcessRequest(n, s, m))
<1>1. CASE m.type = "ConfigQueryRequest"
  <2>1. ProcessRequest(n, s, m) = ProcessConfigQueryRequest(s)
    BY <1>1 DEF ProcessRequest
  <2>2. QED
    BY <2>1, ProcessConfigQueryRequestOK
<1>2. CASE m.type = "IntroduceRequest"
  <2>1. ProcessRequest(n, s, m) = ProcessIntroduceRequest(n, s, m)
    BY <1>2 DEF ProcessRequest
  <2>2. QED
    BY <2>1, ProcessIntroduceRequestOK
<1>3. CASE m.type = "BootstrapRequest"
  <2>1. ProcessRequest(n, s, m) = ProcessBootstrapRequest(n, s, m)
    BY <1>3 DEF ProcessRequest
  <2>2. QED
    BY <1>3, <2>1, ProcessBootstrapRequestOK
<1>4. CASE m.type = "LeaderProbeRequest"
  <2>1. ProcessRequest(n, s, m) = ProcessLeaderProbeRequest(s, m)
    BY <1>4 DEF ProcessRequest
  <2>2. QED
    BY <2>1, ProcessLeaderProbeRequestOK
<1>5. CASE m.type = "ProgressRequest"
  <2>1. ProcessRequest(n, s, m) = ProcessProgressRequest(n, s, m)
    BY <1>5 DEF ProcessRequest
  <2>2. QED
    BY <1>5, <2>1, ProcessProgressRequestOK
<1>6. CASE m.type = "SyncRequest"
  <2>1. ProcessRequest(n, s, m) = ProcessSyncRequest(n, s, m)
    BY <1>6 DEF ProcessRequest
  <2>2. QED
    BY <1>6, <2>1, ProcessSyncRequestOK
<1>7. QED
  BY <1>1, <1>2, <1>3, <1>4, <1>5, <1>6 DEF Requests

\* A voter that is known is one.
LEMMA KnownIsVoter ==
    ASSUME NEW H, H \subseteq Voters \X Nat, NEW s, NEW x \in H, KnowsVoter(s, x)
    PROVE  Id(x) \in Voters /\ s.voters[Id(x)] # NoVoter
<1>1. Id(x) \in Voters /\ Inst(x) \in Nat
  BY InstanceParts
<1>2. s.voters[Id(x)].inst \in Nat
  BY <1>1 DEF KnowsVoter
<1>3. NoVoter.inst = -1
  BY DEF NoVoter
<1>4. QED
  BY <1>1, <1>2, <1>3

\* What a store noted of a voter changes.
LEMMA NotedTrue ==
    ASSUME NEW H, H \subseteq Voters \X Nat, NEW s \in Stores(H), NEW x \in H, KnowsVoter(s, x)
    PROVE  /\ [s EXCEPT !.voters[Id(x)].acked = TRUE] \in Stores(H)
           /\ [s EXCEPT !.voters[Id(x)].intro = TRUE] \in Stores(H)
<1> DEFINE v == Id(x)
<1>1. v \in Voters /\ s.voters[v] # NoVoter
  BY KnownIsVoter
<1> HIDE DEF v
<1>2. \A b \in BOOLEAN : /\ [s EXCEPT !.voters[v].acked = b] \in Stores(H)
                         /\ [s EXCEPT !.voters[v].intro = b] \in Stores(H)
  BY <1>1, NotedOK
<1>3. /\ [s EXCEPT !.voters[v].acked = TRUE] \in Stores(H)
      /\ [s EXCEPT !.voters[v].intro = TRUE] \in Stores(H)
  BY <1>2, Zenon
<1>4. QED
  BY <1>3 DEF v

\* ProcessIntroduceReply.
LEMMA ProcessIntroduceReplyOK ==
    ASSUME NEW H, H \subseteq Voters \X Nat, NEW n \in Voters, Self(n) \in H, NEW s \in Stores(H),
           NEW m, MessageOK(H, m), m.type = "IntroduceReply"
    PROVE  ProcessIntroduceReply(n, s, m) \in Stores(H)
<1> DEFINE x == m.from
           r == [s EXCEPT !.voters[Id(x)].acked = TRUE]
           Y == {y \in m.body.voters : Id(y) # n}
           t == UpdateVoterInstances(n, r, Y, TRUE)
           u == UpdateReplicaSet(n, t, m.body.config)
           w == [u EXCEPT !.voters[Id(u.leader)].acked = FALSE]
           freed == IF u.leader = Self(n) THEN u ELSE w
           new == [freed EXCEPT !.leader = x, !.leaderInst = m.body.leaderInst]
<1>1. /\ x \in H /\ m.body.leaderInst \in LeaderInstances
      /\ m.body.config \in Configurations(H) /\ m.body.voters \in SUBSET H
  BY DEF MessageOK, BodyOK
<1>2. \/ ProcessIntroduceReply(n, s, m) = s
      \/ KnowsVoter(s, x) /\ ProcessIntroduceReply(n, s, m) \in {u, new}
  BY DEF ProcessIntroduceReply
<1>3. SUFFICES ASSUME KnowsVoter(s, x)
               PROVE  u \in Stores(H) /\ new \in Stores(H)
  BY <1>2
<1>4. r \in Stores(H)
  BY <1>1, <1>3, NotedTrue
<1>5. Y \in SUBSET H
  BY <1>1
<1> HIDE DEF r, Y
<1>6. t \in Stores(H)
  BY <1>4, <1>5, HeardOK
<1> HIDE DEF t
<1>7. u \in Stores(H)
  BY <1>1, <1>6, UpdateReplicaSetOK
<1> HIDE DEF u
<1>8. Id(u.leader) \in Voters
  <2>1. u.leader \in H
    BY <1>7 DEF Stores
  <2>2. QED
    BY <2>1, InstanceParts
<1>9. w \in Stores(H)
  BY <1>7, <1>8, ForgottenOK
<1> HIDE DEF w
<1>10. freed \in Stores(H)
  BY <1>7, <1>9
<1> HIDE DEF freed
<1>11. QED
  BY <1>1, <1>7, <1>10, LeaderOK

\* ProcessBootstrapReply.
LEMMA ProcessBootstrapReplyOK ==
    ASSUME NEW H, H \subseteq Voters \X Nat, NEW n \in Voters, Self(n) \in H, NEW s \in Stores(H),
           NEW m, MessageOK(H, m), m.type = "BootstrapReply"
    PROVE  ProcessBootstrapReply(n, s, m) \in Stores(H)
<1> DEFINE t == UpdateReplicaSet(n, s, m.body.config)
           r == ResetVoterInfo(t)
           a == [r EXCEPT !.phase = "BecomeSecondary"]
           b == [t EXCEPT !.voters[Id(m.from)].acked = TRUE]
<1>1. m.from \in H /\ m.body.config \in Configurations(H)
  BY DEF MessageOK, BodyOK
<1>2. \/ ProcessBootstrapReply(n, s, m) \in {s, t, a}
      \/ KnowsVoter(t, m.from) /\ ProcessBootstrapReply(n, s, m) = b
  BY DEF ProcessBootstrapReply
<1>3. t \in Stores(H)
  BY <1>1, UpdateReplicaSetOK
<1> HIDE DEF t
<1>4. r \in Stores(H)
  BY <1>3, ResetVoterInfoOK
<1> HIDE DEF r
<1>5. a \in Stores(H)
  BY <1>4 DEF Stores, Phases
<1>6. KnowsVoter(t, m.from) => b \in Stores(H)
  BY <1>1, <1>3, NotedTrue
<1> HIDE DEF a, b
<1>7. QED
  BY <1>2, <1>3, <1>5, <1>6

\* ProcessLeaderProbeReply.
LEMMA ProcessLeaderProbeReplyOK ==
    ASSUME NEW H, NEW n \in Voters, Self(n) \in H, NEW s \in Stores(H), NEW m
    PROVE  ProcessLeaderProbeReply(n, s, m) \in Stores(H)
<1> DEFINE t == [s EXCEPT !.leader = Self(n), !.leaderInst = 0]
<1>1. t \in Stores(H)
  BY LeaderOK DEF LeaderInstances
<1>2. ProcessLeaderProbeReply(n, s, m) \in {s, t}
  BY DEF ProcessLeaderProbeReply
<1>3. QED
  BY <1>1, <1>2

\* ProcessJoin.
LEMMA ProcessJoinOK ==
    ASSUME NEW H, H \subseteq Voters \X Nat, NEW s \in Stores(H), NEW m, MessageOK(H, m)
    PROVE  ProcessJoin(s, m) \in Stores(H)
BY NotedTrue DEF ProcessJoin, MessageOK

\* The progress of one replica.
LEMMA ProgressOK ==
    ASSUME NEW H, NEW s \in Stores(H), NEW i, NEW q \in SeqNumbers
    PROVE  [s EXCEPT !.replicas[i].seq = q] \in Stores(H)
<1> DEFINE rs == [s.replicas EXCEPT ![i].seq = q]
<1>1. rs \in ReplicaSets(H)
  BY SequenceSet DEF Stores
<1>2. [s EXCEPT !.replicas[i].seq = q] = [s EXCEPT !.replicas = rs]
  OBVIOUS
<1> HIDE DEF rs
<1>3. [s EXCEPT !.replicas = rs] \in Stores(H)
  BY <1>1 DEF Stores
<1>4. QED
  BY <1>2, <1>3

\* ProcessProgressReply.
LEMMA ProcessProgressReplyOK ==
    ASSUME NEW H, NEW s \in Stores(H), NEW m, MessageOK(H, m), m.type = "ProgressReply"
    PROVE  ProcessProgressReply(s, m) \in Stores(H)
<1> DEFINE i == ReplicaIndex(s, m.from)
           t == [s EXCEPT !.replicas[i].seq = m.body.end]
           w == WriteAll(t, m.body.entries)
           u == [w EXCEPT !.highest = m.body.end]
<1>1. m.body.end \in Nat /\ m.body.entries \in SUBSET Sent /\ IsFiniteSet(m.body.entries)
  BY DEF MessageOK, BodyOK
<1>2. ProcessProgressReply(s, m) \in {s, t, u}
  <2>1. ProcessProgressReply(s, m) =
          IF s.phase # "BecomePrimary" \/ i = 0 THEN s
          ELSE IF s.replicas[i].seq >= m.body.end THEN s
          ELSE IF t.highest >= m.body.end THEN t ELSE u
    BY DEF ProcessProgressReply
  <2> HIDE DEF i, t, u
  <2>2. QED
    BY <2>1, Zenon
<1>3. t \in Stores(H)
  <2>1. m.body.end \in SeqNumbers
    BY <1>1 DEF SeqNumbers
  <2> DEFINE q == m.body.end
  <2> HIDE DEF i, q
  <2>2. [s EXCEPT !.replicas[i].seq = q] \in Stores(H)
    BY <2>1, ProgressOK DEF q
  <2>3. QED
    BY <2>2 DEF q
<1> HIDE DEF t
<1>4. w \in Stores(H)
  BY <1>1, <1>3, WriteAllOK
<1> HIDE DEF w
<1>5. u \in Stores(H)
  BY <1>1, <1>4, HighestOK
<1> HIDE DEF u
<1>6. QED
  BY <1>2, <1>3, <1>5

\* ProcessSyncReply.
LEMMA ProcessSyncReplyOK ==
    ASSUME NEW H, NEW s \in Stores(H), NEW m, MessageOK(H, m), m.type = "SyncReply"
    PROVE  ProcessSyncReply(s, m) \in Stores(H)
<1> DEFINE i == ReplicaIndex(s, m.from)
           q == Max({s.replicas[i].seq, m.body.seq})
           t == [s EXCEPT !.replicas[i].seq = q]
<1>1. SUFFICES ASSUME i # 0
               PROVE  t \in Stores(H)
  BY DEF ProcessSyncReply
<1>2. m.body.seq \in SeqNumbers
  BY DEF MessageOK, BodyOK, SeqNumbers
<1>3. s.replicas[i].seq \in SeqNumbers
  <2>1. i \in DOMAIN s.replicas
    BY <1>1, ReplicaIndexOK
  <2>2. s.replicas \in Seq(ReplicaType(H))
    BY DEF Stores, ReplicaSets
  <2> HIDE DEF i
  <2>3. s.replicas[i] \in ReplicaType(H)
    BY <2>1, <2>2
  <2>4. QED
    BY <2>3 DEF ReplicaType
<1> HIDE DEF i
<1>4. q \in SeqNumbers
  <2>1. SeqNumbers \subseteq Int
    BY DEF SeqNumbers
  <2>2. q \in {s.replicas[i].seq, m.body.seq}
    BY <1>2, <1>3, <2>1, MaxOfTwo
  <2>3. QED
    BY <1>2, <1>3, <2>2
<1> HIDE DEF q
<1>5. QED
  BY <1>4, ProgressOK

\* ProcessMessage.
LEMMA ProcessMessageOK ==
    ASSUME NEW H, H \subseteq Voters \X Nat, NEW n \in Voters, Self(n) \in H, NEW s \in Stores(H),
           NEW m, MessageOK(H, m), m.type \in Replies \cup {"Join", "Fault"}
    PROVE  ProcessMessage(n, s, m) \in Stores(H)
<1>1. CASE m.type = "ConfigQueryReply"
  <2>1. ProcessMessage(n, s, m) = UpdateReplicaSet(n, s, m.body)
    BY <1>1 DEF ProcessMessage
  <2>2. m.body \in Configurations(H)
    BY <1>1 DEF MessageOK, BodyOK
  <2>3. QED
    BY <2>1, <2>2, UpdateReplicaSetOK
<1>2. CASE m.type = "IntroduceReply"
  <2>1. ProcessMessage(n, s, m) = ProcessIntroduceReply(n, s, m)
    BY <1>2 DEF ProcessMessage
  <2>2. QED
    BY <1>2, <2>1, ProcessIntroduceReplyOK
<1>3. CASE m.type = "BootstrapReply"
  <2>1. ProcessMessage(n, s, m) = ProcessBootstrapReply(n, s, m)
    BY <1>3 DEF ProcessMessage
  <2>2. QED
    BY <1>3, <2>1, ProcessBootstrapReplyOK
<1>4. CASE m.type = "LeaderProbeReply"
  <2>1. ProcessMessage(n, s, m) = ProcessLeaderProbeReply(n, s, m)
    BY <1>4 DEF ProcessMessage
  <2>2. QED
    BY <2>1, ProcessLeaderProbeReplyOK
<1>5. CASE m.type = "Join"
  <2>1. ProcessMessage(n, s, m) = ProcessJoin(s, m)
    BY <1>5 DEF ProcessMessage
  <2>2. QED
    BY <2>1, ProcessJoinOK
<1>6. CASE m.type = "ProgressReply"
  <2>1. ProcessMessage(n, s, m) = ProcessProgressReply(s, m)
    BY <1>6 DEF ProcessMessage
  <2>2. QED
    BY <1>6, <2>1, ProcessProgressReplyOK
<1>7. CASE m.type = "SyncReply"
  <2>1. ProcessMessage(n, s, m) = ProcessSyncReply(s, m)
    BY <1>7 DEF ProcessMessage
  <2>2. QED
    BY <1>7, <2>1, ProcessSyncReplyOK
<1>8. CASE m.type = "Fault"
  <2>1. ProcessMessage(n, s, m) = UpdateDownVoters(n, s, {m.body})
    BY <1>8 DEF ProcessMessage
  <2>2. QED
    BY <2>1, UpdateDownVotersOK
<1>9. QED
  BY <1>1, <1>2, <1>3, <1>4, <1>5, <1>6, <1>7, <1>8 DEF Replies

-----------------------------------------------------------------------------
(***************************************************************************)
(* Steps.                                                                  *)
(***************************************************************************)

Types ==
    /\ instance \in [Voters -> 0..MaxInstance] /\ up \subseteq Voters /\ ticks \subseteq Ticks
    /\ writes \in Nat
    /\ store \in [Voters -> Stores(Started)]
    /\ \A m \in msgs : MessageOK(Started, m)

\* Instances that were started.
LEMMA StartedOK ==
    ASSUME instance \in [Voters -> 0..MaxInstance]
    PROVE  Started \subseteq Voters \X Nat /\ \A v \in Voters : <<v, 0>> \in Started /\ Self(v) \in Started
BY BoundsAssumption DEF Started, Self, Id, Inst

\* More instances, more stores ...
LEMMA StoresGrow ==
    ASSUME NEW H, NEW G, H \subseteq G, NEW s \in Stores(H)
    PROVE  s \in Stores(G)
<1>1. s.replicas \in ReplicaSets(G)
  <2>1. s.replicas \in ReplicaSets(H)
    BY DEF Stores
  <2>2. ReplicaType(H) \subseteq ReplicaType(G)
    BY DEF ReplicaType
  <2>3. QED
    BY <2>1, <2>2 DEF ReplicaSets
<1>2. s.voters \in VoterSets(G)
  BY DEF Stores, VoterSets
<1>3. s.done \in SUBSET DoneWrites(G)
  <2>1. DoneWrites(H) \subseteq DoneWrites(G)
    BY DEF DoneWrites
  <2>2. QED
    BY <2>1 DEF Stores
<1>4. s.leader \in G
  BY DEF Stores
<1>5. QED
  BY <1>1, <1>2, <1>3, <1>4 DEF Stores

\* ... and more messages.
LEMMA MessagesGrow ==
    ASSUME NEW H, NEW G, H \subseteq G, NEW m, MessageOK(H, m)
    PROVE  MessageOK(G, m)
<1>1. Configurations(H) \subseteq Configurations(G)
  <2>1. \A c \in Configurations(H) : c \in Configurations(G)
    BY DEF Configurations
  <2>2. QED
    BY <2>1
<1>2. QED
  BY <1>1 DEF MessageOK, BodyOK

\* A new store.
LEMMA NewStoreOK ==
    ASSUME NEW H, \A v \in Voters : <<v, 0>> \in H, NEW n \in Voters, NEW i, <<n, i>> \in H
    PROVE  NewStore(n, i) \in Stores(H)
<1> DEFINE vs == [v \in Voters |-> IF v = n THEN NoVoter ELSE VoterInfo(0)]
           es == [k \in Keys |-> StoreEntry]
           rs == <<>>
           leader == <<n, i>>
<1>1. vs \in VoterSets(H)
  <2>1. VoterInfo(0) \in Infos /\ VoterInfo(0).inst = 0
    BY DEF VoterInfo, Infos
  <2>2. QED
    BY <2>1 DEF VoterSets
<1>2. es \in [Keys -> Entries]
  BY DEF StoreEntry, Entries
<1>3. rs \in ReplicaSets(H)
  BY DEF ReplicaSets
<1>4. leader \in H
  OBVIOUS
<1> HIDE DEF vs, es, rs, leader
<1>5. ASSUME NEW no \in BOOLEAN
      PROVE  [phase |-> "Introduce", leader |-> leader, leaderInst |-> 0,
              gen |-> 0, epoch |-> 0, replicas |-> rs,
              highest |-> 0, confSeq |-> 0, bootWait |-> no, globalTime |-> no,
              voters |-> vs, entries |-> es,
              done |-> {}, asserts |-> {}, alone |-> no] \in Stores(H)
  BY <1>1, <1>2, <1>3, <1>4 DEF Stores, Phases, LeaderInstances
<1>6. [phase |-> "Introduce", leader |-> leader, leaderInst |-> 0,
       gen |-> 0, epoch |-> 0, replicas |-> rs,
       highest |-> 0, confSeq |-> 0, bootWait |-> FALSE, globalTime |-> FALSE,
       voters |-> vs, entries |-> es,
       done |-> {}, asserts |-> {}, alone |-> FALSE] \in Stores(H)
  BY <1>5, Zenon
<1>7. QED
  BY <1>6, Zenon DEF NewStore, vs, es, rs, leader

\* The inputs of the state machine.
LEMMA InputsOK ==
    ASSUME NEW n, NEW s, NEW in \in Inputs(n, s)
    PROVE  in.tick \in LeaderInstances
<1>1. \A w \in BOOLEAN : \A c, D : Input(c, w, D).tick = c
  BY DEF Input
<1>2. \A c, D : Input(c, FALSE, D).tick = c /\ Input(c, TRUE, D).tick = c
  BY <1>1, Zenon
<1>3. \E c \in {0} \cup Ticks : \E D : in = Input(c, FALSE, D) \/ in = Input(c, TRUE, D)
  <2> DEFINE No(c, D) == Input(c, FALSE, D)
             Yes(c, D) == Input(c, TRUE, D)
             ahead == {r.node : r \in {q \in Ahead(n, s) : ~q.down}}
             found == SUBSET {x \in ahead : ~Alive(x)}
             free == Ticks \ ticks
  <2>1. Inputs(n, s) =
          CASE s.phase = "Secondary" ->
                 {No(0, D) : D \in found \ {ahead}} \cup {No(c, ahead) : c \in {k \in free : ahead \in found}}
            [] s.phase = "BecomeSecondary" /\ s.bootWait -> {No(0, {})} \cup {Yes(c, {}) : c \in free}
            [] OTHER -> {No(0, {})}
    BY Zenon DEF Inputs
  <2> HIDE DEF No, Yes, ahead, found
  <2>2. \E c \in {0} \cup Ticks : \E D : in = No(c, D) \/ in = Yes(c, D)
    BY <2>1
  <2>3. QED
    BY <2>2, Zenon DEF No, Yes
<1>4. PICK c \in {0} \cup Ticks : \E D : in = Input(c, FALSE, D) \/ in = Input(c, TRUE, D)
  BY <1>3, Zenon
<1>5. in.tick = c
  BY <1>2, <1>4, Zenon
<1>6. QED
  BY <1>5 DEF LeaderInstances

\* A step that ends in RunStateMachine.
LEMMA RunOK ==
    ASSUME Types, NEW n \in Voters, NEW s \in Stores(Started),
           NEW rest \in SUBSET msgs,
           NEW replies, \A r \in replies : r.to \in Started /\ BodyOK(Started, r.type, r.body),
           NEW probes, \A m \in probes : MessageOK(Started, m),
           Run(n, s, rest, replies, probes), UNCHANGED <<instance, up>>, writes' \in Nat
    PROVE  Types'
<1> DEFINE H == Started
<1>1. H \subseteq Voters \X Nat /\ Self(n) \in H
  BY StartedOK DEF Types
<1>2. Started' = H
  BY DEF Started
<1>3. PICK in \in Inputs(n, s) :
        /\ Continue(n, RunStateMachine(n, s, in), rest, replies, probes)
        /\ ticks' = ticks \cup (IF in.tick # 0 /\ store'[n].leaderInst = in.tick THEN {in.tick} ELSE {})
  BY DEF Run
<1>4. in.tick \in LeaderInstances
  BY InputsOK
<1> DEFINE t == RunStateMachine(n, s, in)
           u == [t EXCEPT !.done = {}, !.alone = FALSE]
<1> HIDE DEF H
<1>5. t \in Stores(H)
  BY <1>1, <1>4, RunStateMachineOK DEF H
<1>6. PICK S \in SUBSET (Wanted(n, t) \cup probes) :
        msgs' = rest \cup S \cup {Message(n, t, r.type, r.to, r.body) : r \in replies}
  BY <1>3 DEF Continue
<1>7. store' = [store EXCEPT ![n] = u]
  BY <1>3 DEF Continue
<1> HIDE DEF t
<1>8. u \in Stores(H)
  <2>1. \A b \in BOOLEAN : [t EXCEPT !.done = {}, !.alone = b] \in Stores(H)
    BY <1>5 DEF Stores
  <2>2. QED
    BY <2>1, Zenon
<1> HIDE DEF u
<1>9. store' \in [Voters -> Stores(H)]
  BY <1>7, <1>8 DEF Types, H
<1>10. \A m \in msgs' : MessageOK(H, m)
  <2>1. \A m \in Wanted(n, t) : MessageOK(H, m)
    BY <1>1, <1>5, WantedOK
  <2>2. \A r \in replies : MessageOK(H, Message(n, t, r.type, r.to, r.body))
    BY <1>1, MessageIsOK DEF H
  <2>3. \A m \in rest \cup probes : MessageOK(H, m)
    BY DEF Types, H
  <2>4. QED
    BY <1>6, <2>1, <2>2, <2>3
<1>11. ticks' \subseteq Ticks
  <2>1. ticks \subseteq Ticks
    BY DEF Types
  <2>2. in.tick # 0 => in.tick \in Ticks
    BY <1>4 DEF LeaderInstances
  <2>3. QED
    BY <1>3, <2>1, <2>2
<1>12. QED
  BY <1>2, <1>9, <1>10, <1>11 DEF Types

\* The target of a message that is delivered.
LEMMA TargetOK ==
    ASSUME Types, NEW m \in msgs, Alive(m.to)
    PROVE  Id(m.to) \in Voters /\ Self(Id(m.to)) \in Started /\ store[Id(m.to)] \in Stores(Started)
BY StartedOK DEF Types, Alive

\* Start.
LEMMA StartOK ==
    ASSUME Types, NEW n \in Voters, Start(n)
    PROVE  Types'
<1>1. instance[n] \in 0..MaxInstance /\ instance[n] < MaxInstance
  BY DEF Types, Start
<1>2. instance' \in [Voters -> 0..MaxInstance] /\ instance'[n] = instance[n] + 1
  BY <1>1, BoundsAssumption DEF Types, Start
<1>3. \A v \in Voters : instance[v] \in Int /\ instance'[v] \in Int /\ instance[v] <= instance'[v]
  BY <1>1, <1>2, BoundsAssumption DEF Types, Start
<1>4. Started \subseteq Started'
  BY <1>3 DEF Started, Id, Inst
<1>5. \A v \in Voters : <<v, 0>> \in Started'
  BY <1>4, StartedOK DEF Types
<1>6. <<n, instance[n] + 1>> \in Started'
  BY <1>1, <1>2 DEF Started, Id, Inst
<1> DEFINE G == Started'
           i == instance[n] + 1
<1> HIDE DEF G, i
<1>7. NewStore(n, i) \in Stores(G)
  BY <1>5, <1>6, NewStoreOK DEF G, i
<1>8. \A v \in Voters : store[v] \in Stores(G)
  BY <1>4, StoresGrow DEF Types, G
<1>9. store' \in [Voters -> Stores(G)]
  <2>1. store' = [store EXCEPT ![n] = NewStore(n, i)] /\ store \in [Voters -> Stores(Started)]
    BY DEF Start, Types, i
  <2>2. QED
    BY <1>7, <1>8, <2>1
<1>10. \A m \in msgs' : MessageOK(G, m)
  BY <1>4, MessagesGrow DEF Types, Start, G
<1>11. up' \subseteq Voters /\ ticks' \subseteq Ticks /\ writes' \in Nat
  BY DEF Types, Start
<1>12. QED
  BY <1>2, <1>9, <1>10, <1>11 DEF Types, G

\* Fail.
LEMMA FailOK ==
    ASSUME Types, NEW n \in Voters, Fail(n)
    PROVE  Types'
<1>1. Started' = Started
  BY DEF Started, Fail
<1>2. NewStore(n, 0) \in Stores(Started)
  BY StartedOK, NewStoreOK DEF Types
<1>3. store' \in [Voters -> Stores(Started)]
  BY <1>2 DEF Types, Fail
<1>4. QED
  BY <1>1, <1>3 DEF Types, Fail

\* Timer.
LEMMA TimerOK ==
    ASSUME Types, NEW n \in Voters, Timer(n)
    PROVE  Types'
<1>1. store[n] \in Stores(Started) /\ writes \in Nat
  BY DEF Types
<1>2. Run(n, store[n], msgs, {}, {}) /\ UNCHANGED <<instance, up, writes>>
  BY DEF Timer
<1>3. QED
  BY <1>1, <1>2, RunOK

\* GlobalTime.
LEMMA GlobalTimeOK ==
    ASSUME Types, NEW n \in Voters, GlobalTime(n)
    PROVE  Types'
<1>1. Started' = Started
  BY DEF Started, GlobalTime
<1>2. \A b \in BOOLEAN : [store[n] EXCEPT !.globalTime = b] \in Stores(Started)
  BY DEF Types, Stores
<1>3. [store[n] EXCEPT !.globalTime = TRUE] \in Stores(Started)
  BY <1>2, Zenon
<1>4. store' = [store EXCEPT ![n] = [store[n] EXCEPT !.globalTime = TRUE]]
  BY DEF GlobalTime
<1> DEFINE t == [store[n] EXCEPT !.globalTime = TRUE]
<1> HIDE DEF t
<1>5. store' = [store EXCEPT ![n] = t] /\ t \in Stores(Started)
  BY <1>3, <1>4 DEF t
<1>6. store' \in [Voters -> Stores(Started)]
  BY <1>5 DEF Types
<1>7. QED
  BY <1>1, <1>6 DEF Types, GlobalTime

\* ClientWrite.
LEMMA ClientWriteOK ==
    ASSUME Types, NEW n \in Voters, ClientWrite(n)
    PROVE  Types'
<1> DEFINE r == Writes[writes + 1]
           s == ProcessWriteRequest(store[n], r.key, r.check, r.value)
<1>1. store[n] \in Stores(Started) /\ writes \in Nat /\ writes' \in Nat
  BY DEF Types, ClientWrite
<1>2. r \in ToSet(Writes)
  <2>1. writes + 1 \in 1..Len(Writes)
    BY <1>1, WritesAssumption DEF ClientWrite
  <2>2. QED
    BY <2>1, WritesAssumption DEF ToSet
<1>3. r.key \in Keys /\ r.check \in Int /\ r.value \in Nat
  BY <1>2, WritesAssumption DEF Keys
<1>4. Run(n, s, msgs, {}, {}) /\ UNCHANGED <<instance, up>>
  BY DEF ClientWrite
<1> HIDE DEF r
<1>5. s \in Stores(Started)
  BY <1>1, <1>3, ProcessWriteRequestOK
<1> HIDE DEF s
<1>6. QED
  BY <1>1, <1>4, <1>5, RunOK

\* ProcessRequestMessage.
LEMMA ProcessRequestMessageOK ==
    ASSUME Types, NEW m \in msgs, ProcessRequestMessage(m)
    PROVE  Types'
<1> DEFINE n == Id(m.to)
           s == ProcessMessageCommon(n, store[n], m)
           h == ProcessRequest(n, s, m)
           reply == IF h.reply = <<>> THEN {}
                    ELSE {[type |-> h.reply[1], to |-> m.from, body |-> h.reply[2]]}
<1>1. /\ m.type \in Requests /\ Alive(m.to)
      /\ Run(n, h.s, msgs \ {m}, reply, h.probes) /\ UNCHANGED <<instance, up, writes>>
  BY DEF ProcessRequestMessage
<1>2. /\ n \in Voters /\ Self(n) \in Started /\ store[n] \in Stores(Started)
      /\ Started \subseteq Voters \X Nat /\ MessageOK(Started, m) /\ writes \in Nat
  BY <1>1, TargetOK, StartedOK DEF Types
<1> HIDE DEF n
<1>3. s \in Stores(Started)
  BY <1>2, ProcessMessageCommonOK
<1> HIDE DEF s
<1>4. AnswerOK(Started, h)
  BY <1>1, <1>2, <1>3, ProcessRequestOK
<1> HIDE DEF h
<1>5. /\ h.s \in Stores(Started) /\ \A p \in h.probes : MessageOK(Started, p)
      /\ \A r \in reply : r.to \in Started /\ BodyOK(Started, r.type, r.body)
  BY <1>2, <1>4 DEF AnswerOK, MessageOK
<1> HIDE DEF reply
<1>6. QED
  BY <1>1, <1>2, <1>5, RunOK

\* ProcessReply.
LEMMA ProcessReplyOK ==
    ASSUME Types, NEW m \in msgs, ProcessReply(m)
    PROVE  Types'
<1> DEFINE n == Id(m.to)
           s == ProcessMessageCommon(n, store[n], m)
           t == ProcessMessage(n, s, m)
<1>1. /\ m.type \in Replies \cup {"Join", "Fault"} /\ Alive(m.to)
      /\ Run(n, t, msgs \ {m}, {}, {}) /\ UNCHANGED <<instance, up, writes>>
  BY DEF ProcessReply
<1>2. /\ n \in Voters /\ Self(n) \in Started /\ store[n] \in Stores(Started)
      /\ Started \subseteq Voters \X Nat /\ MessageOK(Started, m) /\ writes \in Nat
  BY <1>1, TargetOK, StartedOK DEF Types
<1> HIDE DEF n
<1>3. s \in Stores(Started)
  BY <1>2, ProcessMessageCommonOK
<1> HIDE DEF s
<1>4. t \in Stores(Started)
  BY <1>1, <1>2, <1>3, ProcessMessageOK
<1> HIDE DEF t
<1>5. QED
  BY <1>1, <1>2, <1>4, RunOK

\* ReportDownVoter.
LEMMA ReportDownVoterOK ==
    ASSUME Types, NEW m \in msgs, ReportDownVoter(m)
    PROVE  Types'
<1> DEFINE n == Id(m.to)
           t == ProcessMessage(n, store[n], m)
<1>1. /\ m.type \in Replies \cup {"Join", "Fault"} /\ Alive(m.to)
      /\ Run(n, t, msgs \ {m}, {}, {}) /\ UNCHANGED <<instance, up, writes>>
  BY DEF ReportDownVoter
<1>2. /\ n \in Voters /\ Self(n) \in Started /\ store[n] \in Stores(Started)
      /\ Started \subseteq Voters \X Nat /\ MessageOK(Started, m) /\ writes \in Nat
  BY <1>1, TargetOK, StartedOK DEF Types
<1> HIDE DEF n
<1>3. t \in Stores(Started)
  BY <1>1, <1>2, ProcessMessageOK
<1> HIDE DEF t
<1>4. QED
  BY <1>1, <1>2, <1>3, RunOK

\* RouteFault.
LEMMA RouteFaultOK ==
    ASSUME Types, NEW m \in msgs, RouteFault(m)
    PROVE  Types'
<1> DEFINE fault == [type |-> "Fault", from |-> m.to, to |-> m.from, down |-> {}, body |-> m.to]
<1>1. Started' = Started
  BY DEF Started, RouteFault
<1>2. MessageOK(Started, fault)
  <2>1. MessageOK(Started, m)
    BY DEF Types
  <2>2. QED
    BY <2>1 DEF MessageOK, BodyOK
<1>3. msgs' = (msgs \ {m}) \cup {fault}
  BY DEF RouteFault
<1> HIDE DEF fault
<1>4. \A p \in msgs' : MessageOK(Started, p)
  BY <1>2, <1>3 DEF Types
<1>5. QED
  BY <1>1, <1>4 DEF Types, RouteFault

\* Lose.
LEMMA LoseOK ==
    ASSUME Types, NEW m \in msgs, Lose(m)
    PROVE  Types'
<1>1. Started' = Started
  BY DEF Started, Lose
<1>2. QED
  BY <1>1 DEF Types, Lose

-----------------------------------------------------------------------------
(***************************************************************************)
(* The theorem.                                                            *)
(***************************************************************************)

\* Types hold at first.
LEMMA InitTypes ==
    ASSUME Init
    PROVE  Types
<1>1. instance \in [Voters -> 0..MaxInstance]
  BY BoundsAssumption DEF Init
<1>2. \A n \in Voters : NewStore(n, 0) \in Stores(Started)
  BY <1>1, StartedOK, NewStoreOK
<1>3. store \in [Voters -> Stores(Started)]
  BY <1>2 DEF Init
<1>4. QED
  BY <1>1, <1>3 DEF Init, Types

\* Every step keeps them.
LEMMA NextTypes ==
    ASSUME Types, [Next]_vars
    PROVE  Types'
<1>1. ASSUME NEW n \in Voters, Start(n) \/ Fail(n) \/ Timer(n) \/ GlobalTime(n) \/ ClientWrite(n)
      PROVE  Types'
  BY <1>1, StartOK, FailOK, TimerOK, GlobalTimeOK, ClientWriteOK
<1>2. ASSUME NEW m \in msgs,
             \/ ProcessRequestMessage(m) \/ ProcessReply(m)
             \/ RouteFault(m) \/ ReportDownVoter(m) \/ Lose(m)
      PROVE  Types'
  BY <1>2, ProcessRequestMessageOK, ProcessReplyOK, RouteFaultOK, ReportDownVoterOK, LoseOK
<1>3. CASE UNCHANGED vars
  <2>1. Started' = Started
    BY <1>3 DEF Started, vars
  <2>2. QED
    BY <1>3, <2>1 DEF Types, vars
<1>4. QED
  BY <1>1, <1>2, <1>3 DEF Next

\* They say what TypeOK does.
LEMMA TypesSuffice ==
    ASSUME Types
    PROVE  TypeOK
<1>1. ASSUME NEW n \in up
      PROVE  LET s == store[n]
                 ids == [i \in DOMAIN s.replicas |-> Id(s.replicas[i].node)]
             IN  /\ s.phase \in Phases /\ s.leaderInst \in {0} \cup Ticks
                 /\ \A r \in ToSet(s.replicas) : Inst(r.node) <= instance[Id(r.node)] /\ r.seq >= -1
                 /\ \A v \in Voters : s.voters[v].inst <= instance[v]
                 /\ IsInjective(ids)
  <2> DEFINE s == store[n]
             ids == [i \in DOMAIN s.replicas |-> Id(s.replicas[i].node)]
  <2>1. s \in Stores(Started)
    BY DEF Types
  <2> HIDE DEF s
  <2>2. /\ s.phase \in Phases /\ s.leaderInst \in {0} \cup Ticks
        /\ s.replicas \in ReplicaSets(Started) /\ s.voters \in VoterSets(Started)
    BY <2>1 DEF Stores, LeaderInstances
  <2>3. \A r \in ToSet(s.replicas) : Inst(r.node) <= instance[Id(r.node)] /\ r.seq >= -1
    <3>1. TAKE r \in ToSet(s.replicas)
    <3>2. r.node \in Started /\ r.seq \in SeqNumbers
      BY <2>2, Members
    <3>3. QED
      BY <3>2 DEF Started, SeqNumbers
  <2>4. \A v \in Voters : s.voters[v].inst <= instance[v]
    <3>1. TAKE v \in Voters
    <3>2. instance[v] \in 0..MaxInstance
      BY DEF Types
    <3>3. CASE s.voters[v] = NoVoter
      BY <3>2, <3>3, BoundsAssumption DEF NoVoter
    <3>4. CASE s.voters[v] # NoVoter
      <4>1. <<v, s.voters[v].inst>> \in Started
        BY <2>2, <3>4 DEF VoterSets
      <4>2. QED
        BY <4>1 DEF Started, Id, Inst
    <3>5. QED
      BY <3>3, <3>4
  <2>5. IsInjective(ids)
    BY <2>2 DEF ReplicaSets, IsInjective
  <2>6. QED
    BY <2>2, <2>3, <2>4, <2>5 DEF s
<1>2. QED
  BY <1>1 DEF Types, TypeOK

\* TypeOK holds always: no store has heard of an instance that was never started, and a
\* replica set names a voter once (VoterStore.cpp, Add).
THEOREM TypeCorrect == Spec => []TypeOK
<1>1. Init => Types
  BY InitTypes
<1>2. Types /\ [Next]_vars => Types'
  BY NextTypes
<1>3. Types => TypeOK
  BY TypesSuffice
<1>4. QED
  BY <1>1, <1>2, <1>3, PTL DEF Spec

=============================================================================
