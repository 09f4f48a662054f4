------------------------- MODULE TokenRing_proofs --------------------------
(***************************************************************************)
(* Proofs about TokenRing, for any ids, nodes and bounds.                  *)
(***************************************************************************)
EXTENDS TokenRing, TLAPS, WellFoundedInduction, SequenceTheorems, FiniteSetTheorems

-----------------------------------------------------------------------------
(***************************************************************************)
(* Numbers on the circle.                                                  *)
(***************************************************************************)

\* A number, around the circle.
Around(x) == x % IdCount

\* Numbers next to the circle.
LEMMA AroundIs ==
    ASSUME NEW x \in Int
    PROVE  /\ Around(x) \in Ids
           /\ 0 <= x /\ x < IdCount => Around(x) = x
           /\ IdCount <= x /\ x < 2 * IdCount => Around(x) = x - IdCount
           /\ -IdCount <= x /\ x < 0 => Around(x) = x + IdCount
<1>1. IdCount \in Nat /\ IdCount > 0
    BY IdAssumption
<1>2. Around(x) \in Ids
    BY <1>1 DEF Ids, Around
<1> QED  BY <1>1, <1>2 DEF Around

\* Ids are numbers.
LEMMA IdIs ==
    /\ IdCount \in Nat /\ IdCount > 0
    /\ \A i : i \in Ids <=> i \in Int /\ 0 <= i /\ i < IdCount
BY IdAssumption DEF Ids

\* The distance between two ids.
LEMMA SuccDistIs ==
    ASSUME NEW a \in Ids, NEW b \in Ids
    PROVE  /\ SuccDist(a, b) = IF b >= a THEN b - a ELSE b - a + IdCount
           /\ SuccDist(a, b) \in Ids
<1>1. SuccDist(a, b) = Around(b - a) /\ b - a \in Int /\ -IdCount <= b - a /\ b - a < IdCount
    BY IdIs DEF SuccDist, Around
<1> QED  BY <1>1, AroundIs, IdIs

\* The id at a distance.
LEMMA WalkIs ==
    ASSUME NEW a \in Ids, NEW d \in Int, 0 <= d, d <= IdCount
    PROVE  /\ Walk(TRUE, a, d) = IF a + d < IdCount THEN a + d ELSE (a + d) - IdCount
           /\ Walk(FALSE, a, d) = IF a >= d THEN a - d ELSE a - d + IdCount
           /\ \A succ \in BOOLEAN : Walk(succ, a, d) \in Ids
<1>1. a \in Int /\ 0 <= a /\ a < IdCount /\ IdCount \in Nat
    BY IdIs
<1>2. Walk(TRUE, a, d) = (IF a + d < IdCount THEN a + d ELSE (a + d) - IdCount) /\ Walk(TRUE, a, d) \in Ids
    <2> DEFINE x == a + d
    <2>1. x \in Int /\ 0 <= x /\ x < 2 * IdCount
        BY <1>1
    <2>2. Walk(TRUE, a, d) = Around(x)
        BY DEF Walk, Around
    <2> HIDE DEF x
    <2>3. Around(x) = (IF x < IdCount THEN x ELSE x - IdCount) /\ Around(x) \in Ids
        BY <1>1, <2>1, AroundIs
    <2>4. Around(x) = IF a + d < IdCount THEN a + d ELSE (a + d) - IdCount
        BY <2>3 DEF x
    <2> QED  BY <2>2, <2>3, <2>4, Zenon
<1>3. Walk(FALSE, a, d) = (IF a >= d THEN a - d ELSE a - d + IdCount) /\ Walk(FALSE, a, d) \in Ids
    <2> DEFINE x == a - d
    <2>1. x \in Int /\ -IdCount <= x /\ x < IdCount /\ (a >= d <=> x >= 0)
        BY <1>1
    <2>2. Walk(FALSE, a, d) = Around(x)
        BY DEF Walk, Around
    <2> HIDE DEF x
    <2>3. Around(x) = (IF x >= 0 THEN x ELSE x + IdCount) /\ Around(x) \in Ids
        BY <1>1, <2>1, AroundIs
    <2> QED  BY <2>1, <2>2, <2>3 DEF x
<1>4. \A succ \in BOOLEAN : Walk(succ, a, d) = Walk(TRUE, a, d) \/ Walk(succ, a, d) = Walk(FALSE, a, d)
    BY DEF Walk
<1>5. ASSUME NEW succ \in BOOLEAN PROVE Walk(succ, a, d) \in Ids
    BY <1>2, <1>3, <1>4
<1> QED  BY <1>2, <1>3, <1>5

\* The same for a distance in the ring.
LEMMA WalkIn ==
    ASSUME NEW a \in Ids, NEW d \in Ids
    PROVE  /\ Walk(TRUE, a, d) = (IF a + d < IdCount THEN a + d ELSE (a + d) - IdCount)
           /\ Walk(FALSE, a, d) = (IF a >= d THEN a - d ELSE a - d + IdCount)
           /\ Walk(TRUE, a, d) \in Ids /\ Walk(FALSE, a, d) \in Ids
<1>1. d \in Int /\ 0 <= d /\ d <= IdCount
    BY IdIs
<1> QED  BY <1>1, WalkIs

-----------------------------------------------------------------------------
(***************************************************************************)
(* Ranges.                                                                 *)
(***************************************************************************)

\* The ids of a range, by number.
LEMMA InRange ==
    ASSUME NEW b \in Ids, NEW e \in Ids
    PROVE  /\ NodeIdRange(b, e) \subseteq Ids /\ b \in NodeIdRange(b, e) /\ e \in NodeIdRange(b, e)
           /\ \A i \in Ids : i \in NodeIdRange(b, e) <=>
                  IF b <= e THEN b <= i /\ i <= e ELSE b <= i \/ i <= e
<1>1. /\ b \in Int /\ 0 <= b /\ b < IdCount /\ e \in Int /\ 0 <= e /\ e < IdCount /\ IdCount \in Nat
      /\ SuccDist(b, e) = IF e >= b THEN e - b ELSE e - b + IdCount
    BY SuccDistIs, IdIs
<1>2. ASSUME NEW i \in Ids
      PROVE  i \in NodeIdRange(b, e) <=> IF b <= e THEN b <= i /\ i <= e ELSE b <= i \/ i <= e
    <2>1. i \in Int /\ 0 <= i /\ i < IdCount /\ SuccDist(b, i) = IF i >= b THEN i - b ELSE i - b + IdCount
        BY SuccDistIs, IdIs
    <2>2. i \in NodeIdRange(b, e) <=> SuccDist(b, i) <= SuccDist(b, e)
        BY DEF NodeIdRange
    <2> QED  BY <1>1, <2>1, <2>2
<1>3. NodeIdRange(b, e) \subseteq Ids
    BY DEF NodeIdRange
<1> QED  BY <1>1, <1>2, <1>3

\* The ranges there are: one stretch of the circle, or none.
Ranges == {{}} \cup {NodeIdRange(b, e) : b \in Ids, e \in Ids}

\* The ends of a stretch that is not the whole circle are where it was cut.
LEMMA EndsOfCut ==
    ASSUME NEW b \in Ids, NEW e \in Ids, NodeIdRange(b, e) # Ids
    PROVE  Begin(NodeIdRange(b, e)) = b /\ End(NodeIdRange(b, e)) = e
<1> DEFINE r == NodeIdRange(b, e)
           In(i) == IF b <= e THEN b <= i /\ i <= e ELSE b <= i \/ i <= e
<1>1. /\ r \subseteq Ids /\ b \in r /\ e \in r /\ r # Ids
      /\ \A i \in Ids : i \in r <=> In(i)
    BY InRange
<1> HIDE DEF r
<1>2. PICK x \in Ids : ~In(x)
    BY <1>1
<1>3. /\ IdCount \in Nat /\ b \in Int /\ 0 <= b /\ b < IdCount /\ e \in Int /\ 0 <= e /\ e < IdCount
      /\ x \in Int /\ 0 <= x /\ x < IdCount
    BY IdIs
<1>4. ASSUME NEW i \in Ids
      PROVE  /\ Walk(FALSE, i, 1) = (IF i >= 1 THEN i - 1 ELSE i - 1 + IdCount) /\ Walk(FALSE, i, 1) \in Ids
             /\ Walk(TRUE, i, 1) = (IF i + 1 < IdCount THEN i + 1 ELSE (i + 1) - IdCount) /\ Walk(TRUE, i, 1) \in Ids
             /\ i \in Int /\ 0 <= i /\ i < IdCount
    <2>1. 1 \in Int /\ 0 <= 1 /\ 1 <= IdCount /\ i \in Int /\ 0 <= i /\ i < IdCount
        BY IdIs
    <2>2. /\ Walk(FALSE, i, 1) = (IF i >= 1 THEN i - 1 ELSE i - 1 + IdCount)
          /\ Walk(TRUE, i, 1) = (IF i + 1 < IdCount THEN i + 1 ELSE (i + 1) - IdCount)
        BY <2>1, WalkIs
    <2>3. Walk(FALSE, i, 1) \in Ids /\ Walk(TRUE, i, 1) \in Ids
        BY <2>1, WalkIs
    <2> QED  BY <2>1, <2>2, <2>3
<1>5. ~In(Walk(FALSE, b, 1)) /\ ~In(Walk(TRUE, e, 1))
    <2> DEFINE p == Walk(FALSE, b, 1)
               q == Walk(TRUE, e, 1)
    <2>1. p \in Int /\ p = (IF b >= 1 THEN b - 1 ELSE b - 1 + IdCount)
        BY <1>4, IdIs
    <2>2. q \in Int /\ q = (IF e + 1 < IdCount THEN e + 1 ELSE (e + 1) - IdCount)
        BY <1>4, IdIs
    <2> HIDE DEF p, q
    <2>3. ~In(p) /\ ~In(q)
        BY <1>2, <1>3, <2>1, <2>2
    <2> QED  BY <2>3 DEF p, q
<1>6. ASSUME NEW i \in Ids, In(i)
      PROVE  (~In(Walk(FALSE, i, 1)) => i = b) /\ (~In(Walk(TRUE, i, 1)) => i = e)
    <2> DEFINE p == Walk(FALSE, i, 1)
               q == Walk(TRUE, i, 1)
    <2>1. /\ p \in Int /\ p = (IF i >= 1 THEN i - 1 ELSE i - 1 + IdCount)
          /\ q \in Int /\ q = (IF i + 1 < IdCount THEN i + 1 ELSE (i + 1) - IdCount)
          /\ i \in Int /\ 0 <= i /\ i < IdCount
        BY <1>4, IdIs
    <2> HIDE DEF p, q
    <2>2. (~In(p) => i = b) /\ (~In(q) => i = e)
        BY <1>2, <1>3, <1>6, <2>1
    <2> QED  BY <2>2 DEF p, q
<1>7. /\ Walk(FALSE, b, 1) \notin r /\ \A i \in r : Walk(FALSE, i, 1) \notin r => i = b
      /\ Walk(TRUE, e, 1) \notin r /\ \A i \in r : Walk(TRUE, i, 1) \notin r => i = e
    <2> HIDE DEF In
    <2> QED  BY <1>1, <1>4, <1>5, <1>6
<1>8. Begin(r) = b
    BY <1>1, <1>7 DEF Begin
<1>9. End(r) = e
    BY <1>1, <1>7 DEF End
<1> QED  BY <1>8, <1>9 DEF r

\* A stretch goes from its begin to its end.
LEMMA RangeEnds ==
    ASSUME NEW r \in Ranges, r # {}
    PROVE  /\ Begin(r) \in Ids /\ End(r) \in Ids /\ r = NodeIdRange(Begin(r), End(r))
           /\ \A succ \in BOOLEAN : Edge(succ, r) \in Ids
<1>1. CASE r = Ids
    <2>1. 0 \in Ids /\ IdCount - 1 \in Ids
        BY IdIs
    <2>2. NodeIdRange(0, IdCount - 1) = Ids
        <3>1. 0 <= IdCount - 1 /\ \A i \in Ids : 0 <= i /\ i <= IdCount - 1
            BY IdIs
        <3>2. \A i \in Ids : i \in NodeIdRange(0, IdCount - 1)
            BY <2>1, <3>1, InRange
        <3> QED  BY <2>1, <3>2, InRange
    <2> QED  BY <1>1, <2>1, <2>2 DEF Begin, End, Edge
<1>2. CASE r # Ids
    <2>1. PICK b \in Ids, e \in Ids : r = NodeIdRange(b, e)
        BY DEF Ranges
    <2> QED  BY <1>2, <2>1, EndsOfCut DEF Edge
<1> QED  BY <1>1, <1>2

\* A range that grows up to an id outside of it keeps its ids.
LEMMA EdgeOut ==
    ASSUME NEW r \in Ranges, NEW n \in r, NEW i \in Ids, i \notin r, NEW succ \in BOOLEAN
    PROVE  n \in Until(succ, r, i)
<1> DEFINE b == Begin(r)
           e == End(r)
<1>1. b \in Ids /\ e \in Ids /\ r = NodeIdRange(b, e)
    BY RangeEnds
<1> HIDE DEF b, e
<1>2. n \in Ids /\ i \notin NodeIdRange(b, e) /\ n \in NodeIdRange(b, e)
    BY <1>1, InRange
<1>3. n \in NodeIdRange(b, i) /\ n \in NodeIdRange(i, e)
    BY <1>1, <1>2, InRange, IdIs
<1> QED  BY <1>3 DEF Until, b, e

-----------------------------------------------------------------------------
(***************************************************************************)
(* What belongs to a node on the way to another.                           *)
(***************************************************************************)

\* The number of ids between two ids, in either direction.
LEMMA DistIs ==
    ASSUME NEW a \in Ids, NEW b \in Ids
    PROVE  /\ Dist(TRUE, a, b) = SuccDist(a, b) /\ Dist(FALSE, a, b) = SuccDist(b, a)
           /\ SuccDist(a, b) \in Int /\ SuccDist(b, a) \in Int
           /\ SuccDist(a, b) = (IF b >= a THEN b - a ELSE b - a + IdCount)
           /\ SuccDist(b, a) = (IF a >= b THEN a - b ELSE a - b + IdCount)
           /\ \A succ \in BOOLEAN : Dist(succ, a, b) \in Ids
<1>1. SuccDist(a, b) \in Ids /\ SuccDist(b, a) \in Ids
    BY SuccDistIs
<1>2. SuccDist(a, b) \in Int /\ SuccDist(b, a) \in Int
    BY <1>1, IdIs
<1>3. /\ SuccDist(a, b) = (IF b >= a THEN b - a ELSE b - a + IdCount)
      /\ SuccDist(b, a) = (IF a >= b THEN a - b ELSE a - b + IdCount)
    BY SuccDistIs
<1> QED  BY <1>1, <1>2, <1>3 DEF Dist

\* The last id that belongs to a node on the way to another.
LEMMA MidPointIs ==
    ASSUME NEW a \in Ids, NEW b \in Ids, NEW succ \in BOOLEAN
    PROVE  \E d \in Ids : /\ MidPoint(succ, a, b) = Walk(succ, a, d)
                          /\ a # b => d + 1 <= Dist(succ, a, b)
                          /\ succ => d + d <= Dist(succ, a, b)
                          /\ ~succ /\ a # b => d + d + 1 <= Dist(succ, a, b)
<1> DEFINE n == Dist(succ, a, b)
           k == IF succ THEN n ELSE Around(n - 1)
           d == k \div 2
<1>1. n \in Ids /\ n \in Int /\ 0 <= n /\ n < IdCount /\ IdCount \in Nat
    BY DistIs, IdIs
<1>2. a # b => n > 0
    <2>1. a \in Int /\ b \in Int /\ 0 <= a /\ a < IdCount /\ 0 <= b /\ b < IdCount /\ IdCount \in Nat
        BY IdIs
    <2>2. /\ SuccDist(a, b) = (IF b >= a THEN b - a ELSE b - a + IdCount)
          /\ SuccDist(b, a) = (IF a >= b THEN a - b ELSE a - b + IdCount)
        BY DistIs
    <2>3. a # b => SuccDist(a, b) > 0 /\ SuccDist(b, a) > 0
        BY <2>1, <2>2
    <2>4. n = SuccDist(a, b) \/ n = SuccDist(b, a)
        BY DEF Dist
    <2> QED  BY <2>3, <2>4
<1>3. MidPoint(succ, a, b) = Walk(succ, a, d)
    <2>1. MidPoint(succ, a, b)
            = Walk(succ, a, (IF succ THEN Dist(succ, a, b) ELSE Around(Dist(succ, a, b) - 1)) \div 2)
        BY DEF MidPoint, Around
    <2> QED  BY <2>1
<1> HIDE DEF n
<1>4. k \in Ids /\ (a # b => k = IF succ THEN n ELSE n - 1)
    BY <1>1, <1>2, AroundIs
<1> HIDE DEF k
<1>5. d \in Int /\ 0 <= d /\ d + d <= k
    BY <1>4, IdIs
<1> HIDE DEF d
<1>6. d \in Ids
    BY <1>4, <1>5, IdIs
<1>7. (a # b => d + 1 <= n) /\ (succ => d + d <= n) /\ (~succ /\ a # b => d + d + 1 <= n)
    BY <1>1, <1>2, <1>4, <1>5, IdIs DEF k
<1> QED  BY <1>3, <1>6, <1>7 DEF n

\* The id at a distance is at that distance.
LEMMA WalkDist ==
    ASSUME NEW a \in Ids, NEW d \in Ids, NEW succ \in BOOLEAN
    PROVE  Walk(succ, a, d) \in Ids /\ Dist(succ, a, Walk(succ, a, d)) = d
<1>1. /\ IdCount \in Nat /\ a \in Int /\ 0 <= a /\ a < IdCount
      /\ d \in Int /\ 0 <= d /\ d < IdCount /\ d <= IdCount
    BY IdIs
<1>2. CASE succ
    <2> DEFINE w == Walk(TRUE, a, d)
    <2>1. w = (IF a + d < IdCount THEN a + d ELSE (a + d) - IdCount)
        BY <1>1, WalkIs
    <2>2. w \in Ids
        BY <1>1, WalkIs
    <2> HIDE DEF w
    <2>3. SuccDist(a, w) = IF w >= a THEN w - a ELSE w - a + IdCount
        BY <2>2, DistIs
    <2>4. w \in Int /\ 0 <= w /\ w < IdCount
        BY <2>2, IdIs
    <2>5. SuccDist(a, w) = d
        BY <1>1, <2>1, <2>3, <2>4
    <2>6. Walk(succ, a, d) = w /\ Dist(succ, a, w) = SuccDist(a, w)
        BY <1>2 DEF Walk, Dist, w
    <2> QED  BY <2>2, <2>5, <2>6
<1>3. CASE ~succ
    <2> DEFINE w == Walk(FALSE, a, d)
    <2>1. w = (IF a >= d THEN a - d ELSE a - d + IdCount)
        BY <1>1, WalkIs
    <2>2. w \in Ids
        BY <1>1, WalkIs
    <2> HIDE DEF w
    <2>3. SuccDist(w, a) = IF a >= w THEN a - w ELSE a - w + IdCount
        BY <2>2, DistIs
    <2>4. w \in Int /\ 0 <= w /\ w < IdCount
        BY <2>2, IdIs
    <2>5. SuccDist(w, a) = d
        BY <1>1, <2>1, <2>3, <2>4
    <2>6. Walk(succ, a, d) = w /\ Dist(succ, a, w) = SuccDist(w, a)
        BY <1>3 DEF Walk, Dist, w
    <2> QED  BY <2>2, <2>5, <2>6
<1> QED  BY <1>2, <1>3

\* A range that is cut after one of its ids keeps that id.
LEMMA CutAfter ==
    ASSUME NEW r \in Ranges, NEW n \in r, NEW i \in Ids, NEW succ \in BOOLEAN,
           Dist(succ, n, i) <= Dist(succ, n, Edge(succ, r))
    PROVE  n \in Until(succ, r, i)
<1> DEFINE b == Begin(r)
           e == End(r)
<1>1. b \in Ids /\ e \in Ids /\ r = NodeIdRange(b, e)
    BY RangeEnds
<1>2. n \in Ids
    BY DEF Ranges, NodeIdRange
<1>3. CASE succ
    <2>1. SuccDist(n, i) <= SuccDist(n, e)
        BY <1>3 DEF Edge, Dist
    <2> HIDE DEF b, e
    <2>2. n \in NodeIdRange(b, i)
        <3>1. IF b <= e THEN b <= n /\ n <= e ELSE b <= n \/ n <= e
            BY <1>1, <1>2, InRange
        <3>2. /\ SuccDist(n, i) = (IF i >= n THEN i - n ELSE i - n + IdCount)
              /\ SuccDist(n, e) = (IF e >= n THEN e - n ELSE e - n + IdCount)
            BY <1>1, <1>2, DistIs
        <3>3. /\ IdCount \in Nat /\ b \in Int /\ 0 <= b /\ b < IdCount /\ e \in Int /\ 0 <= e /\ e < IdCount
              /\ n \in Int /\ 0 <= n /\ n < IdCount /\ i \in Int /\ 0 <= i /\ i < IdCount
            BY <1>1, <1>2, IdIs
        <3>4. IF b <= i THEN b <= n /\ n <= i ELSE b <= n \/ n <= i
            BY <2>1, <3>1, <3>2, <3>3
        <3> QED  BY <1>1, <1>2, <3>4, InRange
    <2> QED  BY <1>3, <2>2 DEF Until, b
<1>4. CASE ~succ
    <2>1. SuccDist(i, n) <= SuccDist(b, n)
        BY <1>4 DEF Edge, Dist
    <2> HIDE DEF b, e
    <2>2. n \in NodeIdRange(i, e)
        <3>1. IF b <= e THEN b <= n /\ n <= e ELSE b <= n \/ n <= e
            BY <1>1, <1>2, InRange
        <3>2. /\ SuccDist(i, n) = (IF n >= i THEN n - i ELSE n - i + IdCount)
              /\ SuccDist(b, n) = (IF n >= b THEN n - b ELSE n - b + IdCount)
            BY <1>1, <1>2, DistIs
        <3>3. /\ IdCount \in Nat /\ b \in Int /\ 0 <= b /\ b < IdCount /\ e \in Int /\ 0 <= e /\ e < IdCount
              /\ n \in Int /\ 0 <= n /\ n < IdCount /\ i \in Int /\ 0 <= i /\ i < IdCount
            BY <1>1, <1>2, IdIs
        <3>4. IF i <= e THEN i <= n /\ n <= e ELSE i <= n \/ n <= e
            BY <2>1, <3>1, <3>2, <3>3
        <3> QED  BY <1>1, <1>2, <3>4, InRange
    <2> QED  BY <1>4, <2>2 DEF Until, e
<1> QED  BY <1>3, <1>4

\* The id after the last one that belongs to a node is one farther.
LEMMA MidPointNext ==
    ASSUME NEW n \in Ids, NEW x \in Ids, x # n, NEW succ \in BOOLEAN
    PROVE  LET split == MidPoint(succ, n, x)
           IN  /\ split \in Ids /\ Walk(succ, split, 1) \in Ids
               /\ Dist(succ, n, Walk(succ, split, 1)) = Dist(succ, n, split) + 1
<1>1. PICK d \in Ids : MidPoint(succ, n, x) = Walk(succ, n, d) /\ d + 1 <= Dist(succ, n, x)
    BY MidPointIs
<1>2. IdCount \in Nat /\ d \in Int /\ 0 <= d /\ d + 1 < IdCount
    <2>1. IdCount \in Nat /\ d \in Int /\ 0 <= d
        BY IdIs
    <2>2. Dist(succ, n, x) \in Int /\ Dist(succ, n, x) < IdCount
        BY DistIs, IdIs
    <2> QED  BY <1>1, <2>1, <2>2
<1>3. 1 \in Ids /\ d + 1 \in Ids
    BY <1>2, IdIs
<1>4. Walk(succ, Walk(succ, n, d), 1) = Walk(succ, n, d + 1)
    <2>1. n \in Int /\ 0 <= n /\ n < IdCount
        BY IdIs
    <2>2. Walk(TRUE, Walk(TRUE, n, d), 1) = Walk(TRUE, n, d + 1)
        <3> DEFINE w == Walk(TRUE, n, d)
        <3>1. w \in Ids /\ w = (IF n + d < IdCount THEN n + d ELSE (n + d) - IdCount)
            BY <1>3, WalkIn
        <3>2. Walk(TRUE, n, d + 1) = (IF n + (d + 1) < IdCount THEN n + (d + 1) ELSE (n + (d + 1)) - IdCount)
            BY <1>3, WalkIn
        <3> HIDE DEF w
        <3>3. Walk(TRUE, w, 1) = (IF w + 1 < IdCount THEN w + 1 ELSE (w + 1) - IdCount)
            BY <1>3, <3>1, WalkIn
        <3>4. w \in Int /\ 0 <= w /\ w < IdCount
            BY <3>1, IdIs
        <3> DEFINE u == Walk(TRUE, n, d + 1)
                   v == Walk(TRUE, w, 1)
        <3>5. u \in Int /\ v \in Int
            BY <1>3, <3>1, WalkIn, IdIs
        <3>6. u = (IF n + (d + 1) < IdCount THEN n + (d + 1) ELSE (n + (d + 1)) - IdCount) /\ v = (IF w + 1 < IdCount THEN w + 1 ELSE (w + 1) - IdCount)
            BY <3>2, <3>3
        <3> HIDE DEF u, v
        <3>7. u = v
            BY <1>2, <2>1, <3>1, <3>4, <3>5, <3>6
        <3> QED  BY <3>7 DEF w, u, v
    <2>3. Walk(FALSE, Walk(FALSE, n, d), 1) = Walk(FALSE, n, d + 1)
        <3> DEFINE w == Walk(FALSE, n, d)
        <3>1. w \in Ids /\ w = (IF n >= d THEN n - d ELSE n - d + IdCount)
            BY <1>3, WalkIn
        <3>2. Walk(FALSE, n, d + 1) = (IF n >= d + 1 THEN n - (d + 1) ELSE n - (d + 1) + IdCount)
            BY <1>3, WalkIn
        <3> HIDE DEF w
        <3>3. Walk(FALSE, w, 1) = (IF w >= 1 THEN w - 1 ELSE w - 1 + IdCount)
            BY <1>3, <3>1, WalkIn
        <3>4. w \in Int /\ 0 <= w /\ w < IdCount
            BY <3>1, IdIs
        <3> DEFINE u == Walk(FALSE, n, d + 1)
                   v == Walk(FALSE, w, 1)
        <3>5. u \in Int /\ v \in Int
            BY <1>3, <3>1, WalkIn, IdIs
        <3>6. u = (IF n >= d + 1 THEN n - (d + 1) ELSE n - (d + 1) + IdCount) /\ v = (IF w >= 1 THEN w - 1 ELSE w - 1 + IdCount)
            BY <3>2, <3>3
        <3> HIDE DEF u, v
        <3>7. u = v
            BY <1>2, <2>1, <3>1, <3>4, <3>5, <3>6
        <3> QED  BY <3>7 DEF w, u, v
    <2> QED  BY <2>2, <2>3
<1> QED  BY <1>1, <1>2, <1>3, <1>4, WalkDist

\* What a node keeps of a full token has its id.
LEMMA FullKeeps ==
    ASSUME NEW n \in Ids, NEW x \in Ids
    PROVE  /\ MidPoint(FALSE, n, x) \in Ids /\ MidPoint(TRUE, n, x) \in Ids
           /\ n \in NodeIdRange(MidPoint(FALSE, n, x), MidPoint(TRUE, n, x))
<1>1. PICK d \in Ids : MidPoint(TRUE, n, x) = Walk(TRUE, n, d) /\ d + d <= Dist(TRUE, n, x)
    BY MidPointIs
<1>2. PICK c \in Ids : MidPoint(FALSE, n, x) = Walk(FALSE, n, c) /\ (n # x => c + c + 1 <= Dist(FALSE, n, x))
    BY MidPointIs
<1> DEFINE p == Walk(FALSE, n, c)
           q == Walk(TRUE, n, d)
<1>3. /\ IdCount \in Nat /\ n \in Int /\ 0 <= n /\ n < IdCount /\ x \in Int /\ 0 <= x /\ x < IdCount
      /\ c \in Int /\ 0 <= c /\ c < IdCount /\ c <= IdCount /\ d \in Int /\ 0 <= d /\ d < IdCount /\ d <= IdCount
    BY IdIs
<1>4. c + d < IdCount
    <2>1. /\ SuccDist(n, x) = (IF x >= n THEN x - n ELSE x - n + IdCount)
          /\ SuccDist(x, n) = (IF n >= x THEN n - x ELSE n - x + IdCount)
          /\ SuccDist(n, x) \in Int /\ SuccDist(x, n) \in Int
        BY DistIs
    <2>2. d + d <= SuccDist(n, x) /\ (n # x => c + c + 1 <= SuccDist(x, n))
        <3>1. Dist(TRUE, n, x) = SuccDist(n, x) /\ Dist(FALSE, n, x) = SuccDist(x, n)
            BY DistIs
        <3> QED  BY <1>1, <1>2, <3>1, Zenon
    <2> QED  BY <1>3, <2>1, <2>2
<1>5. p \in Ids /\ p = (IF n >= c THEN n - c ELSE n - c + IdCount)
    BY WalkIn
<1>6. q \in Ids /\ q = (IF n + d < IdCount THEN n + d ELSE (n + d) - IdCount)
    BY WalkIn
<1> HIDE DEF p, q
<1>7. n \in NodeIdRange(p, q)
    <2>1. p \in Int /\ q \in Int
        BY <1>5, <1>6, IdIs
    <2>2. IF p <= q THEN p <= n /\ n <= q ELSE p <= n \/ n <= q
        BY <1>3, <1>4, <1>5, <1>6, <2>1
    <2> QED  BY <1>5, <1>6, <2>2, InRange
<1> QED  BY <1>1, <1>2, <1>5, <1>6, <1>7 DEF p, q

-----------------------------------------------------------------------------
(***************************************************************************)
(* The operations on ranges.                                               *)
(***************************************************************************)

\* Nodes are ids.
LEMMA NodeIsId ==
    Nodes \subseteq Ids
BY IdAssumption DEF Ids

\* The empty range and the whole circle.
LEMMA WholeIs ==
    {} \in Ranges /\ Ids \in Ranges /\ Ids # {}
<1>1. 0 \in Ids /\ IdCount - 1 \in Ids /\ 0 <= IdCount - 1 /\ \A i \in Ids : 0 <= i /\ i <= IdCount - 1
    BY IdIs
<1>2. \A i \in Ids : i \in NodeIdRange(0, IdCount - 1)
    BY <1>1, InRange
<1>3. NodeIdRange(0, IdCount - 1) = Ids
    BY <1>1, <1>2, InRange
<1> QED  BY <1>1, <1>3 DEF Ranges

\* The ids from one to another.
LEMMA StretchIs ==
    ASSUME NEW i \in Ids, NEW j \in Ids, NEW succ \in BOOLEAN
    PROVE  NodeIdRange(i, j) \in Ranges /\ Stretch(succ, i, j) \in Ranges
BY DEF Ranges, Stretch

\* A range that ends elsewhere.
LEMMA UntilIs ==
    ASSUME NEW r \in Ranges, r # {}, NEW i \in Ids, NEW succ \in BOOLEAN
    PROVE  Until(succ, r, i) \in Ranges
<1>1. Begin(r) \in Ids /\ End(r) \in Ids
    BY RangeEnds
<1> QED  BY <1>1, StretchIs DEF Until

\* SplitSuccToken and SplitPredToken leave the id of the node.
LEMMA SplitKeeps ==
    ASSUME NEW r \in Ranges, NEW n \in Ids, n \in r, NEW x \in Ids, x # n, NEW succ \in BOOLEAN
    PROVE  LET split == MidPoint(succ, n, x)
               given == Walk(succ, split, 1)
           IN  Dist(succ, n, given) <= Dist(succ, n, Edge(succ, r))
                 => /\ n \in Until(succ, r, split) /\ Until(succ, r, split) \in Ranges
                    /\ Stretch(succ, given, Edge(succ, r)) \in Ranges
<1> DEFINE split == MidPoint(succ, n, x)
           given == Walk(succ, split, 1)
           e == Edge(succ, r)
<1>1. split \in Ids /\ given \in Ids /\ Dist(succ, n, given) = Dist(succ, n, split) + 1
    BY MidPointNext
<1>2. e \in Ids /\ r # {}
    BY RangeEnds
<1> HIDE DEF split, given
<1> SUFFICES ASSUME Dist(succ, n, given) <= Dist(succ, n, e)
             PROVE  /\ n \in Until(succ, r, split) /\ Until(succ, r, split) \in Ranges
                    /\ Stretch(succ, given, e) \in Ranges
    BY DEF split, given
<1>3. Dist(succ, n, split) <= Dist(succ, n, e)
    <2> DEFINE a == Dist(succ, n, split)
               b == Dist(succ, n, e)
    <2>1. a \in Int /\ b \in Int
        BY <1>1, <1>2, DistIs, IdIs
    <2>2. a + 1 <= b
        BY <1>1
    <2> HIDE DEF a, b
    <2>3. a <= b
        BY <2>1, <2>2
    <2> QED  BY <2>3 DEF a, b
<1>4. n \in Until(succ, r, split)
    BY <1>1, <1>3, CutAfter
<1>5. Until(succ, r, split) \in Ranges /\ Stretch(succ, given, e) \in Ranges
    BY <1>1, <1>2, UntilIs, StretchIs
<1> QED  BY <1>4, <1>5

\* So does SplitFullToken.
LEMMA FullSplit ==
    ASSUME NEW n \in Ids, NEW x \in Ids
    PROVE  LET succMid == MidPoint(TRUE, n, x)
               predMid == MidPoint(FALSE, n, x)
           IN  /\ n \in NodeIdRange(predMid, succMid) /\ NodeIdRange(predMid, succMid) \in Ranges
               /\ NodeIdRange(Walk(TRUE, succMid, 1), Walk(FALSE, predMid, 1)) \in Ranges
<1> DEFINE succMid == MidPoint(TRUE, n, x)
           predMid == MidPoint(FALSE, n, x)
<1>1. succMid \in Ids /\ predMid \in Ids /\ n \in NodeIdRange(predMid, succMid)
    BY FullKeeps
<1> HIDE DEF succMid, predMid
<1>2. 1 \in Int /\ 0 <= 1 /\ 1 <= IdCount
    BY IdIs
<1>3. Walk(TRUE, succMid, 1) \in Ids /\ Walk(FALSE, predMid, 1) \in Ids
    BY <1>1, <1>2, WalkIs
<1>4. /\ NodeIdRange(predMid, succMid) \in Ranges
      /\ NodeIdRange(Walk(TRUE, succMid, 1), Walk(FALSE, predMid, 1)) \in Ranges
    BY <1>1, <1>3, StretchIs
<1> QED  BY <1>1, <1>4 DEF succMid, predMid

\* A merge leaves one stretch with the id of the node.
LEMMA MergedKeeps ==
    ASSUME NEW t, t.range \in Ranges, NEW n \in Ids, t.range # {} => n \in t.range, NEW r \in Ranges
    PROVE  Merged(t, r, n) \in Ranges /\ (Merged(t, r, n) # {} => n \in Merged(t, r, n))
<1>1. CASE t.range = {}
    <2>1. Merged(t, r, n) = IF n \in r THEN r ELSE {}
        BY <1>1 DEF Merged, IsAdjacent, IsNormal
    <2>2. {} \in Ranges
        BY WholeIs
    <2>3. CASE n \in r
        BY <2>1, <2>3, Zenon
    <2>4. CASE n \notin r
        <3>1. Merged(t, r, n) = {}
            BY <2>1, <2>4, Zenon
        <3> QED  BY <2>2, <3>1, Zenon
    <2> QED  BY <2>3, <2>4
<1>2. CASE t.range # {}
    <2>1. IsAdjacent(TRUE, t.range, r) \/ IsAdjacent(FALSE, t.range, r) => End(r) \in Ids /\ Begin(r) \in Ids
        <3>1. IsAdjacent(TRUE, t.range, r) \/ IsAdjacent(FALSE, t.range, r) => r # {}
            BY DEF IsAdjacent, IsNormal
        <3> QED  BY <3>1, RangeEnds
    <2>2. ASSUME NEW i \in Ids, i \notin t.range
          PROVE  /\ n \in Until(TRUE, t.range, i) /\ Until(TRUE, t.range, i) \in Ranges
                 /\ n \in Until(FALSE, t.range, i) /\ Until(FALSE, t.range, i) \in Ranges
        <3>1. n \in t.range /\ TRUE \in BOOLEAN /\ FALSE \in BOOLEAN
            BY <1>2
        <3> QED  BY <1>2, <2>2, <3>1, EdgeOut, UntilIs
    <2>3. \/ Merged(t, r, n) = Ids
          \/ /\ IsAdjacent(TRUE, t.range, r) /\ End(r) \notin t.range
             /\ Merged(t, r, n) = Until(TRUE, t.range, End(r))
          \/ /\ IsAdjacent(FALSE, t.range, r) /\ Begin(r) \notin t.range
             /\ Merged(t, r, n) = Until(FALSE, t.range, Begin(r))
          \/ Merged(t, r, n) = {}
        <3> DEFINE none == t.range = {}
                   a == IsAdjacent(TRUE, t.range, r)
                   b == IsAdjacent(FALSE, t.range, r)
                   c == End(r) \notin t.range
                   d == Begin(r) \notin t.range
                   u == Until(TRUE, t.range, End(r))
                   v == Until(FALSE, t.range, Begin(r))
        <3>1. ~none
            BY <1>2
        <3>2. Merged(t, r, n) = CASE none -> IF n \in r THEN r ELSE {}
                                  [] a /\ b -> Ids
                                  [] a /\ c -> u
                                  [] b /\ d -> v
                                  [] OTHER -> {}
            BY DEF Merged
        <3> HIDE DEF none, a, b, c, d, u, v
        <3>3. \/ Merged(t, r, n) = Ids
              \/ a /\ c /\ Merged(t, r, n) = u
              \/ b /\ d /\ Merged(t, r, n) = v
              \/ Merged(t, r, n) = {}
            BY <3>1, <3>2
        <3> QED  BY <3>3 DEF a, b, c, d, u, v
    <2>4. {} \in Ranges /\ Ids \in Ranges
        BY WholeIs
    <2> QED  BY <2>1, <2>2, <2>3, <2>4
<1> QED  BY <1>1, <1>2

\* A recovery up to an id outside of the range.
LEMMA RecoverKeeps ==
    ASSUME NEW r \in Ranges, NEW n \in r, NEW q \in Ranges, q # {}, NEW succ \in BOOLEAN
    PROVE  LET edge == Walk(~succ, Edge(~succ, q), 1)
           IN  edge \notin r => n \in Until(succ, r, edge) /\ Until(succ, r, edge) \in Ranges
<1> DEFINE edge == Walk(~succ, Edge(~succ, q), 1)
<1>1. 1 \in Int /\ 0 <= 1 /\ 1 <= IdCount /\ (~succ) \in BOOLEAN
    BY IdIs
<1>2. Edge(~succ, q) \in Ids
    BY <1>1, RangeEnds
<1>3. edge \in Ids
    BY <1>1, <1>2, WalkIs
<1> HIDE DEF edge
<1>4. edge \notin r => n \in Until(succ, r, edge) /\ Until(succ, r, edge) \in Ranges
    BY <1>3, EdgeOut, UntilIs
<1> QED  BY <1>4 DEF edge

\* What a departing node keeps for its other neighbour, and what it leaves to this one.
LEMMA ReleaseKeeps ==
    ASSUME NEW r \in Ranges, NEW mid \in r, NEW succ \in BOOLEAN
    PROVE  /\ Until(succ, r, Walk(~succ, mid, 1)) \in Ranges
           /\ Stretch(succ, mid, Edge(succ, r)) \in Ranges
<1>1. mid \in Ids /\ r # {}
    BY InRange DEF Ranges
<1>2. 1 \in Int /\ 0 <= 1 /\ 1 <= IdCount /\ (~succ) \in BOOLEAN
    BY IdIs
<1>3. Walk(~succ, mid, 1) \in Ids
    BY <1>1, <1>2, WalkIs
<1>4. Edge(succ, r) \in Ids
    BY <1>1, RangeEnds
<1> QED  BY <1>1, <1>3, <1>4, UntilIs, StretchIs

-----------------------------------------------------------------------------
(***************************************************************************)
(* Lemmas on numbers and distances.                                        *)
(***************************************************************************)

\* A set of natural numbers has a least one.
LEMMA LeastExists ==
    ASSUME NEW S \in SUBSET Nat, S # {}
    PROVE  \E x \in S : \A y \in S : x <= y
<1> DEFINE Less == {ss \in Nat \X Nat : ss[1] < ss[2]}
<1>1. IsWellFoundedOn(Less, Nat)
    BY NatLessThanWellFounded, Zenon DEF OpToRel
<1>2. PICK x \in S : \A y \in S : ~(<<y, x>> \in Less)
    <2> HIDE DEF Less
    <2> QED  BY <1>1, WFMin
<1>3. \A y \in S : ~(y < x)
    BY <1>2
<1> QED  BY <1>3

\* A set of positions of a sequence has a first and a last one.
LEMMA FirstExists ==
    ASSUME NEW k \in Nat, NEW S \in SUBSET (1..k), S # {}
    PROVE  /\ \E x \in S : \A y \in S : x <= y
           /\ \E x \in S : \A y \in S : y <= x
<1>1. \E x \in S : \A y \in S : x <= y
    <2>1. S \in SUBSET Nat
        OBVIOUS
    <2> QED  BY <2>1, LeastExists
<1> DEFINE T == {k - i : i \in S}
<1>2. T \subseteq Nat /\ T # {}
    <2>1. \A i \in S : i \in Nat /\ i <= k
        OBVIOUS
    <2>2. T \subseteq Nat
        BY <2>1
    <2>3. PICK i \in S : TRUE
        OBVIOUS
    <2>4. k - i \in T
        OBVIOUS
    <2> QED  BY <2>2, <2>4
<1>3. PICK x \in T : \A y \in T : x <= y
    <2> HIDE DEF T
    <2> QED  BY <1>2, LeastExists
<1>4. PICK i \in S : x = k - i
    BY <1>3
<1>5. \A y \in S : y <= i
    <2> TAKE y \in S
    <2>1. k - y \in T
        OBVIOUS
    <2>2. k - i <= k - y
        BY <1>3, <1>4, <2>1
    <2> QED  BY <2>2
<1> QED  BY <1>1, <1>5

\* A distance is a natural number.
LEMMA DistType ==
    ASSUME NEW succ \in BOOLEAN, NEW a \in Nodes, NEW b \in Nodes
    PROVE  Dist(succ, a, b) \in Nat
BY IdAssumption DEF Dist, SuccDist

\* There is a nearest node.
LEMMA NearestType ==
    ASSUME NEW succ \in BOOLEAN, NEW n \in Nodes, NEW S \in SUBSET Nodes
    PROVE  Nearest(succ, n, S) \in S \/ (S = {} /\ Nearest(succ, n, S) = n)
<1>1. CASE S = {}
    BY <1>1 DEF Nearest
<1>2. CASE S # {}
    <2> DEFINE T == {Dist(succ, n, x) : x \in S}
    <2>1. T \in SUBSET Nat /\ T # {}
        BY <1>2, DistType
    <2>2. PICK d \in T : \A e \in T : d <= e
        <3> HIDE DEF T
        <3> QED  BY <2>1, LeastExists
    <2>3. PICK x \in S : d = Dist(succ, n, x)
        BY <2>2
    <2>4. \E z \in S : \A y \in S : Dist(succ, n, z) <= Dist(succ, n, y)
        BY <2>2, <2>3
    <2> QED  BY <1>2, <2>4 DEF Nearest
<1> QED  BY <1>1, <1>2

-----------------------------------------------------------------------------
(***************************************************************************)
(* The promises of a node.                                                 *)
(***************************************************************************)

\* A promise.
Promise == [ver : Nat, dist : Nat]

\* What a node whose token has version v may have promised.
Promises(v) ==
    {echoes \in Seq(Promise) : InOrder(echoes) /\ \A i \in DOMAIN echoes : echoes[i].ver <= v}

\* Promises made at a version are still good at a later one.
LEMMA PromisesGrow ==
    ASSUME NEW v \in Nat, NEW w \in Nat, v <= w
    PROVE  Promises(v) \subseteq Promises(w)
<1> SUFFICES ASSUME NEW echoes \in Promises(v) PROVE echoes \in Promises(w)
    OBVIOUS
<1>1. echoes \in Seq(Promise) /\ DOMAIN echoes = 1..Len(echoes)
    BY LenProperties DEF Promises
<1>2. \A i \in DOMAIN echoes : echoes[i] \in Promise
    BY <1>1, ElementOfSeq
<1>3. \A i \in DOMAIN echoes : echoes[i].ver <= w
    BY <1>2 DEF Promises, Promise
<1> QED  BY <1>3 DEF Promises

\* What is dropped at either end leaves the others in order.
LEMMA SubPromises ==
    ASSUME NEW v \in Nat, NEW echoes \in Promises(v),
           NEW a \in 1..(Len(echoes) + 1), NEW b \in 0..Len(echoes)
    PROVE  SubSeq(echoes, a, b) \in Promises(v)
<1> DEFINE t == SubSeq(echoes, a, b)
<1>1. echoes \in Seq(Promise) /\ Len(echoes) \in Nat /\ DOMAIN echoes = 1..Len(echoes)
    BY LenProperties DEF Promises
<1>2. \A i \in a..b : echoes[i] \in Promise
    BY <1>1, ElementOfSeq
<1>3. /\ t \in Seq(Promise)
      /\ Len(t) = IF a <= b THEN b - a + 1 ELSE 0
      /\ \A i \in 1..(b - a + 1) : t[i] = echoes[a + i - 1]
    BY <1>2, SubSeqProperties
<1>4. DOMAIN t = 1..Len(t)
    BY <1>3, LenProperties
<1>5. \A i \in DOMAIN t : i \in 1..(b - a + 1) /\ a + i - 1 \in DOMAIN echoes /\ t[i] = echoes[a + i - 1]
    BY <1>1, <1>3, <1>4
<1> HIDE DEF t
<1>6. InOrder(t)
    <2> SUFFICES ASSUME NEW i \in DOMAIN t, NEW j \in DOMAIN t, i < j PROVE Precedes(t[i], t[j])
        BY DEF InOrder
    <2>1. a + i - 1 < a + j - 1
        BY <1>1, <1>5
    <2>2. Precedes(echoes[a + i - 1], echoes[a + j - 1])
        BY <1>5, <2>1 DEF Promises, InOrder
    <2> QED  BY <1>5, <2>2
<1>7. \A i \in DOMAIN t : t[i].ver <= v
    BY <1>5 DEF Promises
<1> QED  BY <1>3, <1>6, <1>7 DEF Promises, t

\* CanRecover drops promises from the front only.
LEMMA EffectivePromises ==
    ASSUME NEW v \in Nat, NEW echoes \in Promises(v), NEW ver, NEW dist
    PROVE  Effective(echoes, ver, dist) \in Promises(v)
<1> DEFINE stop == {i \in DOMAIN echoes : ~Closer(echoes[i], dist) \/ echoes[i].ver > ver}
<1>1. Len(echoes) \in Nat /\ DOMAIN echoes = 1..Len(echoes)
    BY LenProperties DEF Promises
<1>2. CASE stop = {}
    <2>1. Effective(echoes, ver, dist) = SubSeq(echoes, 1, 0)
        BY <1>2 DEF Effective
    <2> QED  BY <1>1, <2>1, SubPromises
<1>3. CASE stop # {}
    <2> DEFINE c == CHOOSE i \in stop : \A j \in stop : i <= j
    <2>1. c \in stop
        <3>1. stop \in SUBSET (1..Len(echoes))
            BY <1>1
        <3>2. \E i \in stop : \A j \in stop : i <= j
            <4> HIDE DEF stop
            <4> QED  BY <1>1, <1>3, <3>1, FirstExists
        <3> QED  BY <3>2
    <2>2. c \in 1..(Len(echoes) + 1)
        BY <1>1, <2>1
    <2>3. Effective(echoes, ver, dist) = SubSeq(echoes, c, Len(echoes))
        BY <1>3 DEF Effective
    <2> HIDE DEF c
    <2> QED  BY <1>1, <2>2, <2>3, SubPromises
<1> QED  BY <1>2, <1>3

\* Closer is transitive.
LEMMA CloserStill ==
    ASSUME NEW e \in Promise, NEW f \in Promise, NEW d \in Nat, Closer(e, f.dist), Closer(f, d)
    PROVE  Closer(e, d)
BY DEF Closer, Promise

\* The comment of EchoedProbeList::Add: with a version that grows, the list stays ordered.
LEMMA AddEchoInOrder ==
    ASSUME NEW v \in Nat, NEW echoes \in Promises(v), NEW w \in Nat, v < w, NEW d \in Nat
    PROVE  AddEcho(echoes, w, d) \in Promises(w)
<1> DEFINE kept == {i \in DOMAIN echoes : TokenVersionMatch(echoes[i].ver, w) /\ Closer(echoes[i], d)}
           k == IF kept = {} THEN 0 ELSE CHOOSE i \in kept : \A j \in kept : j <= i
           t == SubSeq(echoes, 1, k)
           e == [ver |-> w, dist |-> d]
           all == Append(t, e)
<1>1. /\ echoes \in Seq(Promise) /\ Len(echoes) \in Nat /\ DOMAIN echoes = 1..Len(echoes)
      /\ \A i \in DOMAIN echoes : echoes[i] \in Promise
    BY LenProperties, ElementOfSeq DEF Promises
<1>2. k \in 0..Len(echoes) /\ (k # 0 => k \in kept)
    <2>1. CASE kept = {}
        BY <1>1, <2>1
    <2>2. CASE kept # {}
        <3>1. kept \in SUBSET (1..Len(echoes))
            BY <1>1
        <3>2. \E i \in kept : \A j \in kept : j <= i
            <4> HIDE DEF kept
            <4> QED  BY <1>1, <2>2, <3>1, FirstExists
        <3>3. k \in kept
            BY <2>2, <3>2
        <3> QED  BY <1>1, <3>1, <3>3
    <2> QED  BY <2>1, <2>2
<1> HIDE DEF k
<1>3. t \in Promises(v)
    BY <1>1, <1>2, SubPromises
<1>4. Len(t) = k /\ \A i \in 1..k : t[i] = echoes[i]
    <2>1. \A i \in 1..k : echoes[i] \in Promise
        BY <1>1, <1>2
    <2>2. Len(t) = (IF 1 <= k THEN k - 1 + 1 ELSE 0) /\ \A i \in 1..(k - 1 + 1) : t[i] = echoes[1 + i - 1]
        BY <1>2, <2>1, SubSeqProperties
    <2> QED  BY <1>1, <1>2, <2>2
<1>5. t \in Seq(Promise) /\ InOrder(t) /\ \A i \in DOMAIN t : t[i].ver <= v
    BY <1>3 DEF Promises
<1> HIDE DEF t, kept
<1>6. e \in Promise
    BY DEF Promise
<1>7. /\ all \in Seq(Promise) /\ Len(all) = k + 1 /\ DOMAIN all = 1..(k + 1)
      /\ \A i \in 1..k : all[i] = t[i]
      /\ all[k + 1] = e
    <2> HIDE DEF e, all
    <2>1. all = Append(t, e)
        BY DEF all
    <2> QED  BY <1>4, <1>5, <1>6, <2>1, AppendProperties, LenProperties
<1>8. \A i \in 1..k : Precedes(echoes[i], e)
    <2> SUFFICES ASSUME NEW i \in 1..k PROVE Precedes(echoes[i], e)
        OBVIOUS
    <2>1. k \in 1..Len(echoes) /\ i \in 1..Len(echoes) /\ k \in kept
        BY <1>1, <1>2
    <2>2. TokenVersionMatch(echoes[k].ver, w) /\ Closer(echoes[k], d)
        BY <2>1 DEF kept
    <2>3. TokenVersionMatch(echoes[i].ver, w) /\ Closer(echoes[i], d)
        <3>1. CASE i = k
            BY <2>2, <3>1
        <3>2. CASE i # k
            <4>1. Precedes(echoes[i], echoes[k])
                BY <1>1, <1>2, <2>1, <3>2 DEF Promises, InOrder
            <4>2. Closer(echoes[i], d)
                BY <1>1, <2>1, <2>2, <4>1, CloserStill DEF Precedes
            <4> QED  BY <2>2, <4>1, <4>2 DEF Precedes, TokenVersionMatch
        <3> QED  BY <3>1, <3>2
    <2>4. echoes[i].ver < w
        <3>1. echoes[i].ver <= v /\ echoes[i].ver \in Nat
            BY <1>1, <2>1 DEF Promises, Promise
        <3> QED  BY <3>1
    <2> QED  BY <2>3, <2>4 DEF Precedes
<1>9. InOrder(all)
    <2> SUFFICES ASSUME NEW i \in 1..(k + 1), NEW j \in 1..(k + 1), i < j PROVE Precedes(all[i], all[j])
        BY <1>7 DEF InOrder
    <2>1. CASE j = k + 1
        BY <1>2, <1>4, <1>7, <1>8, <2>1
    <2>2. CASE j # k + 1
        <3>1. i \in 1..k /\ j \in 1..k /\ DOMAIN t = 1..k
            BY <1>2, <1>4, <1>5, <2>2, LenProperties
        <3> QED  BY <1>5, <1>7, <3>1 DEF InOrder
    <2> QED  BY <2>1, <2>2
<1>10. \A i \in 1..(k + 1) : all[i].ver <= w
    <2>1. \A i \in 1..k : all[i].ver <= w
        <3> SUFFICES ASSUME NEW i \in 1..k PROVE all[i].ver <= w
            OBVIOUS
        <3>1. i \in DOMAIN t /\ t[i] \in Promise
            BY <1>2, <1>4, <1>5, LenProperties, ElementOfSeq
        <3>2. t[i].ver <= v /\ t[i].ver \in Nat
            BY <1>5, <3>1 DEF Promise
        <3>3. all[i] = t[i]
            BY <1>7
        <3> HIDE DEF all
        <3> QED  BY <3>2, <3>3
    <2> QED  BY <1>2, <1>7, <2>1
<1>11. AddEcho(echoes, w, d) = all
    BY DEF AddEcho, all, t, k, kept
<1> HIDE DEF all
<1> QED  BY <1>7, <1>9, <1>10, <1>11 DEF Promises

-----------------------------------------------------------------------------
(***************************************************************************)
(* What holds of tables and messages.  ts are the tokens of the nodes, A   *)
(* the nodes that run.                                                     *)
(***************************************************************************)

\* Tokens, headers and tables by type.
Tok == [range : Ranges, ver : Nat]

Hdr == [range : Ranges, source : Nat, target : Nat]

\* Headers for at most these versions of the sender and of the receiver.
Headers(v, w) == {h \in Hdr : h.source <= v /\ h.target <= w}

\* Headers of a message between two nodes.
Hdrs(ts, A, from, to) ==
    {h \in Hdr : (from \in A => h.source <= ts[from].ver) /\ (to \in A => h.target <= ts[to].ver)}

State == [tok : Tok, view : [Nodes -> Tok], down : SUBSET Nodes, hood : Nat, echoes : [BOOLEAN -> Seq(Promise)]]

\* No view is ahead of its node, and no promise of the table.
Table(ts, A) ==
    {s \in State : /\ \A x \in A : s.view[x].ver <= ts[x].ver
                   /\ \A succ \in BOOLEAN : s.echoes[succ] \in Promises(s.tok.ver)}

\* A token from one step to a later one: a node that has a range never gives all of it.
Grows(t, u) == t.ver <= u.ver /\ (t.range # {} => u.range # {})

\* The range of n is around n.
Centred(n, t) == t.range # {} => n \in t.range

\* What only the node itself knows of its table.
Own(n, s) == Centred(n, s.tok) /\ s.down \subseteq Others(n) /\ s.hood = Cardinality(s.down)

\* The nodes that have a range, or are gone: a probe is sent by a node that has one.
Holders(ts, A) == {x \in Nodes : x \in A => ts[x].range # {}}

\* The path of a probe starts at its origin, one of O.
IsPath(O, path) == path \in Seq(ToSet(path)) /\ 1 \in DOMAIN path /\ path[1].id \in O

\* A probe on its way.
IsProbe(O, p) ==
    /\ p = [path |-> p.path, succ |-> p.succ, source |-> p.source]
    /\ IsPath(O, p.path) /\ p.succ \in BOOLEAN

\* An echo is not ahead of the node that promised.
IsEcho(ts, A, e) ==
    /\ e = [probe |-> e.probe, range |-> e.range, ver |-> e.ver, origin |-> e.origin]
    /\ IsProbe(Holders(ts, A), e.probe) /\ e.ver \in Nat /\ e.origin \in Nodes
    /\ e.range \in Ranges /\ e.range # {}
    /\ e.origin \in A => e.ver <= ts[e.origin].ver

\* Messages that carry tokens.
HasTokens == {"TokenTransfer", "TokenTransferReject", "Depart"}

\* What a message of each type may carry.
Body(ts, A, type, from, to, body) ==
    /\ type \in HasTokens => body \in Seq(Hdrs(ts, A, from, to))
    /\ type = "TokenProbe" => IsProbe(Holders(ts, A), body)
    /\ type = "TokenEcho" => IsEcho(ts, A, body)

\* A message whose headers are not processed yet.
Fresh(ts, A, m) ==
    /\ m.view \in [Nodes -> Tok] /\ m.down \subseteq Nodes
    /\ \A x \in A : m.view[x].ver <= ts[x].ver

\* A message that waits for its handler, with the tokens not accepted.
Waiting(ts, A, m) == m.type \in Handlers /\ m.rejected \in Seq(Hdrs(ts, A, m.from, m.to))

\* A message on its way or waiting.
InFlight(ts, A, m) ==
    /\ m.from \in Nodes /\ m.to \in A \ {m.from}
    /\ Body(ts, A, m.type, m.from, m.to, m.body)
    /\ IF IsReceived(m) THEN Waiting(ts, A, m) ELSE Fresh(ts, A, m)

\* The tokens of the tables.
Toks == [n \in Nodes |-> node[n].tok]

\* The inductive invariant.
IInv ==
    /\ alive \subseteq Nodes /\ late \subseteq Nodes
    /\ node \in [Nodes -> Table(Toks, alive)]
    /\ \A n \in alive : Own(n, node[n])
    /\ \A m \in msgs : InFlight(Toks, alive, m)

\* The tokens when that of node n has become t.
Now(ts, n, t) == [ts EXCEPT ![n] = t]

\* A table of n, while it is locked.
Here(ts, A, n, s) ==
    /\ ts \in [Nodes -> Tok] /\ A \subseteq Nodes /\ n \in A
    /\ s \in Table(ts, A) /\ Grows(ts[n], s.tok) /\ Own(n, s)

\* What an operation of n may make of table s, and may send.
IsOutcome(ts, A, n, s, a) ==
    /\ a = [s |-> a.s, out |-> a.out]
    /\ Here(ts, A, n, a.s)
    /\ Grows(s.tok, a.s.tok)
    /\ \A o \in a.out : o.to # n /\ Body(Now(ts, n, a.s.tok), A, o.type, n, o.to, o.body)

-----------------------------------------------------------------------------
(***************************************************************************)
(* Tables and bodies when tokens grow and nodes go.                        *)
(***************************************************************************)

\* Elements of a sequence that are in another set too.
LEMMA SeqIn ==
    ASSUME NEW S, NEW T, NEW seq \in Seq(S), \A i \in DOMAIN seq : seq[i] \in T
    PROVE  seq \in Seq(T)
<1>1. Len(seq) \in Nat /\ DOMAIN seq = 1..Len(seq)
    BY LenProperties
<1>2. seq \in [1..Len(seq) -> S]
    BY <1>1
<1>3. seq \in [1..Len(seq) -> T]
    BY <1>1, <1>2
<1> QED  BY <1>1, <1>3

\* Sequences over a larger set.
LEMMA SeqMono ==
    ASSUME NEW S, NEW T, S \subseteq T
    PROVE  Seq(S) \subseteq Seq(T)
<1> SUFFICES ASSUME NEW seq \in Seq(S) PROVE seq \in Seq(T)
    OBVIOUS
<1>1. DOMAIN seq = 1..Len(seq)
    BY LenProperties
<1>2. \A i \in DOMAIN seq : seq[i] \in T
    BY <1>1, ElementOfSeq
<1> QED  BY <1>2, SeqIn

\* Tokens grow one after the other.
LEMMA GrowsAgain ==
    ASSUME NEW t \in Tok, NEW u \in Tok, NEW v \in Tok, Grows(t, u), Grows(u, v)
    PROVE  Grows(t, v)
<1>1. t.ver \in Nat /\ u.ver \in Nat /\ v.ver \in Nat
    BY DEF Tok
<1> QED  BY <1>1 DEF Grows

\* A token that is as it was.
LEMMA GrowsNot ==
    ASSUME NEW t \in Tok
    PROVE  Grows(t, t)
BY DEF Grows, Tok

\* Tokens that have grown, for the nodes that are left.
Later(ts, A, us, B) ==
    /\ ts \in [Nodes -> Tok] /\ us \in [Nodes -> Tok] /\ A \subseteq Nodes /\ B \subseteq A
    /\ \A x \in B : Grows(ts[x], us[x])

\* Versions that are later.
LEMMA VersionsLater ==
    ASSUME NEW ts, NEW us, NEW A, NEW B, Later(ts, A, us, B), NEW x \in B
    PROVE  /\ x \in A /\ x \in Nodes
           /\ ts[x].ver \in Nat /\ us[x].ver \in Nat /\ ts[x].ver <= us[x].ver
BY DEF Later, Grows, Tok

\* Headers stay good when versions grow and nodes go.
LEMMA HdrsLater ==
    ASSUME NEW ts, NEW us, NEW A, NEW B, Later(ts, A, us, B), NEW from, NEW to
    PROVE  Hdrs(ts, A, from, to) \subseteq Hdrs(us, B, from, to)
<1>1. \A x \in {from, to} : x \in B => x \in A /\ ts[x].ver <= us[x].ver
    BY VersionsLater
<1>2. \A x \in {from, to} : x \in B => ts[x].ver \in Nat /\ us[x].ver \in Nat
    BY VersionsLater
<1>3. \A h \in Hdr : h.source \in Nat /\ h.target \in Nat
    BY DEF Hdr
<1> QED  BY <1>1, <1>2, <1>3 DEF Hdrs

\* Who has a range keeps one.
LEMMA HoldersLater ==
    ASSUME NEW ts, NEW us, NEW A, NEW B, Later(ts, A, us, B)
    PROVE  Holders(ts, A) \subseteq Holders(us, B)
BY DEF Holders, Later, Grows

\* A probe of one of more nodes.
LEMMA ProbeLater ==
    ASSUME NEW O, NEW P, O \subseteq P, NEW p, IsProbe(O, p)
    PROVE  IsProbe(P, p)
BY DEF IsProbe, IsPath

\* So do bodies of messages,
LEMMA BodyLater ==
    ASSUME NEW ts, NEW us, NEW A, NEW B, Later(ts, A, us, B),
           NEW type, NEW from, NEW to, NEW body, Body(ts, A, type, from, to, body)
    PROVE  Body(us, B, type, from, to, body)
<1>1. type \in HasTokens => body \in Seq(Hdrs(us, B, from, to))
    BY HdrsLater, SeqMono DEF Body
<1>2. ASSUME NEW p, IsProbe(Holders(ts, A), p) PROVE IsProbe(Holders(us, B), p)
    BY <1>2, HoldersLater, ProbeLater
<1>3. ASSUME NEW e, IsEcho(ts, A, e) PROVE IsEcho(us, B, e)
    <2>1. e.origin \in B => e.ver <= us[e.origin].ver
        <3> SUFFICES ASSUME e.origin \in B PROVE e.ver <= us[e.origin].ver
            OBVIOUS
        <3> DEFINE v == ts[e.origin].ver
                   w == us[e.origin].ver
        <3>1. v \in Nat /\ w \in Nat /\ v <= w /\ e.origin \in A
            BY VersionsLater
        <3>2. e.ver \in Nat /\ e.ver <= v
            BY <1>3, <3>1 DEF IsEcho
        <3> HIDE DEF v, w
        <3>3. e.ver <= w
            BY <3>1, <3>2
        <3> QED  BY <3>3 DEF w
    <2> QED  BY <1>2, <1>3, <2>1 DEF IsEcho
<1> QED  BY <1>1, <1>2, <1>3 DEF Body

\* messages on their way,
LEMMA InFlightLater ==
    ASSUME NEW ts, NEW us, NEW A, NEW B, Later(ts, A, us, B), NEW m, InFlight(ts, A, m), m.to \in B
    PROVE  InFlight(us, B, m)
<1>1. Body(us, B, m.type, m.from, m.to, m.body)
    BY BodyLater DEF InFlight
<1>2. Waiting(ts, A, m) => Waiting(us, B, m)
    BY HdrsLater, SeqMono DEF Waiting
<1>3. Fresh(ts, A, m) => Fresh(us, B, m)
    <2> SUFFICES ASSUME Fresh(ts, A, m), NEW x \in B PROVE m.view[x].ver <= us[x].ver
        BY DEF Fresh
    <2>1. ts[x].ver \in Nat /\ us[x].ver \in Nat /\ ts[x].ver <= us[x].ver /\ x \in A /\ x \in Nodes
        BY VersionsLater
    <2>2. m.view[x].ver \in Nat /\ m.view[x].ver <= ts[x].ver
        BY <2>1 DEF Fresh, Tok
    <2> QED  BY <2>1, <2>2
<1> QED  BY <1>1, <1>2, <1>3 DEF InFlight

\* and tables.
LEMMA TableLater ==
    ASSUME NEW ts, NEW us, NEW A, NEW B, Later(ts, A, us, B)
    PROVE  Table(ts, A) \subseteq Table(us, B)
<1> SUFFICES ASSUME NEW s \in Table(ts, A), NEW x \in B PROVE s.view[x].ver <= us[x].ver
    BY DEF Table
<1>1. ts[x].ver \in Nat /\ us[x].ver \in Nat /\ ts[x].ver <= us[x].ver /\ x \in A /\ x \in Nodes
    BY VersionsLater
<1>2. s.view[x].ver \in Nat /\ s.view[x].ver <= ts[x].ver
    BY <1>1 DEF Table, State, Tok
<1> QED  BY <1>1, <1>2

\* A node that goes on is later.
LEMMA NowLater ==
    ASSUME NEW ts, NEW A, NEW n, NEW s, NEW t, Here(ts, A, n, s), Here(ts, A, n, t), Grows(s.tok, t.tok)
    PROVE  /\ Later(Now(ts, n, s.tok), A, Now(ts, n, t.tok), A)
           /\ Later(ts, A, Now(ts, n, t.tok), A)
<1>1. s.tok \in Tok /\ t.tok \in Tok /\ Grows(ts[n], t.tok) /\ n \in Nodes
    BY DEF Here, Table, State
<1>2. ts \in [Nodes -> Tok] /\ A \subseteq Nodes
    BY DEF Here
<1>3. \A x \in A : Grows(ts[x], ts[x])
    BY <1>2, GrowsNot
<1>4. Now(ts, n, s.tok) \in [Nodes -> Tok] /\ Now(ts, n, t.tok) \in [Nodes -> Tok]
    BY <1>1, <1>2 DEF Now
<1>5. \A x \in A : /\ Now(ts, n, s.tok)[x] = IF x = n THEN s.tok ELSE ts[x]
                   /\ Now(ts, n, t.tok)[x] = IF x = n THEN t.tok ELSE ts[x]
    BY <1>1, <1>2 DEF Now
<1> QED  BY <1>1, <1>2, <1>3, <1>4, <1>5 DEF Later

-----------------------------------------------------------------------------
(***************************************************************************)
(* Outcomes.                                                               *)
(***************************************************************************)

\* A token of n that becomes another.
Keeps(n, t, u) == Grows(t, u) /\ Centred(n, u)

\* The token of a table is updated.
LEMMA TokHere ==
    ASSUME NEW ts, NEW A, NEW n, NEW s, Here(ts, A, n, s), NEW t \in Tok, Keeps(n, s.tok, t)
    PROVE  /\ Here(ts, A, n, [s EXCEPT !.tok = t])
           /\ [s EXCEPT !.tok = t].tok = t
<1> DEFINE u == [s EXCEPT !.tok = t]
<1>1. s \in State /\ ts[n] \in Tok /\ s.tok \in Tok /\ n \in Nodes
    BY DEF Here, Table, State
<1>2. u \in State /\ u.tok = t /\ u.view = s.view /\ u.echoes = s.echoes /\ u.down = s.down /\ u.hood = s.hood
    BY <1>1 DEF State
<1>3. Promises(s.tok.ver) \subseteq Promises(t.ver)
    <2>1. s.tok.ver \in Nat /\ t.ver \in Nat /\ s.tok.ver <= t.ver
        BY <1>1 DEF Tok, Keeps, Grows
    <2> QED  BY <2>1, PromisesGrow
<1> HIDE DEF u
<1>4. u \in Table(ts, A)
    BY <1>2, <1>3 DEF Here, Table
<1>5. Grows(ts[n], t)
    BY <1>1, GrowsAgain DEF Here, Keeps
<1>6. Own(n, u)
    BY <1>2 DEF Here, Own, Keeps
<1> QED  BY <1>2, <1>4, <1>5, <1>6 DEF Here, u

\* A table that may have changed, and nothing to send.
LEMMA NothingOutcome ==
    ASSUME NEW ts, NEW A, NEW n, NEW s, NEW t, Here(ts, A, n, t), Grows(s.tok, t.tok)
    PROVE  IsOutcome(ts, A, n, s, Nothing(t))
BY DEF IsOutcome, Nothing

\* A table that has not changed.
LEMMA SameOutcome ==
    ASSUME NEW ts, NEW A, NEW n, NEW s, Here(ts, A, n, s)
    PROVE  IsOutcome(ts, A, n, s, Nothing(s)) /\ Grows(s.tok, s.tok)
<1>1. s.tok \in Tok
    BY DEF Here, Table, State
<1> QED  BY <1>1, GrowsNot, NothingOutcome

\* A new token, and nothing to send.
LEMMA TokOutcome ==
    ASSUME NEW ts, NEW A, NEW n, NEW s, Here(ts, A, n, s), NEW t \in Tok, Keeps(n, s.tok, t)
    PROVE  IsOutcome(ts, A, n, s, Nothing([s EXCEPT !.tok = t]))
<1> DEFINE u == [s EXCEPT !.tok = t]
<1>1. Here(ts, A, n, u) /\ u.tok = t
    BY TokHere
<1> HIDE DEF u
<1>2. IsOutcome(ts, A, n, s, Nothing(u))
    BY <1>1, NothingOutcome DEF Keeps
<1> QED  BY <1>2 DEF u

\* A table that may have changed, and one message.
LEMMA SendOutcome ==
    ASSUME NEW ts, NEW A, NEW n, NEW s, NEW t, Here(ts, A, n, t), Grows(s.tok, t.tok),
           NEW type, NEW to, to # n, NEW body, Body(Now(ts, n, t.tok), A, type, n, to, body)
    PROVE  IsOutcome(ts, A, n, s, Send(t, type, to, body))
BY DEF IsOutcome, Send

\* One operation after another.
LEMMA AfterOutcome ==
    ASSUME NEW ts, NEW A, NEW n, NEW s, NEW a, NEW b, Here(ts, A, n, s),
           IsOutcome(ts, A, n, s, a), IsOutcome(ts, A, n, a.s, b)
    PROVE  IsOutcome(ts, A, n, s, After(a.out, b))
<1> DEFINE c == After(a.out, b)
<1>1. c = [s |-> b.s, out |-> a.out \cup b.out]
    <2>1. \A x, y : [[s |-> x, out |-> y] EXCEPT !.out = a.out \cup @] = [s |-> x, out |-> a.out \cup y]
        OBVIOUS
    <2>2. b = [s |-> b.s, out |-> b.out]
        BY DEF IsOutcome
    <2> QED  BY <2>1, <2>2, Zenon DEF After
<1>2. Grows(s.tok, b.s.tok)
    <2>1. s.tok \in Tok /\ a.s.tok \in Tok /\ b.s.tok \in Tok
        BY DEF IsOutcome, Here, Table, State
    <2> QED  BY <2>1, GrowsAgain DEF IsOutcome
<1>3. \A o \in a.out : o.to # n /\ Body(Now(ts, n, b.s.tok), A, o.type, n, o.to, o.body)
    BY NowLater, BodyLater DEF IsOutcome
<1> HIDE DEF c
<1> QED  BY <1>1, <1>2, <1>3 DEF IsOutcome, c

-----------------------------------------------------------------------------
(***************************************************************************)
(* What the operations on a token give away.                               *)
(***************************************************************************)

\* A token t of n after a part of it is given, with headers for a receiver at version w.
Cut(n, t, w, r) ==
    /\ r = [tok |-> r.tok, headers |-> r.headers]
    /\ r.tok \in Tok /\ Keeps(n, t, r.tok)
    /\ r.headers \in Seq(Headers(r.tok.ver, w))

\* RoutingToken::Update adds one to the version.
LEMMA UpdateType ==
    ASSUME NEW t \in Tok, NEW r \in Ranges
    PROVE  /\ Update(t, r) \in Tok /\ Update(t, r).range = r /\ Update(t, r).ver = t.ver + 1
           /\ t.ver <= Update(t, r).ver
BY DEF Update, Token, Tok

\* An update to a range around n.
LEMMA UpdateKeeps ==
    ASSUME NEW t \in Tok, NEW r \in Ranges, NEW n, n \in r
    PROVE  Update(t, r) \in Tok /\ Keeps(n, t, Update(t, r)) /\ Update(t, r).range = r
BY UpdateType DEF Keeps, Grows, Centred

\* IncrementRecoveryVersion increases the version.
LEMMA IncrementType ==
    ASSUME NEW t \in Tok
    PROVE  /\ IncrementRecoveryVersion(t) \in Tok
           /\ IncrementRecoveryVersion(t).range = t.range
           /\ t.ver < IncrementRecoveryVersion(t).ver
           /\ Grows(t, IncrementRecoveryVersion(t))
<1>1. RECOVERY_INCREMENT \in Nat /\ RECOVERY_INCREMENT > 0 /\ t.ver \in Nat
    BY IncrementAssumption DEF Tok
<1>2. IncrementRecoveryVersion(t) = [range |-> t.range, ver |-> t.ver + RECOVERY_INCREMENT]
    BY DEF IncrementRecoveryVersion, Tok
<1> QED  BY <1>1, <1>2 DEF Tok, Grows

\* Steps of one token.
LEMMA KeepsAgain ==
    ASSUME NEW n, NEW t \in Tok, NEW u \in Tok, NEW v \in Tok, Grows(t, u), Keeps(n, u, v)
    PROVE  Keeps(n, t, v)
BY GrowsAgain DEF Keeps

\* The versions of a token that is kept.
LEMMA KeepsVersions ==
    ASSUME NEW n, NEW t \in Tok, NEW u \in Tok, Keeps(n, t, u)
    PROVE  t.ver \in Nat /\ u.ver \in Nat /\ t.ver <= u.ver
BY DEF Keeps, Grows, Tok

\* Nothing is given.
LEMMA CutNone ==
    ASSUME NEW n, NEW t \in Tok, Centred(n, t), NEW w \in Nat
    PROVE  Cut(n, t, w, [tok |-> t, headers |-> <<>>])
BY EmptySeq, GrowsNot DEF Cut, Keeps

\* One range is given.
LEMMA OneHeader ==
    ASSUME NEW v \in Nat, NEW x \in Nat, NEW w \in Nat, x <= w, NEW y \in Nat, y <= v, NEW r \in Ranges
    PROVE  <<Header(r, y, x)>> \in Seq(Headers(v, w))
<1>1. Header(r, y, x) \in Headers(v, w)
    BY DEF Header, Headers, Hdr
<1> QED  BY <1>1

\* A header without a token.
LEMMA CutNoToken ==
    ASSUME NEW n, NEW t \in Tok, Centred(n, t), NEW w \in Nat
    PROVE  Cut(n, t, w, [tok |-> t, headers |-> <<NoToken>>])
<1>1. t.ver \in Nat /\ 0 \in Nat /\ {} \in Ranges /\ 0 <= t.ver /\ 0 <= w
    BY WholeIs DEF Tok
<1>2. <<NoToken>> \in Seq(Headers(t.ver, w))
    BY <1>1, OneHeader DEF NoToken
<1> QED  BY <1>2, GrowsNot DEF Cut, Keeps

\* A range is given, and one around n is kept.
LEMMA CutOne ==
    ASSUME NEW n, NEW t \in Tok, NEW q \in Ranges, n \in q, NEW w \in Nat, NEW r \in Ranges
    PROVE  Cut(n, t, w, [tok |-> Update(t, q), headers |-> <<Header(r, Update(t, q).ver, w)>>])
<1> DEFINE u == Update(t, q)
<1>1. u \in Tok /\ Keeps(n, t, u)
    BY UpdateKeeps
<1> HIDE DEF u
<1>2. u.ver \in Nat /\ u.ver <= u.ver /\ w <= w
    BY <1>1 DEF Tok
<1>3. <<Header(r, u.ver, w)>> \in Seq(Headers(u.ver, w))
    BY <1>2, OneHeader
<1> QED  BY <1>1, <1>3 DEF Cut, u

\* SplitSuccToken and SplitPredToken: of a range around n.
LEMMA SplitToCut ==
    ASSUME NEW succ \in BOOLEAN, NEW n \in Nodes, NEW t \in Tok, n \in t.range, NEW neighbor \in Nodes, NEW w \in Nat
    PROVE  Cut(n, t, w, SplitTo(succ, t, neighbor, w, n))
<1> DEFINE split == MidPoint(succ, n, neighbor)
           given == Walk(succ, split, 1)
           q == Until(succ, t.range, split)
           kept == Update(t, q)
           part == Stretch(succ, given, Edge(succ, t.range))
           far == Dist(succ, n, given) > Dist(succ, n, Edge(succ, t.range))
<1>1. Cut(n, t, w, [tok |-> t, headers |-> <<NoToken>>])
    BY CutNoToken DEF Centred
<1>2. ASSUME neighbor # n, ~far
      PROVE  Cut(n, t, w, [tok |-> kept, headers |-> <<Header(part, kept.ver, w)>>])
    <2>1. t.range \in Ranges /\ n \in Ids /\ neighbor \in Ids
        BY NodeIsId DEF Tok
    <2>2. Dist(succ, n, given) <= Dist(succ, n, Edge(succ, t.range))
        <3> DEFINE e == Edge(succ, t.range)
        <3>1. given \in Ids
            BY <1>2, <2>1, MidPointNext
        <3>2. e \in Ids
            BY <2>1, RangeEnds
        <3> HIDE DEF given, e
        <3> DEFINE a == Dist(succ, n, given)
                   b == Dist(succ, n, e)
        <3>3. a \in Int /\ b \in Int
            BY <2>1, <3>1, <3>2, DistIs, IdIs
        <3>4. ~(a > b)
            BY <1>2 DEF e
        <3> HIDE DEF a, b
        <3>5. a <= b
            BY <3>3, <3>4
        <3> QED  BY <3>5 DEF a, b, e
    <2>3. n \in q /\ q \in Ranges /\ part \in Ranges
        BY <1>2, <2>1, <2>2, SplitKeeps
    <2> HIDE DEF q, part
    <2> QED  BY <2>3, CutOne
<1>3. SplitTo(succ, t, neighbor, w, n)
        = IF neighbor = n \/ far THEN [tok |-> t, headers |-> <<NoToken>>]
          ELSE [tok |-> kept, headers |-> <<Header(part, kept.ver, w)>>]
    BY DEF SplitTo
<1> HIDE DEF kept, part, far
<1> QED  BY <1>1, <1>2, <1>3

\* SplitFullToken.
LEMMA SplitFullTokenCut ==
    ASSUME NEW n \in Nodes, NEW t \in Tok, NEW neighbor \in Nodes, NEW w \in Nat
    PROVE  Cut(n, t, w, SplitFullToken(t, neighbor, w, n))
<1> DEFINE succMid == MidPoint(TRUE, n, neighbor)
           predMid == MidPoint(FALSE, n, neighbor)
           q == NodeIdRange(predMid, succMid)
           part == NodeIdRange(Walk(TRUE, succMid, 1), Walk(FALSE, predMid, 1))
<1>1. n \in q /\ q \in Ranges /\ part \in Ranges
    BY NodeIsId, FullSplit
<1>2. SplitFullToken(t, neighbor, w, n) = [tok |-> Update(t, q), headers |-> <<Header(part, Update(t, q).ver, w)>>]
    BY DEF SplitFullToken
<1> HIDE DEF q, part
<1> QED  BY <1>1, <1>2, CutOne

\* One cut after another.
LEMMA CutAgain ==
    ASSUME NEW n, NEW t \in Tok, NEW w \in Nat, NEW a, NEW b, Cut(n, t, w, a), Cut(n, a.tok, w, b)
    PROVE  Cut(n, t, w, [tok |-> b.tok, headers |-> a.headers \o b.headers])
<1>1. a.tok \in Tok /\ b.tok \in Tok /\ Keeps(n, t, a.tok) /\ Keeps(n, a.tok, b.tok)
    BY DEF Cut
<1>2. Keeps(n, t, b.tok)
    <2>1. Grows(t, a.tok)
        BY <1>1 DEF Keeps
    <2> QED  BY <1>1, <2>1, KeepsAgain
<1>3. Headers(a.tok.ver, w) \subseteq Headers(b.tok.ver, w)
    <2>1. a.tok.ver \in Nat /\ b.tok.ver \in Nat /\ a.tok.ver <= b.tok.ver
        BY <1>1, KeepsVersions
    <2> QED  BY <2>1 DEF Headers, Hdr
<1>4. a.headers \in Seq(Headers(b.tok.ver, w)) /\ b.headers \in Seq(Headers(b.tok.ver, w))
    BY <1>3, SeqMono DEF Cut
<1>5. a.headers \o b.headers \in Seq(Headers(b.tok.ver, w))
    BY <1>4, ConcatProperties
<1> QED  BY <1>1, <1>2, <1>5 DEF Cut

\* RoutingTable::Split: of a range around n, or of none.
LEMMA SplitCut ==
    ASSUME NEW n \in Nodes, NEW t \in Tok, Centred(n, t), NEW neighbor \in Nodes, NEW known \in Tok
    PROVE  Cut(n, t, known.ver, Split(n, t, neighbor, known))
<1> DEFINE w == known.ver
           none == [tok |-> t, headers |-> <<>>]
           a == IF IsAdjacent(TRUE, t.range, known.range) THEN SplitTo(TRUE, t, neighbor, w, n) ELSE none
<1>1. w \in Nat
    BY DEF Tok
<1>2. Cut(n, t, w, none)
    <2> HIDE DEF w
    <2> QED  BY <1>1, CutNone
<1>3. CASE t.range = {}
    <2>1. \A succ \in BOOLEAN : ~IsAdjacent(succ, t.range, known.range)
        BY <1>3 DEF IsAdjacent, IsNormal
    <2>2. neighbor \notin t.range /\ a = none /\ ~IsAdjacent(FALSE, a.tok.range, known.range)
        BY <1>3, <2>1
    <2>3. Split(n, t, neighbor, known) = SplitPredToo(a, neighbor, known, n)
        BY <2>2 DEF Split
    <2> HIDE DEF none, a
    <2>4. SplitPredToo(a, neighbor, known, n) = a
        BY <2>2 DEF SplitPredToo
    <2> QED  BY <1>2, <2>2, <2>3, <2>4
<1>4. CASE t.range # {}
    <2>1. n \in t.range
        BY <1>4 DEF Centred
    <2>2. \A succ \in BOOLEAN : Cut(n, t, w, SplitTo(succ, t, neighbor, w, n))
        BY <1>1, <2>1, SplitToCut
    <2>3. Cut(n, t, w, a)
        <3> HIDE DEF w, none
        <3> QED  BY <1>2, <2>2
    <2>4. a.tok \in Tok /\ n \in a.tok.range
        BY <1>4, <2>3 DEF Cut, Keeps, Grows, Centred
    <2> HIDE DEF a, none
    <2>5. Cut(n, t, w, SplitPredToo(a, neighbor, known, n))
        <3> DEFINE b == SplitTo(FALSE, a.tok, neighbor, w, n)
        <3>1. Cut(n, a.tok, w, b)
            BY <1>1, <2>4, SplitToCut
        <3>2. \/ SplitPredToo(a, neighbor, known, n) = a
              \/ SplitPredToo(a, neighbor, known, n) = [tok |-> b.tok, headers |-> a.headers \o b.headers]
            BY DEF SplitPredToo
        <3> HIDE DEF b
        <3> QED  BY <1>1, <2>3, <3>1, <3>2, CutAgain
    <2>6. CASE neighbor \in t.range /\ t.range = Ids
        BY <1>1, <2>6, SplitFullTokenCut DEF Split
    <2>7. CASE neighbor \in t.range /\ t.range # Ids
        <3> DEFINE succ == SuccDist(n, neighbor) <= SuccDist(n, End(t.range))
        <3>1. Split(n, t, neighbor, known) = SplitTo(succ, t, neighbor, w, n)
            BY <2>7 DEF Split
        <3>2. succ \in BOOLEAN
            OBVIOUS
        <3> HIDE DEF succ
        <3> QED  BY <2>2, <3>1, <3>2
    <2>8. CASE neighbor \notin t.range
        BY <2>5, <2>8 DEF Split, a, none
    <2> QED  BY <2>6, <2>7, <2>8
<1> QED  BY <1>3, <1>4

\* What a departing node leaves: nothing of it is around the node any more.
Left(t, w, r) ==
    /\ r = [tok |-> r.tok, headers |-> r.headers]
    /\ r.tok \in Tok
    /\ r.headers \in Seq({h \in Hdr : h.target <= w})

\* One range is left to a neighbour.
LEMMA LeftHeader ==
    ASSUME NEW v \in Nat, NEW w \in Nat, NEW r \in Ranges
    PROVE  <<Header(r, v, w)>> \in Seq({h \in Hdr : h.target <= w})
<1>1. Header(r, v, w) \in {h \in Hdr : h.target <= w}
    BY DEF Header, Hdr
<1> QED  BY <1>1

\* ReleaseSuccToken and ReleasePredToken.
LEMMA ReleaseToLeft ==
    ASSUME NEW succ \in BOOLEAN, NEW t \in Tok, NEW far, NEW n, NEW neighbor, NEW w \in Nat
    PROVE  Left(t, w, ReleaseTo(succ, t, far, n, neighbor, w))
<1> DEFINE d == Dist(succ, far, neighbor)
           dist == IF succ THEN d \div 2 + 1 ELSE (d + 1) \div 2
           mid == Walk(succ, far, dist)
           kept == IF mid = Edge(~succ, t.range) THEN Update(t, {})
                   ELSE Update(t, Until(succ, t.range, Walk(~succ, mid, 1)))
           part == Stretch(succ, mid, Edge(succ, t.range))
           gone == Update(t, {})
<1>1. gone \in Tok /\ t.ver \in Nat /\ t.range \in Ranges
    BY UpdateType, WholeIs DEF Tok
<1>2. mid \in t.range => kept \in Tok /\ kept.ver \in Nat /\ part \in Ranges
    <2> SUFFICES ASSUME mid \in t.range PROVE kept \in Tok /\ kept.ver \in Nat /\ part \in Ranges
        OBVIOUS
    <2>1. Until(succ, t.range, Walk(~succ, mid, 1)) \in Ranges /\ part \in Ranges
        <3> HIDE DEF mid
        <3> QED  BY <1>1, ReleaseKeeps
    <2>2. kept \in Tok
        BY <1>1, <2>1, UpdateType
    <2> HIDE DEF kept
    <2> QED  BY <2>1, <2>2 DEF Tok
<1>3. <<>> \in Seq({h \in Hdr : h.target <= w})
    BY EmptySeq
<1>4. \/ /\ ReleaseTo(succ, t, far, n, neighbor, w) = [tok |-> kept, headers |-> <<Header(part, kept.ver, w)>>]
         /\ mid \in t.range
      \/ ReleaseTo(succ, t, far, n, neighbor, w) = [tok |-> gone, headers |-> <<>>]
      \/ ReleaseTo(succ, t, far, n, neighbor, w) = [tok |-> gone, headers |-> <<Header(t.range, t.ver, w)>>]
      \/ ReleaseTo(succ, t, far, n, neighbor, w) = [tok |-> t, headers |-> <<>>]
    BY DEF ReleaseTo
<1> HIDE DEF kept, part, gone, mid
<1>5. mid \in t.range => <<Header(part, kept.ver, w)>> \in Seq({h \in Hdr : h.target <= w})
    BY <1>2, LeftHeader
<1>6. <<Header(t.range, t.ver, w)>> \in Seq({h \in Hdr : h.target <= w})
    BY <1>1, LeftHeader
<1> DEFINE S == Seq({h \in Hdr : h.target <= w})
<1>7. ASSUME NEW u \in Tok, NEW h \in S PROVE Left(t, w, [tok |-> u, headers |-> h])
    BY DEF Left
<1>8. <<>> \in S /\ <<Header(t.range, t.ver, w)>> \in S /\ (mid \in t.range => <<Header(part, kept.ver, w)>> \in S)
    BY <1>3, <1>5, <1>6
<1> HIDE DEF S
<1> QED  BY <1>1, <1>2, <1>4, <1>7, <1>8

-----------------------------------------------------------------------------
(***************************************************************************)
(* Tokens that are given and taken.                                        *)
(***************************************************************************)

\* The types of what a table holds.
LEMMA HereType ==
    ASSUME NEW ts, NEW A, NEW n, NEW s, Here(ts, A, n, s)
    PROVE  /\ ts \in [Nodes -> Tok] /\ A \subseteq Nodes /\ n \in Nodes /\ s \in State
           /\ s.tok \in Tok /\ s.tok.ver \in Nat /\ s.tok.range \in Ranges /\ Centred(n, s.tok)
           /\ s.view \in [Nodes -> Tok] /\ s.down \in SUBSET Nodes /\ s.hood \in Nat
           /\ Ring(n, s) \subseteq Others(n) /\ Others(n) \subseteq Nodes
BY DEF Here, Table, State, Tok, Own, Ring, Others

\* What a cut gives may be sent to a node that has reached version w.
LEMMA HeadersToSend ==
    ASSUME NEW ts, NEW A, NEW n, NEW s, Here(ts, A, n, s), NEW w \in Nat,
           NEW to, to # n, to \in A => w <= ts[to].ver
    PROVE  Headers(s.tok.ver, w) \subseteq Hdrs(Now(ts, n, s.tok), A, n, to)
<1>1. ts \in [Nodes -> Tok] /\ A \subseteq Nodes /\ n \in Nodes /\ s.tok \in Tok
    BY HereType
<1>2. Now(ts, n, s.tok)[n] = s.tok
    BY <1>1 DEF Now
<1>3. to \in A => w <= Now(ts, n, s.tok)[to].ver /\ Now(ts, n, s.tok)[to].ver \in Nat
    <2>1. to \in A => Now(ts, n, s.tok)[to] = ts[to] /\ ts[to] \in Tok
        BY <1>1 DEF Now
    <2> QED  BY <2>1 DEF Tok
<1>4. \A h \in Hdr : h.source \in Nat /\ h.target \in Nat
    BY DEF Hdr
<1> QED  BY <1>2, <1>3, <1>4 DEF Headers, Hdrs

\* A cut that is sent, whatever else changes in the token of the table.
LEMMA CutOutcome ==
    ASSUME NEW ts, NEW A, NEW n, NEW s, Here(ts, A, n, s), NEW w \in Nat,
           NEW to, to # n, to \in A => w <= ts[to].ver,
           NEW t \in Tok, Keeps(n, s.tok, t), NEW h \in Seq(Headers(t.ver, w))
    PROVE  IsOutcome(ts, A, n, s, Send([s EXCEPT !.tok = t], "TokenTransfer", to, h))
<1> DEFINE u == [s EXCEPT !.tok = t]
<1>1. Here(ts, A, n, u) /\ u.tok = t
    BY TokHere
<1> HIDE DEF u
<1>2. h \in Seq(Hdrs(Now(ts, n, t), A, n, to))
    BY <1>1, HeadersToSend, SeqMono
<1>3. Body(Now(ts, n, t), A, "TokenTransfer", n, to, h)
    BY <1>2 DEF Body
<1>4. IsOutcome(ts, A, n, s, Send(u, "TokenTransfer", to, h))
    BY <1>1, <1>3, SendOutcome DEF Keeps
<1> QED  BY <1>4 DEF u

\* What a table knows of a node is not ahead of it.
LEMMA ViewKnown ==
    ASSUME NEW ts, NEW A, NEW n, NEW s, Here(ts, A, n, s), NEW x \in Nodes
    PROVE  s.view[x] \in Tok /\ s.view[x].ver \in Nat /\ (x \in A => s.view[x].ver <= ts[x].ver)
BY DEF Here, Table, State, Tok

\* CreateTokenTransferMessage.
LEMMA TransferOutcome ==
    ASSUME NEW ts, NEW A, NEW n, NEW s, Here(ts, A, n, s), NEW to \in Nodes, to # n
    PROVE  IsOutcome(ts, A, n, s, CreateTokenTransferMessage(n, s, to))
<1> DEFINE w == s.view[to].ver
           r == Split(n, s.tok, to, s.view[to])
<1>1. /\ s.tok \in Tok /\ Centred(n, s.tok) /\ n \in Nodes
      /\ s.view[to] \in Tok /\ w \in Nat /\ (to \in A => w <= ts[to].ver)
    BY HereType, ViewKnown
<1>2. Cut(n, s.tok, w, r)
    BY <1>1, SplitCut
<1> HIDE DEF w, r
<1>3. IsOutcome(ts, A, n, s, Nothing(s))
    BY SameOutcome
<1>4. IsOutcome(ts, A, n, s, Send([s EXCEPT !.tok = r.tok], "TokenTransfer", to, r.headers))
    BY <1>1, <1>2, CutOutcome DEF Cut
<1> QED  BY <1>3, <1>4 DEF CreateTokenTransferMessage, Give, w, r

\* A table, and the tokens not accepted of those in H.
Taken(ts, A, n, s, H, a) ==
    /\ a = [s |-> a.s, rejected |-> a.rejected]
    /\ Here(ts, A, n, a.s) /\ Grows(s.tok, a.s.tok)
    /\ a.rejected \in Seq(H)

\* One token of a message is taken or rejected.
LEMMA TakeTaken ==
    ASSUME NEW ts, NEW A, NEW n, NEW s, Here(ts, A, n, s), NEW H \in SUBSET Hdr,
           NEW a, Taken(ts, A, n, s, H, a), NEW h \in H
    PROVE  Taken(ts, A, n, s, H, Take(n, a, h))
<1> DEFINE q == Merged(a.s.tok, h.range, n)
           t == Update(a.s.tok, q)
<1>1. h.range \in Ranges /\ a.s.tok \in Tok /\ a.s.tok.range \in Ranges /\ Centred(n, a.s.tok) /\ n \in Nodes
    BY HereType DEF Taken, Hdr
<1>2. q \in Ranges /\ (q # {} => n \in q)
    <2>1. n \in Ids
        BY <1>1, NodeIsId
    <2> QED  BY <1>1, <2>1, MergedKeeps DEF Centred
<1>3. CASE Accepts(a.s.tok, h, n)
    <2>1. n \in q
        BY <1>2, <1>3 DEF Accepts
    <2> HIDE DEF q
    <2>2. t \in Tok /\ Keeps(n, a.s.tok, t)
        BY <1>1, <1>2, <2>1, UpdateKeeps
    <2>3. t = Update(a.s.tok, Merged(a.s.tok, h.range, n))
        BY DEF q
    <2> HIDE DEF t
    <2>4. Here(ts, A, n, [a.s EXCEPT !.tok = t]) /\ [a.s EXCEPT !.tok = t].tok = t
        BY <2>2, TokHere DEF Taken
    <2>5. Grows(s.tok, t)
        <3>1. s.tok \in Tok /\ Grows(s.tok, a.s.tok) /\ Grows(a.s.tok, t)
            BY <2>2, HereType DEF Taken, Keeps
        <3> QED  BY <1>1, <2>2, <3>1, GrowsAgain
    <2>6. \A x, y : [[s |-> x, rejected |-> y] EXCEPT !.s.tok = t] = [s |-> [x EXCEPT !.tok = t], rejected |-> y]
        OBVIOUS
    <2>7. a = [s |-> a.s, rejected |-> a.rejected]
        BY DEF Taken
    <2>8. [a EXCEPT !.s.tok = t] = [s |-> [a.s EXCEPT !.tok = t], rejected |-> a.rejected]
        BY <2>6, <2>7, Zenon
    <2>9. Take(n, a, h) = [a EXCEPT !.s.tok = t]
        BY <1>3, <2>3 DEF Take
    <2> QED  BY <2>4, <2>5, <2>8, <2>9 DEF Taken
<1>4. CASE ~Accepts(a.s.tok, h, n)
    <2>1. \A x, y : [[s |-> x, rejected |-> y] EXCEPT !.rejected = Append(@, h)] = [s |-> x, rejected |-> Append(y, h)]
        OBVIOUS
    <2>2. a = [s |-> a.s, rejected |-> a.rejected]
        BY DEF Taken
    <2>3. Take(n, a, h) = [s |-> a.s, rejected |-> Append(a.rejected, h)]
        BY <1>4, <2>1, <2>2, Zenon DEF Take
    <2>4. Append(a.rejected, h) \in Seq(H)
        BY AppendProperties DEF Taken
    <2> QED  BY <2>3, <2>4 DEF Taken
<1> QED  BY <1>3, <1>4

\* All tokens of a message.
LEMMA AcceptTokensTaken ==
    ASSUME NEW ts, NEW A, NEW n, NEW s, Here(ts, A, n, s), NEW H \in SUBSET Hdr, NEW headers \in Seq(H)
    PROVE  Taken(ts, A, n, s, H, AcceptTokens(n, s, headers))
<1> DEFINE none == [s |-> s, rejected |-> <<>>]
           first == IF headers = <<>> THEN none ELSE Take(n, none, headers[1])
<1>1. Taken(ts, A, n, s, H, none)
    BY EmptySeq, SameOutcome DEF Taken
<1> HIDE DEF none
<1>2. Len(headers) \in Nat /\ (headers # <<>> => headers[1] \in H) /\ (Len(headers) >= 2 => headers[2] \in H)
    BY ElementOfSeq, LenProperties, EmptySeq
<1>3. Taken(ts, A, n, s, H, first)
    BY <1>1, <1>2, TakeTaken
<1> HIDE DEF first
<1>4. Len(headers) >= 2 => Taken(ts, A, n, s, H, Take(n, first, headers[2]))
    BY <1>2, <1>3, TakeTaken
<1> QED  BY <1>2, <1>3, <1>4 DEF AcceptTokens, first, none

\* Sets of nodes are finite, and nodes that are added are counted.
LEMMA CountNodes ==
    ASSUME NEW S \in SUBSET Nodes, NEW T \in SUBSET Nodes, S \cap T = {}
    PROVE  Cardinality(S) \in Nat /\ Cardinality(T) \in Nat /\ Cardinality(S \cup T) = Cardinality(S) + Cardinality(T)
<1>1. IsFiniteSet(S) /\ IsFiniteSet(T) /\ S \cup T = T \cup S
    BY FS_Subset, IdAssumption
<1>2. Cardinality(S) \in Nat /\ Cardinality(T) \in Nat
    BY <1>1, FS_CardinalityType
<1>3. Cardinality(S \cap T) = 0
    BY FS_EmptySet
<1>4. Cardinality(S \cup T) = Cardinality(S) + Cardinality(T) - Cardinality(S \cap T)
    BY <1>1, FS_Union
<1> QED  BY <1>2, <1>3, <1>4

\* What a message says of the nodes.
LEMMA ConsiderHere ==
    ASSUME NEW ts, NEW A, NEW n, NEW s, Here(ts, A, n, s), NEW m, Fresh(ts, A, m)
    PROVE  Here(ts, A, n, Consider(n, s, m)) /\ Consider(n, s, m).tok = s.tok
<1> DEFINE news == (m.down \ s.down) \ {n}
           Newer(x) == m.view[x].ver > s.view[x].ver /\ (x \notin s.down \/ x \in m.down)
           view == [x \in Nodes |-> IF x # n /\ Newer(x) THEN m.view[x] ELSE s.view[x]]
           down == s.down \cup news
           hood == s.hood + Cardinality(news)
           u == [s EXCEPT !.view = view, !.down = down, !.hood = hood]
<1>1. s.view \in [Nodes -> Tok] /\ m.view \in [Nodes -> Tok] /\ s \in State /\ s.hood \in Nat
      /\ s.down \in SUBSET Nodes /\ m.down \in SUBSET Nodes
    BY HereType DEF Fresh
<1>2. down \in SUBSET Nodes /\ down \subseteq Others(n) /\ hood \in Nat /\ hood = Cardinality(down)
    <2>1. news \in SUBSET Nodes /\ s.down \cap news = {} /\ news \subseteq Others(n) /\ s.down \subseteq Others(n)
        BY <1>1 DEF Here, Own, Others
    <2> HIDE DEF news
    <2>2. Cardinality(news) \in Nat /\ Cardinality(down) = Cardinality(s.down) + Cardinality(news)
        BY <1>1, <2>1, CountNodes
    <2>3. s.hood = Cardinality(s.down)
        BY DEF Here, Own
    <2> QED  BY <1>1, <2>1, <2>2, <2>3
<1>3. view \in [Nodes -> Tok] /\ \A x \in Nodes : view[x] \in {s.view[x], m.view[x]}
    BY <1>1
<1>4. \A x \in A : view[x].ver <= ts[x].ver
    BY <1>3 DEF Here, Table, Fresh
<1>5. Consider(n, s, m) = u
    BY <1>1 DEF Consider, State
<1> HIDE DEF view, down, hood
<1>6. /\ u \in State /\ u.tok = s.tok /\ u.view = view /\ u.echoes = s.echoes
      /\ u.down = down /\ u.hood = hood
    BY <1>1, <1>2, <1>3 DEF State
<1> HIDE DEF u
<1>7. u \in Table(ts, A)
    BY <1>4, <1>6 DEF Here, Table
<1>8. Own(n, u)
    BY <1>2, <1>6 DEF Here, Own
<1> QED  BY <1>5, <1>6, <1>7, <1>8 DEF Here

\* A node is found to be down.
LEMMA SetDownHere ==
    ASSUME NEW ts, NEW A, NEW n, NEW s, Here(ts, A, n, s), NEW x \in Others(n)
    PROVE  Here(ts, A, n, SetDown(s, x)) /\ SetDown(s, x).tok = s.tok
<1> DEFINE u == SetDown(s, x)
           down == s.down \cup {x}
           hood == s.hood + (IF x \in s.down THEN 0 ELSE 1)
<1>1. s \in State /\ s.down \in SUBSET Nodes /\ s.hood \in Nat /\ s.hood = Cardinality(s.down) /\ x \in Nodes
    BY HereType DEF Here, Own, Others
<1>2. down \in SUBSET Nodes /\ down \subseteq Others(n) /\ hood \in Nat /\ hood = Cardinality(down)
    <2>1. s.down \subseteq Others(n)
        BY DEF Here, Own
    <2>2. CASE x \in s.down
        <3>1. down = s.down
            BY <2>2
        <3> QED  BY <1>1, <2>1, <2>2, <3>1
    <2>3. CASE x \notin s.down
        <3>1. IsFiniteSet(s.down)
            BY <1>1, FS_Subset, IdAssumption
        <3>2. Cardinality(down) = Cardinality(s.down) + 1
            BY <2>3, <3>1, FS_AddElement
        <3> QED  BY <1>1, <2>1, <2>3, <3>2
    <2> QED  BY <2>2, <2>3
<1>3. u = [s EXCEPT !.down = down, !.hood = hood]
    BY DEF SetDown
<1> HIDE DEF down, hood, u
<1>4. /\ u \in State /\ u.tok = s.tok /\ u.view = s.view /\ u.echoes = s.echoes
      /\ u.down = down /\ u.hood = hood
    BY <1>1, <1>2, <1>3 DEF State
<1>5. u \in Table(ts, A)
    BY <1>4 DEF Here, Table
<1>6. Own(n, u)
    BY <1>2, <1>4 DEF Here, Own
<1> QED  BY <1>4, <1>5, <1>6 DEF Here, u

\* The tokens of a message, looked at or not.
LEMMA ConsideredTaken ==
    ASSUME NEW ts, NEW A, NEW n, NEW s, Here(ts, A, n, s), NEW H \in SUBSET Hdr, NEW m, Tokens(m) \in Seq(H),
           NEW a \in Considered(n, s, m)
    PROVE  Taken(ts, A, n, s, H, a)
<1> DEFINE headers == Tokens(m)
<1>1. Taken(ts, A, n, s, H, AcceptTokens(n, s, headers))
    BY AcceptTokensTaken
<1>2. ASSUME NEW r \in Seq(H) PROVE Taken(ts, A, n, s, H, [s |-> s, rejected |-> r])
    BY <1>2, SameOutcome DEF Taken
<1>3. \A i \in DOMAIN headers : <<headers[i]>> \in Seq(H)
    <2>1. DOMAIN headers = 1..Len(headers)
        BY LenProperties
    <2>2. \A i \in DOMAIN headers : headers[i] \in H
        BY <2>1, ElementOfSeq
    <2> QED  BY <2>2
<1>4. <<>> \in Seq(H)
    BY EmptySeq
<1> HIDE DEF headers
<1>5. \/ a = AcceptTokens(n, s, headers)
      \/ \E r \in {<<>>, headers} \cup {<<headers[i]>> : i \in DOMAIN headers} : a = [s |-> s, rejected |-> r]
    BY DEF Considered, headers
<1>6. headers \in Seq(H)
    BY DEF headers
<1>7. {<<>>, headers} \cup {<<headers[i]>> : i \in DOMAIN headers} \subseteq Seq(H)
    BY <1>3, <1>4, <1>6
<1> QED  BY <1>1, <1>2, <1>5, <1>7

\* The answer to a transfer.
LEMMA TransferHandlerOutcome ==
    ASSUME NEW ts, NEW A, NEW n, NEW s, Here(ts, A, n, s), NEW m, m.from \in Nodes, m.from # n, m.to = n,
           m.rejected \in Seq(Hdrs(ts, A, m.from, m.to))
    PROVE  IsOutcome(ts, A, n, s, TokenTransferMessageHandler(s, m))
<1> DEFINE back == [i \in DOMAIN m.rejected |-> Reject(s, m.rejected[i])]
           H == Hdrs(Now(ts, n, s.tok), A, n, m.from)
<1>1. Len(m.rejected) \in Nat /\ DOMAIN m.rejected = 1..Len(m.rejected)
    BY LenProperties
<1>2. ASSUME NEW h \in Hdrs(ts, A, m.from, m.to) PROVE Reject(s, h) \in H
    <2>1. h \in Hdr /\ h.range \in Ranges /\ h.source \in Nat
        BY DEF Hdrs, Hdr
    <2>2. s.tok.ver \in Nat /\ s.tok.ver <= s.tok.ver /\ (m.from \in A => h.source <= ts[m.from].ver)
        BY HereType DEF Hdrs
    <2>3. Reject(s, h) \in Headers(s.tok.ver, h.source)
        BY <2>1, <2>2 DEF Reject, Header, Headers, Hdr
    <2> QED  BY <2>1, <2>2, <2>3, HeadersToSend
<1>3. \A i \in DOMAIN m.rejected : Reject(s, m.rejected[i]) \in H
    <2>1. \A i \in DOMAIN m.rejected : m.rejected[i] \in Hdrs(ts, A, m.from, m.to)
        BY <1>1, ElementOfSeq
    <2> QED  BY <1>2, <2>1
<1> HIDE DEF H
<1>4. back \in Seq(H)
    <2>1. back \in [1..Len(m.rejected) -> H]
        BY <1>1, <1>3
    <2> HIDE DEF back
    <2> QED  BY <1>1, <2>1
<1> HIDE DEF back
<1>5. IsOutcome(ts, A, n, s, Send(s, "TokenTransferReject", m.from, back))
    <2>1. Body(Now(ts, n, s.tok), A, "TokenTransferReject", n, m.from, back)
        BY <1>4 DEF Body, H
    <2> QED  BY <2>1, SendOutcome, SameOutcome
<1>6. IsOutcome(ts, A, n, s, Send(s, "TokenTransferAccept", m.from, <<>>))
    <2>1. Body(Now(ts, n, s.tok), A, "TokenTransferAccept", n, m.from, <<>>)
        BY DEF Body, HasTokens
    <2> QED  BY <2>1, SendOutcome, SameOutcome
<1> QED  BY <1>5, <1>6 DEF TokenTransferMessageHandler, back

-----------------------------------------------------------------------------
(***************************************************************************)
(* Probes and echoes.                                                      *)
(***************************************************************************)

\* A probe whose path may have been walked back to its start.
IsRest(O, p) ==
    /\ p = [path |-> p.path, succ |-> p.succ, source |-> p.source]
    /\ p.succ \in BOOLEAN
    /\ p.path \in Seq(ToSet(p.path)) /\ (1 \in DOMAIN p.path => p.path[1].id \in O)

\* A sequence is one over its own elements.
LEMMA SeqOfOwn ==
    ASSUME NEW S, NEW q \in Seq(S)
    PROVE  q \in Seq(ToSet(q))
<1>1. \A i \in DOMAIN q : q[i] \in ToSet(q)
    BY DEF ToSet
<1> QED  BY <1>1, SeqIn

\* A probe whose path is replaced.
LEMMA WithPath ==
    ASSUME NEW O, NEW p, IsRest(O, p), NEW S, NEW q \in Seq(S)
    PROVE  /\ [p EXCEPT !.path = q].path = q /\ [p EXCEPT !.path = q].succ = p.succ
           /\ (1 \in DOMAIN q => q[1].id \in O) => IsRest(O, [p EXCEPT !.path = q])
           /\ 1 \in DOMAIN q /\ q[1].id \in O => IsProbe(O, [p EXCEPT !.path = q])
<1> DEFINE u == [p EXCEPT !.path = q]
<1>1. \A r, x, y, z :
        r = [path |-> x, succ |-> y, source |-> z] => [r EXCEPT !.path = q] = [path |-> q, succ |-> y, source |-> z]
    OBVIOUS
<1>2. p = [path |-> p.path, succ |-> p.succ, source |-> p.source]
    BY DEF IsRest
<1>3. u = [path |-> q, succ |-> p.succ, source |-> p.source]
    BY <1>1, <1>2
<1>4. p.succ \in BOOLEAN /\ q \in Seq(ToSet(q))
    BY SeqOfOwn DEF IsRest
<1> HIDE DEF u
<1> QED  BY <1>3, <1>4 DEF IsRest, IsProbe, IsPath, u

\* A probe as it arrives has not been walked back.
LEMMA ProbeIsRest ==
    ASSUME NEW O, NEW p, IsProbe(O, p)
    PROVE  IsRest(O, p) /\ 1 \in DOMAIN p.path /\ p.path[1].id \in O /\ p.path \in Seq(ToSet(p.path))
BY DEF IsProbe, IsPath, IsRest

\* The start of a path is not lost when it is cut or when nodes of it are changed.
LEMMA CutPath ==
    ASSUME NEW O, NEW p, IsRest(O, p), NEW k \in Nat, k <= Len(p.path)
    PROVE  /\ SubSeq(p.path, 1, k) \in Seq(ToSet(p.path))
           /\ 1 \in DOMAIN SubSeq(p.path, 1, k) => SubSeq(p.path, 1, k)[1].id \in O
           /\ k > 0 => 1 \in DOMAIN SubSeq(p.path, 1, k)
<1> DEFINE q == SubSeq(p.path, 1, k)
<1>1. p.path \in Seq(ToSet(p.path)) /\ Len(p.path) \in Nat /\ DOMAIN p.path = 1..Len(p.path)
    BY LenProperties DEF IsRest
<1>2. \A i \in 1..k : p.path[i] \in ToSet(p.path)
    BY <1>1, ElementOfSeq
<1>3. q \in Seq(ToSet(p.path)) /\ Len(q) = (IF 1 <= k THEN k - 1 + 1 ELSE 0)
      /\ \A i \in 1..(k - 1 + 1) : q[i] = p.path[1 + i - 1]
    BY <1>2, SubSeqProperties
<1>4. DOMAIN q = 1..Len(q)
    BY <1>3, LenProperties
<1> HIDE DEF q
<1>5. 1 \in DOMAIN q => k > 0 /\ q[1] = p.path[1] /\ 1 \in DOMAIN p.path
    BY <1>1, <1>3, <1>4
<1>6. k > 0 => 1 \in DOMAIN q
    BY <1>3, <1>4
<1> QED  BY <1>3, <1>5, <1>6 DEF q, IsRest

\* Nodes of the path are changed in place.
LEMMA ChangePath ==
    ASSUME NEW O, NEW p, IsProbe(O, p), NEW S, NEW f \in [DOMAIN p.path -> S], f[1].id \in O
    PROVE  IsProbe(O, [p EXCEPT !.path = f])
<1>1. Len(p.path) \in Nat /\ DOMAIN p.path = 1..Len(p.path) /\ 1 \in DOMAIN p.path
    BY LenProperties, ProbeIsRest
<1>2. f \in Seq(S) /\ 1 \in DOMAIN f
    BY <1>1
<1> QED  BY <1>2, WithPath, ProbeIsRest

\* UpdateProbeHeader keeps the origin of a probe.
LEMMA UpdateProbeHeaderType ==
    ASSUME NEW O, NEW n, NEW s, NEW p, IsProbe(O, p)
    PROVE  IsProbe(O, UpdateProbeHeader(n, s, p))
<1> DEFINE last == Len(p.path)
           stop == {i \in 1..(last - 1) : p.path[i].id \notin s.down}
           from == IF stop = {} THEN 1 ELSE CHOOSE i \in stop : \A j \in stop : j <= i
           Changed(i) == i >= from /\ i < last /\ p.path[i].id \in s.down /\ ~p.path[i].down
           f == [i \in DOMAIN p.path |-> IF Changed(i) THEN PathNode(p.path[i].id, TRUE, 0) ELSE p.path[i]]
           S == {PathNode(p.path[i].id, TRUE, 0) : i \in DOMAIN p.path} \cup {p.path[i] : i \in DOMAIN p.path}
<1>1. f \in [DOMAIN p.path -> S]
    <2> HIDE DEF Changed
    <2> QED  OBVIOUS
<1>2. f[1].id = p.path[1].id
    <2> HIDE DEF Changed
    <2>1. 1 \in DOMAIN p.path
        BY ProbeIsRest
    <2> QED  BY <2>1 DEF PathNode
<1>3. UpdateProbeHeader(n, s, p) = [p EXCEPT !.path = f]
    BY DEF UpdateProbeHeader
<1> HIDE DEF f, S
<1>4. f[1].id \in O
    BY <1>2, ProbeIsRest
<1>5. IsProbe(O, [p EXCEPT !.path = f])
    BY <1>1, <1>4, ChangePath
<1> QED  BY <1>3, <1>5

\* A probe that goes on.
LEMMA PrepareProbeOutcome ==
    ASSUME NEW ts, NEW A, NEW n, NEW s, Here(ts, A, n, s), Ring(n, s) # {},
           NEW p, IsProbe(Holders(Now(ts, n, s.tok), A), p)
    PROVE  IsOutcome(ts, A, n, s, PrepareProbeMessage(n, s, p))
<1> DEFINE O == Holders(Now(ts, n, s.tok), A)
           to == Nearest(p.succ, n, Ring(n, s))
           P == {y \in Others(n) : Dist(p.succ, n, y) <= Dist(p.succ, n, to)}
           passed == Passed(p.succ, n, to)
           more == [i \in DOMAIN passed |-> PathNode(passed[i], passed[i] \in s.down, 0)]
           S == ToSet(p.path) \cup {more[i] : i \in DOMAIN more}
           q == p.path \o more
<1>1. DOMAIN passed = 1..Cardinality(P) /\ Cardinality(P) \in Nat
    <2>1. P \in SUBSET Nodes
        BY DEF Others
    <2> HIDE DEF P
    <2>2. Cardinality(P) \in Nat
        BY <2>1, FS_Subset, FS_CardinalityType, IdAssumption
    <2>3. DOMAIN passed = 1..Cardinality(P)
        BY DEF Passed, P
    <2> QED  BY <2>2, <2>3
<1> HIDE DEF passed, P
<1>2. more \in Seq(S)
    <2>1. more \in [1..Cardinality(P) -> S]
        BY <1>1
    <2> HIDE DEF more, S
    <2> QED  BY <1>1, <2>1
<1> HIDE DEF O
<1>3. IsProbe(O, p) /\ p.path \in Seq(S) /\ 1 \in DOMAIN p.path /\ p.path[1].id \in O
    <2>1. IsProbe(O, p)
        BY DEF O
    <2>2. p.path \in Seq(ToSet(p.path)) /\ 1 \in DOMAIN p.path /\ p.path[1].id \in O
        BY <2>1, ProbeIsRest
    <2>3. ToSet(p.path) \subseteq S
        OBVIOUS
    <2> HIDE DEF S
    <2> QED  BY <2>1, <2>2, <2>3, SeqMono
<1> HIDE DEF more, S
<1>4. q \in Seq(S) /\ Len(q) = Len(p.path) + Len(more)
      /\ \A i \in 1..Len(q) : q[i] = IF i <= Len(p.path) THEN p.path[i] ELSE more[i - Len(p.path)]
    BY <1>2, <1>3, ConcatProperties
<1>5. /\ Len(p.path) \in Nat /\ Len(more) \in Nat /\ DOMAIN p.path = 1..Len(p.path)
      /\ DOMAIN q = 1..Len(q)
    <2>1. Len(p.path) \in Nat /\ DOMAIN p.path = 1..Len(p.path)
        BY <1>3, LenProperties
    <2>2. Len(more) \in Nat
        BY <1>2, LenProperties
    <2>3. DOMAIN q = 1..Len(q)
        BY <1>4, LenProperties
    <2> QED  BY <2>1, <2>2, <2>3
<1> HIDE DEF q
<1>6. 1 \in DOMAIN q /\ q[1] = p.path[1]
    BY <1>3, <1>4, <1>5
<1>7. IsProbe(O, [p EXCEPT !.path = q])
    BY <1>3, <1>4, <1>6, WithPath, ProbeIsRest
<1>8. to # n
    <2>1. n \in Nodes /\ Ring(n, s) \subseteq Others(n) /\ Ring(n, s) \in SUBSET Nodes
        BY HereType
    <2>2. p.succ \in BOOLEAN
        BY <1>3 DEF IsProbe
    <2>3. to \in Ring(n, s)
        BY <2>1, <2>2, NearestType
    <2> HIDE DEF to
    <2> QED  BY <2>1, <2>3 DEF Others
<1> HIDE DEF to
<1>9. IsOutcome(ts, A, n, s, Send(s, "TokenProbe", to, [p EXCEPT !.path = q]))
    <2>1. Body(Now(ts, n, s.tok), A, "TokenProbe", n, to, [p EXCEPT !.path = q])
        BY <1>7 DEF Body, HasTokens, O
    <2>2. Grows(s.tok, s.tok)
        BY HereType, GrowsNot
    <2> QED  BY <1>8, <2>1, <2>2, SendOutcome
<1> QED  BY <1>9 DEF PrepareProbeMessage, q, more, passed, to

\* A new probe, of a node that has a range.
LEMMA GetProbeOutcome ==
    ASSUME NEW ts, NEW A, NEW n, NEW s, Here(ts, A, n, s), s.tok.range # {}, Ring(n, s) # {}, NEW succ \in BOOLEAN
    PROVE  IsOutcome(ts, A, n, s, GetProbeMessage(n, s, succ))
<1> DEFINE q == <<PathNode(n, FALSE, s.hood)>>
           p == [path |-> q, succ |-> succ, source |-> s.tok.ver]
           O == Holders(Now(ts, n, s.tok), A)
<1>1. q \in Seq({PathNode(n, FALSE, s.hood)}) /\ 1 \in DOMAIN q /\ q[1].id = n
    BY DEF PathNode
<1> HIDE DEF q
<1>2. q \in Seq(ToSet(q))
    BY <1>1, SeqOfOwn
<1>3. n \in O
    BY HereType DEF Holders, Now
<1> HIDE DEF O
<1>4. IsProbe(O, p)
    BY <1>1, <1>2, <1>3 DEF IsProbe, IsPath
<1> HIDE DEF p
<1> QED  BY <1>4, PrepareProbeOutcome DEF GetProbeMessage, p, q, O

\* The way back keeps the start of the path.
LEMMA VerifyType ==
    ASSUME NEW O, NEW n, NEW s, NEW p, IsRest(O, p), NEW strict
    PROVE  \/ VerifyProbePath(n, s, p, strict).to = n
           \/ IsProbe(O, VerifyProbePath(n, s, p, strict).p)
<1> DEFINE D(x) == Dist(~p.succ, n, x)
           to == Nearest(~p.succ, n, Ring(n, s))
           farther == {i \in DOMAIN p.path : D(p.path[i].id) >= D(to)}
           k == CHOOSE i \in farther : \A j \in farther : j <= i
           matched == \A i \in DOMAIN p.path : i > k /\ p.path[i].id \in s.down => p.path[i].down
           ok == to # n /\ farther # {} /\ p.path[k].id = to /\ (strict => matched)
           q == SubSeq(p.path, 1, k)
<1>1. Len(p.path) \in Nat /\ DOMAIN p.path = 1..Len(p.path)
    BY LenProperties DEF IsRest
<1>2. ASSUME farther # {} PROVE IsProbe(O, [p EXCEPT !.path = q])
    <2>1. farther \in SUBSET (1..Len(p.path))
        BY <1>1
    <2>2. \E i \in farther : \A j \in farther : j <= i
        <3> HIDE DEF farther
        <3> QED  BY <1>1, <1>2, <2>1, FirstExists
    <2>3. k \in farther
        BY <2>2
    <2> HIDE DEF k, farther
    <2>4. k \in Nat /\ k <= Len(p.path) /\ k > 0
        BY <1>1, <2>1, <2>3
    <2>5. q \in Seq(ToSet(p.path)) /\ 1 \in DOMAIN q /\ q[1].id \in O
        BY <2>4, CutPath
    <2> HIDE DEF q
    <2> QED  BY <2>5, WithPath
<1>3. VerifyProbePath(n, s, p, strict) = IF ok THEN [to |-> to, p |-> [p EXCEPT !.path = q]] ELSE [to |-> n, p |-> p]
    BY DEF VerifyProbePath
<1>4. ok => farther # {}
    OBVIOUS
<1> HIDE DEF ok, farther, q
<1> QED  BY <1>2, <1>3, <1>4

\* The last node of the path is dropped.
LEMMA FrontRest ==
    ASSUME NEW O, NEW p, IsProbe(O, p)
    PROVE  IsRest(O, [p EXCEPT !.path = Front(@)])
<1> DEFINE q == SubSeq(p.path, 1, Len(p.path) - 1)
<1>1. IsRest(O, p) /\ 1 \in DOMAIN p.path /\ Len(p.path) \in Nat /\ DOMAIN p.path = 1..Len(p.path)
    BY ProbeIsRest, LenProperties
<1>2. Len(p.path) - 1 \in Nat /\ Len(p.path) - 1 <= Len(p.path)
    BY <1>1
<1>3. q \in Seq(ToSet(p.path)) /\ (1 \in DOMAIN q => q[1].id \in O)
    BY <1>1, <1>2, CutPath
<1>4. [p EXCEPT !.path = Front(@)] = [p EXCEPT !.path = q]
    BY DEF Front
<1> HIDE DEF q
<1> QED  BY <1>1, <1>3, <1>4, WithPath

\* A promise that is kept or dropped.
LEMMA EchoesHere ==
    ASSUME NEW ts, NEW A, NEW n, NEW s, Here(ts, A, n, s), NEW succ \in BOOLEAN, NEW e \in Promises(s.tok.ver)
    PROVE  Here(ts, A, n, [s EXCEPT !.echoes[succ] = e]) /\ [s EXCEPT !.echoes[succ] = e].tok = s.tok
<1> DEFINE echoes == [s.echoes EXCEPT ![succ] = e]
           u == [s EXCEPT !.echoes[succ] = e]
<1>1. s \in State /\ s.echoes \in [BOOLEAN -> Seq(Promise)] /\ \A d \in BOOLEAN : s.echoes[d] \in Promises(s.tok.ver)
    BY DEF Here, Table, State
<1>2. echoes \in [BOOLEAN -> Seq(Promise)] /\ \A d \in BOOLEAN : echoes[d] \in Promises(s.tok.ver)
    <2>1. e \in Seq(Promise)
        BY DEF Promises
    <2> QED  BY <1>1, <2>1
<1>3. u = [s EXCEPT !.echoes = echoes]
    BY <1>1 DEF State
<1> HIDE DEF echoes
<1>4. /\ u \in State /\ u.tok = s.tok /\ u.view = s.view /\ u.echoes = echoes
      /\ u.down = s.down /\ u.hood = s.hood
    BY <1>1, <1>2, <1>3 DEF State
<1> HIDE DEF u
<1>5. u \in Table(ts, A)
    BY <1>2, <1>4 DEF Here, Table
<1>6. Own(n, u)
    BY <1>4 DEF Here, Own
<1> QED  BY <1>4, <1>5, <1>6 DEF Here, u

\* The other direction.
LEMMA Other ==
    ASSUME NEW b \in BOOLEAN
    PROVE  (~b) \in BOOLEAN
OBVIOUS

\* A promise of a node that has a range, and the echo that tells of it.
LEMMA PrepareEchoOutcome ==
    ASSUME NEW ts, NEW A, NEW n, NEW s, Here(ts, A, n, s), s.tok.range # {},
           NEW p, IsProbe(Holders(ts, A), p), NEW to, to # n
    PROVE  IsOutcome(ts, A, n, s, PrepareEchoMessage(n, s, p, to))
<1> DEFINE way == ~p.succ
           origin == p.path[1].id
           t == IncrementRecoveryVersion(s.tok)
           known == IF origin = n THEN t ELSE s.view[origin]
           r == Split(n, t, origin, known)
           u == [s EXCEPT !.tok = r.tok]
           d == Dist(way, n, origin)
           all == AddEcho(u.echoes[way], u.tok.ver, d)
           v == [u EXCEPT !.echoes[way] = all]
           e == [probe |-> p, range |-> u.tok.range, ver |-> u.tok.ver, origin |-> n]
<1>1. origin \in Nodes /\ n \in Nodes /\ s.tok \in Tok /\ s.tok.ver \in Nat /\ Centred(n, s.tok)
    BY ProbeIsRest, HereType DEF Holders
<1>2. t \in Tok /\ s.tok.ver < t.ver /\ t.ver \in Nat /\ Grows(s.tok, t) /\ Centred(n, t) /\ t.range # {}
    BY <1>1, IncrementType DEF Tok, Centred
<1> HIDE DEF origin, t
<1>3. known \in Tok
    BY <1>1, <1>2, ViewKnown
<1>4. r.tok \in Tok /\ Keeps(n, t, r.tok) /\ r.tok.ver \in Nat /\ t.ver <= r.tok.ver
    <2> HIDE DEF known
    <2>1. Cut(n, t, known.ver, r)
        BY <1>1, <1>2, <1>3, SplitCut
    <2> QED  BY <1>2, <2>1, KeepsVersions DEF Cut
<1> HIDE DEF r
<1>5. s.tok.ver < r.tok.ver /\ Keeps(n, s.tok, r.tok) /\ Grows(s.tok, r.tok) /\ r.tok.range # {}
    <2>1. s.tok.ver < r.tok.ver
        BY <1>1, <1>2, <1>4
    <2>2. Keeps(n, s.tok, r.tok)
        BY <1>1, <1>2, <1>4, KeepsAgain
    <2> QED  BY <2>1, <2>2 DEF Keeps, Grows
<1>6. Here(ts, A, n, u) /\ u.tok = r.tok
    BY <1>4, <1>5, TokHere
<1>7. u.echoes = s.echoes
    <2>1. s \in State
        BY HereType
    <2> QED  BY <2>1 DEF State
<1> HIDE DEF u
<1>8. way \in BOOLEAN
    <2>1. p.succ \in BOOLEAN
        BY DEF IsProbe
    <2> QED  BY <2>1, Other
<1> HIDE DEF way
<1>9. d \in Nat
    BY <1>1, <1>8, DistType
<1>10. u.echoes[way] \in Promises(s.tok.ver)
    BY <1>7, <1>8 DEF Here, Table
<1>11. all \in Promises(u.tok.ver)
    BY <1>1, <1>4, <1>5, <1>6, <1>9, <1>10, AddEchoInOrder
<1> HIDE DEF all
<1>12. Here(ts, A, n, v) /\ v.tok = u.tok
    BY <1>6, <1>8, <1>11, EchoesHere
<1> HIDE DEF v
<1>13. IsEcho(Now(ts, n, v.tok), A, e)
    <2>1. Now(ts, n, v.tok)[n] = u.tok
        BY <1>12, HereType DEF Now
    <2>2. Holders(ts, A) \subseteq Holders(Now(ts, n, v.tok), A)
        <3>1. Later(ts, A, Now(ts, n, v.tok), A)
            BY <1>5, <1>6, <1>12, NowLater
        <3> QED  BY <3>1, HoldersLater
    <2>3. IsProbe(Holders(Now(ts, n, v.tok), A), p)
        BY <2>2, ProbeLater
    <2>4. u.tok.range \in Ranges /\ u.tok.range # {} /\ u.tok.ver \in Nat /\ u.tok.ver <= u.tok.ver
        BY <1>4, <1>5, <1>6 DEF Tok
    <2>5. n \in A => u.tok.ver <= Now(ts, n, v.tok)[n].ver
        BY <2>1, <2>4
    <2> QED  BY <1>1, <2>3, <2>4, <2>5 DEF IsEcho
<1> HIDE DEF e
<1>14. Body(Now(ts, n, v.tok), A, "TokenEcho", n, to, e)
    BY <1>13 DEF Body, HasTokens
<1>15. IsOutcome(ts, A, n, s, Send(v, "TokenEcho", to, e))
    BY <1>5, <1>6, <1>12, <1>14, SendOutcome
<1>16. PrepareEchoMessage(n, s, p, to) = Send(v, "TokenEcho", to, e)
    BY DEF PrepareEchoMessage, SendEcho, v, e, all, u, r, known, t, origin, way
<1> QED  BY <1>15, <1>16

\* TokenProbeMessageHandler.
LEMMA ProbeHandlerOutcome ==
    ASSUME NEW ts, NEW A, NEW n, NEW s, Here(ts, A, n, s), NEW m, IsProbe(Holders(ts, A), m.body)
    PROVE  IsOutcome(ts, A, n, s, TokenProbeMessageHandler(n, s, m))
<1> DEFINE O == Holders(ts, A)
           p == UpdateProbeHeader(n, s, m.body)
           last == Len(p.path)
           back == VerifyProbePath(n, s, [p EXCEPT !.path = Front(@)], FALSE)
           q == [p.path EXCEPT ![last] = PathNode(n, FALSE, s.hood)]
<1>1. IsProbe(O, p)
    BY UpdateProbeHeaderType
<1> HIDE DEF p
<1>2. back.to = n \/ IsProbe(O, back.p)
    BY <1>1, FrontRest, VerifyType
<1>3. IsOutcome(ts, A, n, s, Nothing(s))
    BY SameOutcome
<1> HIDE DEF back
<1>4. ASSUME s.tok.range # {} PROVE IsOutcome(ts, A, n, s, Answer(n, s, p.path[1].id, back))
    BY <1>2, <1>3, <1>4, PrepareEchoOutcome DEF Answer
<1>5. ASSUME p.path[last].id = n PROVE IsProbe(O, [p EXCEPT !.path[last] = PathNode(n, FALSE, s.hood)])
    <2> HIDE DEF O
    <2> DEFINE S == ToSet(p.path) \cup {PathNode(n, FALSE, s.hood)}
    <2>1. p.path \in Seq(ToSet(p.path)) /\ 1 \in DOMAIN p.path /\ p.path[1].id \in O
        BY <1>1, ProbeIsRest
    <2>2. \A i \in DOMAIN p.path : q[i] \in S
        BY DEF ToSet
    <2>3. q \in [DOMAIN p.path -> S]
        BY <2>2
    <2>4. q[1].id \in O
        BY <1>5, <2>1 DEF PathNode
    <2>5. [p EXCEPT !.path[last] = PathNode(n, FALSE, s.hood)] = [p EXCEPT !.path = q]
        OBVIOUS
    <2> HIDE DEF q, S
    <2> QED  BY <1>1, <2>3, <2>4, <2>5, ChangePath
<1>6. O \subseteq Holders(Now(ts, n, s.tok), A)
    <2>1. Later(ts, A, Now(ts, n, s.tok), A)
        BY SameOutcome, NowLater
    <2> QED  BY <2>1, HoldersLater
<1> HIDE DEF O
<1>7. ASSUME p.path[last].id = n, Ring(n, s) # {}
      PROVE  IsOutcome(ts, A, n, s, PrepareProbeMessage(n, s, [p EXCEPT !.path[last] = PathNode(n, FALSE, s.hood)]))
    BY <1>5, <1>6, <1>7, ProbeLater, PrepareProbeOutcome
<1> QED  BY <1>3, <1>4, <1>7 DEF TokenProbeMessageHandler, HandleProbe, p, back

\* The gap is closed, and divided with the node that echoed.
LEMMA DivideOutcome ==
    ASSUME NEW ts, NEW A, NEW n, NEW s, Here(ts, A, n, s), NEW e, IsEcho(ts, A, e), e.origin # n,
           NEW t \in Tok, Keeps(n, s.tok, t), NEW r, Cut(n, t, e.ver, r)
    PROVE  IsOutcome(ts, A, n, s, Divide(s, e, r))
<1> DEFINE u == IncrementRecoveryVersion(r.tok)
<1>1. r.tok \in Tok /\ Keeps(n, t, r.tok) /\ r.headers \in Seq(Headers(r.tok.ver, e.ver)) /\ s.tok \in Tok
    BY HereType DEF Cut
<1>2. u \in Tok /\ u.range = r.tok.range /\ r.tok.ver < u.ver /\ Grows(r.tok, u)
    BY <1>1, IncrementType
<1> HIDE DEF u
<1>3. /\ r.tok.ver \in Nat /\ u.ver \in Nat
      /\ e.ver \in Nat /\ (e.origin \in A => e.ver <= ts[e.origin].ver)
    BY <1>1, <1>2 DEF Tok, IsEcho
<1>4. Keeps(n, s.tok, u)
    <2>1. Keeps(n, s.tok, r.tok)
        <3>1. Grows(s.tok, t)
            BY DEF Keeps
        <3> QED  BY <1>1, <3>1, KeepsAgain
    <2>2. Keeps(n, r.tok, u)
        BY <1>2, <2>1 DEF Keeps, Centred
    <2>3. Grows(s.tok, r.tok)
        BY <2>1 DEF Keeps
    <2> QED  BY <1>1, <1>2, <2>2, <2>3, KeepsAgain
<1>5. r.headers \in Seq(Headers(u.ver, e.ver))
    <2>1. Headers(r.tok.ver, e.ver) \subseteq Headers(u.ver, e.ver)
        BY <1>2, <1>3 DEF Headers, Hdr
    <2> QED  BY <1>1, <2>1, SeqMono
<1>6. IsOutcome(ts, A, n, s, Send([s EXCEPT !.tok = u], "TokenTransfer", e.origin, r.headers))
    BY <1>2, <1>3, <1>4, <1>5, CutOutcome
<1>7. IsOutcome(ts, A, n, s, Nothing([s EXCEPT !.tok = u]))
    BY <1>2, <1>4, TokOutcome
<1> QED  BY <1>6, <1>7 DEF Divide, u

\* A node that takes the whole ring.
LEMMA TakeAllOutcome ==
    ASSUME NEW ts, NEW A, NEW n, NEW s, Here(ts, A, n, s)
    PROVE  IsOutcome(ts, A, n, s, Nothing(IF s.tok.range = Ids THEN s
                                          ELSE [s EXCEPT !.tok = IncrementRecoveryVersion(Update(@, Ids))]))
<1> DEFINE t == Update(s.tok, Ids)
           u == IncrementRecoveryVersion(t)
<1>1. s.tok \in Tok /\ n \in Ids /\ Ids \in Ranges
    BY HereType, NodeIsId, WholeIs
<1>2. t \in Tok /\ Keeps(n, s.tok, t) /\ t.range = Ids
    BY <1>1, UpdateKeeps
<1> HIDE DEF t
<1>3. u \in Tok /\ Grows(t, u) /\ u.range = t.range
    BY <1>2, IncrementType
<1> HIDE DEF u
<1>4. Keeps(n, s.tok, u)
    <2>1. Keeps(n, t, u)
        BY <1>1, <1>2, <1>3 DEF Keeps, Centred
    <2>2. Grows(s.tok, t)
        BY <1>2 DEF Keeps
    <2> QED  BY <1>1, <1>2, <1>3, <2>1, <2>2, KeepsAgain
<1>5. IsOutcome(ts, A, n, s, Nothing([s EXCEPT !.tok = u]))
    BY <1>3, <1>4, TokOutcome
<1>6. IsOutcome(ts, A, n, s, Nothing(s))
    BY SameOutcome
<1> QED  BY <1>5, <1>6 DEF t, u

\* An echo that is back recovers the range, for a node that has one still.
LEMMA RecoverOutcome ==
    ASSUME NEW ts, NEW A, NEW n, NEW s, Here(ts, A, n, s), s.tok.range # {}, NEW e, IsEcho(ts, A, e)
    PROVE  IsOutcome(ts, A, n, s, Recover(n, s, e))
<1> DEFINE succ == e.probe.succ
           edge == Walk(~succ, Edge(~succ, e.range), 1)
           q == Until(succ, s.tok.range, edge)
           t == Update(s.tok, q)
           r == SplitTo(succ, t, e.origin, e.ver, n)
<1>1. IsOutcome(ts, A, n, s, Nothing(s))
    BY SameOutcome
<1>2. CASE e.origin = n
    BY <1>2, TakeAllOutcome DEF Recover
<1>3. CASE e.origin # n /\ edge \in s.tok.range
    BY <1>1, <1>3 DEF Recover, edge
<1>4. CASE e.origin # n /\ edge \notin s.tok.range
    <2>1. /\ s.tok \in Tok /\ s.tok.range \in Ranges /\ n \in s.tok.range /\ n \in Nodes
          /\ e.range \in Ranges /\ e.range # {} /\ succ \in BOOLEAN /\ e.ver \in Nat /\ e.origin \in Nodes
        BY HereType DEF Centred, IsEcho, IsProbe
    <2>2. n \in q /\ q \in Ranges
        BY <1>4, <2>1, RecoverKeeps
    <2> HIDE DEF q
    <2>3. t \in Tok /\ Keeps(n, s.tok, t) /\ n \in t.range
        BY <2>1, <2>2, UpdateKeeps
    <2> HIDE DEF t
    <2>4. Cut(n, t, e.ver, r)
        BY <2>1, <2>3, SplitToCut
    <2> HIDE DEF r
    <2>5. IsOutcome(ts, A, n, s, Divide(s, e, r))
        BY <1>4, <2>3, <2>4, DivideOutcome
    <2>6. Recover(n, s, e) = Divide(s, e, r)
        BY <1>4 DEF Recover, r, t, q
    <2> QED  BY <2>5, <2>6
<1> QED  BY <1>2, <1>3, <1>4

\* An echo goes on.
LEMMA ForwardOutcome ==
    ASSUME NEW ts, NEW A, NEW n, NEW s, Here(ts, A, n, s), NEW e, IsEcho(ts, A, e),
           NEW back, back.to = n \/ IsProbe(Holders(ts, A), back.p)
    PROVE  IsOutcome(ts, A, n, s, ForwardEcho(n, s, e, back))
<1> DEFINE t == IncrementRecoveryVersion(s.tok)
           u == [s EXCEPT !.tok = t]
           f == [e EXCEPT !.probe = back.p]
<1>1. IsOutcome(ts, A, n, s, Nothing(s))
    BY SameOutcome
<1>2. t \in Tok /\ Grows(s.tok, t) /\ Keeps(n, s.tok, t)
    BY HereType, IncrementType DEF Keeps, Centred
<1>3. Here(ts, A, n, u) /\ u.tok = t
    BY <1>2, TokHere
<1> HIDE DEF u, t
<1>4. ASSUME IsProbe(Holders(ts, A), back.p) PROVE IsEcho(ts, A, f)
    <2>1. \A r, x, y, z, v : r = [probe |-> x, range |-> y, ver |-> z, origin |-> v]
                => [r EXCEPT !.probe = back.p] = [probe |-> back.p, range |-> y, ver |-> z, origin |-> v]
        OBVIOUS
    <2>2. e = [probe |-> e.probe, range |-> e.range, ver |-> e.ver, origin |-> e.origin]
        BY DEF IsEcho
    <2>3. f = [probe |-> back.p, range |-> e.range, ver |-> e.ver, origin |-> e.origin]
        BY <2>1, <2>2
    <2> HIDE DEF f
    <2> QED  BY <1>4, <2>3 DEF IsEcho
<1> HIDE DEF f
<1>5. ASSUME back.to # n PROVE IsOutcome(ts, A, n, s, Send(u, "TokenEcho", back.to, f))
    <2>1. Body(ts, A, "TokenEcho", n, back.to, f)
        BY <1>4, <1>5 DEF Body, HasTokens
    <2>2. Later(ts, A, Now(ts, n, u.tok), A)
        BY <1>2, <1>3, NowLater
    <2>3. Body(Now(ts, n, u.tok), A, "TokenEcho", n, back.to, f)
        BY <2>1, <2>2, BodyLater
    <2> QED  BY <1>2, <1>3, <1>5, <2>3, SendOutcome
<1> QED  BY <1>1, <1>5 DEF ForwardEcho, u, f, t

\* TokenEchoMessageHandler.
LEMMA EchoHandlerOutcome ==
    ASSUME NEW ts, NEW A, NEW n, NEW s, Here(ts, A, n, s), NEW m, IsEcho(ts, A, m.body)
    PROVE  IsOutcome(ts, A, n, s, TokenEchoMessageHandler(n, s, m))
<1> DEFINE e == m.body
           p == e.probe
           last == p.path[Len(p.path)]
           dist == Dist(p.succ, n, e.origin)
           all == Effective(s.echoes[p.succ], p.source, dist)
           t == [s EXCEPT !.echoes[p.succ] = all]
           back == VerifyProbePath(n, s, [p EXCEPT !.path = Front(@)], TRUE)
<1>1. IsProbe(Holders(ts, A), p) /\ p.succ \in BOOLEAN
    BY DEF IsEcho, IsProbe
<1>2. IsOutcome(ts, A, n, s, Nothing(s))
    BY SameOutcome
<1>3. all \in Promises(s.tok.ver)
    <2>1. s.echoes[p.succ] \in Promises(s.tok.ver) /\ s.tok.ver \in Nat
        BY <1>1, HereType DEF Here, Table
    <2> QED  BY <2>1, EffectivePromises
<1> HIDE DEF all
<1>4. Here(ts, A, n, t) /\ t.tok = s.tok
    BY <1>1, <1>3, EchoesHere
<1> HIDE DEF t
<1>5. ASSUME Len(p.path) = 1, last.id = n PROVE s.tok.range # {}
    <2>1. n \in Holders(ts, A)
        BY <1>1, <1>5, ProbeIsRest
    <2> QED  BY <2>1 DEF Holders, Here, Grows
<1>6. ASSUME Len(p.path) = 1, last.id = n PROVE IsOutcome(ts, A, n, s, Recover(n, t, e))
    <2>1. IsOutcome(ts, A, n, t, Recover(n, t, e))
        BY <1>4, <1>5, <1>6, RecoverOutcome
    <2> QED  BY <1>4, <2>1 DEF IsOutcome
<1>7. IsOutcome(ts, A, n, s, Nothing(t))
    BY <1>4, SameOutcome, NothingOutcome
<1>8. back.to = n \/ IsProbe(Holders(ts, A), back.p)
    BY <1>1, FrontRest, VerifyType
<1> HIDE DEF back
<1>9. IsOutcome(ts, A, n, s, ForwardEcho(n, s, e, back))
    BY <1>8, ForwardOutcome
<1>10. CASE Len(p.path) = 1 /\ (last.id # n \/ last.down)
    BY <1>2, <1>10 DEF TokenEchoMessageHandler
<1>11. CASE Len(p.path) = 1 /\ last.id = n /\ ~last.down
    BY <1>6, <1>7, <1>11 DEF TokenEchoMessageHandler, t, all
<1>12. CASE Len(p.path) # 1
    BY <1>2, <1>9, <1>12 DEF TokenEchoMessageHandler, back
<1> QED  BY <1>10, <1>11, <1>12

-----------------------------------------------------------------------------
(***************************************************************************)
(* The check at the end of a lock.                                         *)
(***************************************************************************)

\* A request for a token.
LEMMA RequestOutcome ==
    ASSUME NEW ts, NEW A, NEW n, NEW s, Here(ts, A, n, s), NEW to, to # n
    PROVE  IsOutcome(ts, A, n, s, Send(s, "TokenRequest", to, <<>>))
<1>1. Body(Now(ts, n, s.tok), A, "TokenRequest", n, to, <<>>)
    BY DEF Body, HasTokens
<1> QED  BY <1>1, SameOutcome, SendOutcome

\* The neighbours of a node are others.
LEMMA NearestOther ==
    ASSUME NEW ts, NEW A, NEW n, NEW s, Here(ts, A, n, s), NEW succ \in BOOLEAN, NEW S \in SUBSET Ring(n, s)
    PROVE  /\ Nearest(succ, n, S) \in Nodes
           /\ S # {} => Nearest(succ, n, S) # n
<1>1. n \in Nodes /\ S \in SUBSET Nodes /\ S \subseteq Others(n)
    BY HereType
<1>2. Nearest(succ, n, S) \in S \/ (S = {} /\ Nearest(succ, n, S) = n)
    BY <1>1, NearestType
<1> QED  BY <1>1, <1>2 DEF Others

\* CheckSuccToken and CheckPredToken, of a node that has a range and is not alone.
LEMMA CheckSideOutcome ==
    ASSUME NEW ts, NEW A, NEW n, NEW s, Here(ts, A, n, s), s.tok.range # {}, Ring(n, s) # {}, NEW succ \in BOOLEAN
    PROVE  IsOutcome(ts, A, n, s, CheckSide(n, s, succ)) /\ CheckSide(n, s, succ).s.down = s.down
<1> DEFINE ring == Ring(n, s)
           neighbor == Nearest(succ, n, ring)
           known == {x \in ring : s.view[x].range # {}}
           target == Nearest(succ, n, known)
           mid == MidPoint(succ, n, target)
           next == target # n /\ IsAdjacent(succ, s.tok.range, s.view[target].range)
           Good(a) == IsOutcome(ts, A, n, s, a) /\ a.s.down = s.down
<1>1. neighbor \in Nodes /\ neighbor # n /\ target \in Nodes
    <2>1. ring \in SUBSET Ring(n, s) /\ known \in SUBSET Ring(n, s) /\ ring # {}
        OBVIOUS
    <2> HIDE DEF ring, known
    <2> QED  BY <2>1, NearestOther
<1> HIDE DEF neighbor, target
<1>2. Good(Nothing(s))
    BY SameOutcome DEF Nothing
<1>3. ASSUME NEW to \in Nodes, to # n PROVE Good(CreateTokenTransferMessage(n, s, to))
    <2>1. IsOutcome(ts, A, n, s, CreateTokenTransferMessage(n, s, to))
        BY <1>3, TransferOutcome
    <2>2. \A t : [s EXCEPT !.tok = t].down = s.down
        <3>1. s \in State
            BY HereType
        <3> QED  BY <3>1 DEF State
    <2>3. CreateTokenTransferMessage(n, s, to).s.down = s.down
        BY <2>2 DEF CreateTokenTransferMessage, Give, Nothing, Send
    <2> QED  BY <2>1, <2>3
<1>4. target # n => Good(Send(s, "TokenRequest", target, <<>>))
    BY RequestOutcome DEF Send
<1>5. Good(GetProbeMessage(n, s, succ))
    BY GetProbeOutcome DEF GetProbeMessage, PrepareProbeMessage, Send
<1> HIDE DEF Good
<1>6. CASE neighbor \in s.tok.range
    <2>1. Good(CheckSide(n, s, succ))
        BY <1>1, <1>3, <1>6 DEF CheckSide, neighbor
    <2> QED  BY <2>1 DEF Good
<1>7. CASE neighbor \notin s.tok.range /\ next
    <2>1. Good(CheckSide(n, s, succ))
        BY <1>1, <1>2, <1>3, <1>4, <1>7 DEF CheckSide, neighbor, target
    <2> QED  BY <2>1 DEF Good
<1>8. CASE neighbor \notin s.tok.range /\ ~next
    <2>1. Good(CheckSide(n, s, succ))
        BY <1>2, <1>5, <1>8 DEF CheckSide, neighbor, target
    <2> QED  BY <2>1 DEF Good
<1> QED  BY <1>6, <1>7, <1>8

\* CheckToken.
LEMMA CheckTokenOutcome ==
    ASSUME NEW ts, NEW A, NEW n, NEW s, Here(ts, A, n, s)
    PROVE  IsOutcome(ts, A, n, s, CheckToken(n, s))
<1>1. CASE Ring(n, s) = {}
    BY <1>1, TakeAllOutcome DEF CheckToken
<1>2. CASE Ring(n, s) # {} /\ s.tok.range = {}
    <2>1. IsOutcome(ts, A, n, s, Nothing(s))
        BY SameOutcome
    <2>2. ASSUME NEW to, to # n PROVE IsOutcome(ts, A, n, s, Send(s, "TokenRequest", to, <<>>))
        BY <2>2, RequestOutcome
    <2>3. Nearest(TRUE, n, Ring(n, s)) # n /\ Nearest(FALSE, n, Ring(n, s)) # n
        BY <1>2, NearestOther
    <2>4. IsOutcome(ts, A, n, s, RequestFirstToken(n, s))
        BY <2>2, <2>3 DEF RequestFirstToken
    <2> QED  BY <1>2, <2>1, <2>4 DEF CheckToken
<1>3. CASE Ring(n, s) # {} /\ s.tok.range # {}
    <2> DEFINE a == CheckSide(n, s, TRUE)
               b == CheckSide(n, a.s, FALSE)
    <2>1. IsOutcome(ts, A, n, s, a) /\ a.s.down = s.down
        <3>1. \A succ \in BOOLEAN : IsOutcome(ts, A, n, s, CheckSide(n, s, succ)) /\ CheckSide(n, s, succ).s.down = s.down
            BY <1>3, CheckSideOutcome
        <3> QED  BY <3>1, Zenon
    <2> HIDE DEF a
    <2>2. Here(ts, A, n, a.s) /\ a.s.tok.range # {} /\ Ring(n, a.s) # {}
        BY <1>3, <2>1 DEF IsOutcome, Grows, Ring
    <2>3. IsOutcome(ts, A, n, a.s, b)
        <3>1. \A succ \in BOOLEAN : IsOutcome(ts, A, n, a.s, CheckSide(n, a.s, succ))
            BY <2>2, CheckSideOutcome
        <3> QED  BY <3>1, Zenon
    <2> HIDE DEF b
    <2>4. IsOutcome(ts, A, n, s, After(a.out, b))
        BY <2>1, <2>3, AfterOutcome
    <2> QED  BY <1>3, <2>4 DEF CheckToken, CheckOtherSide, a, b
<1> QED  BY <1>1, <1>2, <1>3

\* The end of a lock.
LEMMA UnlockOutcome ==
    ASSUME NEW ts, NEW A, NEW n, NEW s, Here(ts, A, n, s), NEW a, IsOutcome(ts, A, n, s, a)
    PROVE  IsOutcome(ts, A, n, s, Unlock(n, s, a))
<1>1. IsOutcome(ts, A, n, a.s, CheckToken(n, a.s))
    BY CheckTokenOutcome DEF IsOutcome
<1>2. IsOutcome(ts, A, n, s, After(a.out, CheckToken(n, a.s)))
    BY <1>1, AfterOutcome
<1> QED  BY <1>2 DEF Unlock

\* Whatever handler a message has.
LEMMA HandleOutcome ==
    ASSUME NEW ts, NEW A, NEW n, NEW s, Here(ts, A, n, s),
           NEW m, InFlight(ts, A, m), Waiting(ts, A, m), m.to = n
    PROVE  IsOutcome(ts, A, n, s, Handle(n, s, m))
<1>1. m.from \in Nodes /\ m.from # n /\ Body(ts, A, m.type, m.from, m.to, m.body)
    BY DEF InFlight
<1>2. m.type \in Handlers /\ m.rejected \in Seq(Hdrs(ts, A, m.from, m.to))
    BY DEF Waiting
<1>3. CASE m.type = "TokenTransfer"
    <2>1. IsOutcome(ts, A, n, s, TokenTransferMessageHandler(s, m))
        BY <1>1, <1>2, TransferHandlerOutcome
    <2> QED  BY <1>3, <2>1 DEF Handle
<1>4. CASE m.type = "TokenRequest"
    <2>1. IsOutcome(ts, A, n, s, CreateTokenTransferMessage(n, s, m.from))
        BY <1>1, TransferOutcome
    <2> QED  BY <1>4, <2>1 DEF Handle
<1>5. CASE m.type = "TokenProbe"
    <2>1. IsOutcome(ts, A, n, s, TokenProbeMessageHandler(n, s, m))
        BY <1>1, <1>5, ProbeHandlerOutcome DEF Body
    <2> QED  BY <1>5, <2>1 DEF Handle
<1>6. CASE m.type = "TokenEcho"
    <2>1. IsOutcome(ts, A, n, s, TokenEchoMessageHandler(n, s, m))
        BY <1>1, <1>6, EchoHandlerOutcome DEF Body
    <2> QED  BY <1>6, <2>1 DEF Handle
<1> QED  BY <1>2, <1>3, <1>4, <1>5, <1>6 DEF Handlers

-----------------------------------------------------------------------------
(***************************************************************************)
(* The invariant.                                                          *)
(***************************************************************************)

\* The tokens of the tables.
LEMMA TokensType ==
    ASSUME IInv
    PROVE  /\ Toks \in [Nodes -> Tok] /\ alive \subseteq Nodes /\ late \subseteq Nodes
           /\ \A x \in Nodes : Toks[x] = node[x].tok
BY DEF IInv, Table, State, Toks

\* The table of a node, before a step.
LEMMA NodeHere ==
    ASSUME IInv, NEW n \in alive
    PROVE  /\ Here(Toks, alive, n, node[n])
           /\ node[n].tok = Toks[n] /\ n \in Nodes
<1>1. /\ Toks \in [Nodes -> Tok] /\ alive \subseteq Nodes /\ n \in Nodes
      /\ Toks[n] = node[n].tok /\ Toks[n] \in Tok
    BY TokensType
<1>2. node[n] \in Table(Toks, alive) /\ Own(n, node[n])
    BY <1>1 DEF IInv
<1> QED  BY <1>1, <1>2, GrowsNot DEF Here

\* What is sent is in flight when the step is done.
LEMMA SentInFlight ==
    ASSUME NEW us, NEW B \in SUBSET Nodes, NEW n \in Nodes,
           NEW s, s.tok \in Tok, s.view \in [Nodes -> Tok], s.down \subseteq Nodes,
           \A x \in B : IF x = n THEN s.tok.ver <= us[x].ver ELSE s.view[x].ver <= us[x].ver,
           NEW type, NEW to \in B, to # n, NEW body, Body(us, B, type, n, to, body)
    PROVE  InFlight(us, B, Message(n, s, type, to, body))
<1> DEFINE m == Message(n, s, type, to, body)
<1>1. /\ m = [type |-> type, from |-> n, to |-> to, view |-> [s.view EXCEPT ![n] = s.tok],
              down |-> s.down, body |-> body]
      /\ ~IsReceived(m)
    BY DEF Message, IsReceived
<1>2. [s.view EXCEPT ![n] = s.tok] \in [Nodes -> Tok]
    OBVIOUS
<1>3. ASSUME NEW x \in B PROVE [s.view EXCEPT ![n] = s.tok][x].ver <= us[x].ver
    OBVIOUS
<1> HIDE DEF m
<1>4. Fresh(us, B, m)
    BY <1>1, <1>2, <1>3 DEF Fresh
<1> QED  BY <1>1, <1>4 DEF InFlight, m

\* Of what is sent, some is on its way.
LEMMA SomeInFlight ==
    ASSUME NEW ts, NEW n, NEW s, NEW a, NEW rest, IsOutcome(ts, alive, n, s, a), SendSome(n, a, rest),
           NEW m \in msgs', m \notin rest
    PROVE  InFlight(Now(ts, n, a.s.tok), alive, m)
<1>1. PICK o \in a.out : o.to \in alive /\ m = Message(n, a.s, o.type, o.to, o.body)
    BY DEF SendSome
<1> DEFINE us == Now(ts, n, a.s.tok)
<1>2. Here(ts, alive, n, a.s) /\ o.to # n /\ Body(us, alive, o.type, n, o.to, o.body)
    BY DEF IsOutcome
<1>3. /\ alive \in SUBSET Nodes /\ n \in Nodes /\ a.s.tok \in Tok /\ a.s.tok.ver \in Nat
      /\ a.s.view \in [Nodes -> Tok] /\ a.s.down \subseteq Nodes /\ ts \in [Nodes -> Tok]
    BY <1>2, HereType
<1>4. \A x \in alive : IF x = n THEN a.s.tok.ver <= us[x].ver ELSE a.s.view[x].ver <= us[x].ver
    BY <1>2, <1>3 DEF Here, Table, Now
<1> HIDE DEF us
<1>5. InFlight(us, alive, m)
    BY <1>1, <1>2, <1>3, <1>4, SentInFlight
<1> QED  BY <1>5 DEF us

\* The end of a step keeps the invariant.
LEMMA FinishInv ==
    ASSUME IInv, NEW n \in alive, NEW a, IsOutcome(Toks, alive, n, node[n], a),
           NEW rest, \A m \in rest : InFlight(Toks, alive, m), Finish(n, a, rest), alive' = alive, late' = late
    PROVE  IInv'
<1> DEFINE us == Now(Toks, n, a.s.tok)
<1>1. /\ Here(Toks, alive, n, node[n]) /\ Here(Toks, alive, n, a.s)
      /\ Grows(node[n].tok, a.s.tok) /\ n \in Nodes
    BY NodeHere DEF IsOutcome
<1>2. Later(Toks, alive, us, alive)
    BY <1>1, NowLater
<1>3. node' = [node EXCEPT ![n] = a.s] /\ node \in [Nodes -> Table(Toks, alive)]
    BY DEF Finish, IInv
<1>4. Toks' = us
    BY <1>1, <1>3 DEF Toks, Now
<1> HIDE DEF us
<1>5. node' \in [Nodes -> Table(us, alive)]
    <2>1. Table(Toks, alive) \subseteq Table(us, alive)
        BY <1>2, TableLater
    <2>2. a.s \in Table(Toks, alive)
        BY <1>1 DEF Here
    <2> QED  BY <1>3, <2>1, <2>2
<1>6. \A x \in alive : Own(x, node'[x])
    <2>1. Own(n, a.s) /\ \A x \in alive : Own(x, node[x]) /\ x \in Nodes
        BY <1>1 DEF Here, IInv
    <2> QED  BY <1>3, <2>1
<1>7. \A m \in msgs' : InFlight(us, alive, m)
    <2> SUFFICES ASSUME NEW m \in msgs' PROVE InFlight(us, alive, m)
        OBVIOUS
    <2>1. CASE m \in rest
        <3>1. InFlight(Toks, alive, m) /\ m.to \in alive
            BY <2>1 DEF InFlight
        <3> QED  BY <1>2, <3>1, InFlightLater
    <2>2. CASE m \notin rest
        BY <2>2, SomeInFlight DEF Finish, us
    <2> QED  BY <2>1, <2>2
<1>8. alive' \subseteq Nodes /\ late' \subseteq Nodes
    BY TokensType
<1> QED  BY <1>4, <1>5, <1>6, <1>7, <1>8 DEF IInv

\* A node that has just started, or is gone.
LEMMA NewNodeTable ==
    ASSUME NEW ts \in [Nodes -> Tok], NEW A \in SUBSET Nodes, NEW t \in Tok, NEW views \in [Nodes -> Tok],
           \A x \in A : views[x].ver <= ts[x].ver
    PROVE  /\ NewNode(t, views) \in Table(ts, A) /\ NewNode(t, views).tok = t
           /\ \A n : Centred(n, t) => Own(n, NewNode(t, views))
<1> DEFINE echoes == [succ \in BOOLEAN |-> <<>>]
<1>1. t.ver \in Nat
    BY DEF Tok
<1>2. <<>> \in Promises(t.ver)
    BY EmptySeq DEF Promises, InOrder
<1>3. echoes \in [BOOLEAN -> Seq(Promise)] /\ \A succ \in BOOLEAN : echoes[succ] \in Promises(t.ver)
    BY <1>2 DEF Promises
<1>4. NewNode(t, views) = [tok |-> t, view |-> views, down |-> {}, hood |-> 0, echoes |-> echoes]
    BY DEF NewNode
<1> HIDE DEF echoes
<1>5. Cardinality({}) = 0
    BY FS_EmptySet
<1>6. NewNode(t, views) \in Table(ts, A) /\ NewNode(t, views).tok = t
    BY <1>3, <1>4 DEF Table, State
<1>7. \A n : Centred(n, t) => Own(n, NewNode(t, views))
    BY <1>4, <1>5 DEF Own
<1> QED  BY <1>6, <1>7

\* The nodes that are left, when nothing else changes.
LEMMA FewerLater ==
    ASSUME NEW ts \in [Nodes -> Tok], NEW A \in SUBSET Nodes, NEW B \in SUBSET A
    PROVE  Later(ts, A, ts, B)
<1>1. \A x \in B : ts[x] \in Tok
    OBVIOUS
<1> QED  BY <1>1, GrowsNot DEF Later

\* A node that goes is no longer a node whose version counts.
LEMMA GoneInv ==
    ASSUME IInv, NEW n \in alive, alive' = alive \ {n}, node' = [node EXCEPT ![n] = Gone], late' = late,
           \A m \in msgs' : InFlight(Toks, alive \ {n}, m)
    PROVE  IInv'
<1> DEFINE none == Token({}, 0)
           views == [x \in Nodes |-> none]
           us == Now(Toks, n, none)
           B == alive \ {n}
<1>1. Toks \in [Nodes -> Tok] /\ alive \subseteq Nodes /\ n \in Nodes /\ late \subseteq Nodes
    BY TokensType
<1>2. none \in Tok /\ none.ver = 0
    BY WholeIs DEF Token, Tok
<1>3. Gone = NewNode(none, views)
    BY DEF Gone
<1> HIDE DEF none
<1>4. B \in SUBSET Nodes /\ B \subseteq alive /\ n \notin B /\ us \in [Nodes -> Tok] /\ views \in [Nodes -> Tok]
    BY <1>1, <1>2 DEF Now
<1>5. \A x \in B : us[x] = Toks[x] /\ Toks[x] \in Tok /\ views[x].ver <= us[x].ver
    <2>1. \A x \in B : us[x] = Toks[x] /\ Toks[x] \in Tok /\ views[x] = none
        BY <1>1, <1>2 DEF Now
    <2> QED  BY <1>2, <2>1 DEF Tok
<1>6. Gone \in Table(us, B) /\ Gone.tok = none
    <2> HIDE DEF views, us, B
    <2> QED  BY <1>2, <1>3, <1>4, <1>5, NewNodeTable
<1>7. node \in [Nodes -> Table(Toks, alive)]
    BY DEF IInv
<1>8. Toks' = us
    BY <1>1, <1>6, <1>7 DEF Toks, Now
<1> HIDE DEF us, B
<1>9. Later(Toks, alive, us, B) /\ Later(Toks, B, us, B)
    BY <1>1, <1>4, <1>5, GrowsNot DEF Later
<1>10. node' \in [Nodes -> Table(us, B)]
    <2>1. Table(Toks, alive) \subseteq Table(us, B)
        BY <1>9, TableLater
    <2> QED  BY <1>1, <1>6, <1>7, <2>1
<1>11. \A x \in B : Own(x, node'[x])
    <2>1. \A x \in B : x \in Nodes /\ x # n /\ node'[x] = node[x]
        BY <1>4, <1>7
    <2> QED  BY <1>4, <2>1 DEF IInv
<1>12. \A m \in msgs' : InFlight(us, B, m)
    <2> SUFFICES ASSUME NEW m \in msgs' PROVE InFlight(us, B, m)
        OBVIOUS
    <2>1. InFlight(Toks, B, m)
        BY DEF B
    <2>2. m.to \in B
        BY <2>1 DEF InFlight
    <2> QED  BY <1>9, <2>1, <2>2, InFlightLater
<1>13. alive' = B
    BY DEF B
<1> QED  BY <1>1, <1>4, <1>8, <1>10, <1>11, <1>12, <1>13 DEF IInv

-----------------------------------------------------------------------------
(***************************************************************************)
(* The actions.                                                            *)
(***************************************************************************)

\* The headers and tokens of a message are processed.
LEMMA ProcessInv ==
    ASSUME IInv, NEW m \in msgs, ProcessNeighborHeaders(m)
    PROVE  IInv'
<1> DEFINE n == m.to
           H == Hdrs(Toks, alive, m.from, n)
           t == Consider(n, node[n], m)
<1>1. InFlight(Toks, alive, m) /\ n \in alive /\ ~IsReceived(m) /\ alive' = alive /\ late' = late
    BY DEF IInv, ProcessNeighborHeaders
<1>2. Here(Toks, alive, n, node[n]) /\ Fresh(Toks, alive, m)
    BY <1>1, NodeHere DEF InFlight
<1>3. Here(Toks, alive, n, t) /\ t.tok = node[n].tok
    BY <1>2, ConsiderHere
<1> HIDE DEF t
<1>4. Tokens(m) \in Seq(H) /\ H \in SUBSET Hdr
    BY <1>1, EmptySeq DEF InFlight, Body, Tokens, HasTokens, Hdrs
<1>5. PICK a \in Considered(n, t, m) :
        Finish(n, Unlock(n, node[n], Nothing(a.s)), (msgs \ {m}) \cup Received(m, a.rejected))
    BY DEF ProcessNeighborHeaders, t
<1> HIDE DEF H
<1>6. Taken(Toks, alive, n, t, H, a)
    BY <1>3, <1>4, ConsideredTaken
<1>7. Here(Toks, alive, n, a.s) /\ Grows(node[n].tok, a.s.tok) /\ a.rejected \in Seq(H)
    BY <1>3, <1>6 DEF Taken
<1>8. IsOutcome(Toks, alive, n, node[n], Unlock(n, node[n], Nothing(a.s)))
    <2>1. IsOutcome(Toks, alive, n, node[n], Nothing(a.s))
        BY <1>7, NothingOutcome
    <2> QED  BY <1>2, <2>1, UnlockOutcome
<1>9. \A k \in (msgs \ {m}) \cup Received(m, a.rejected) : InFlight(Toks, alive, k)
    <2>1. ASSUME NEW k \in Received(m, a.rejected) PROVE InFlight(Toks, alive, k)
        <3>1. /\ m.type \in Handlers
              /\ k = [type |-> m.type, from |-> m.from, to |-> m.to, body |-> m.body, rejected |-> a.rejected]
            BY <2>1 DEF Received
        <3>2. /\ k.type = m.type /\ k.from = m.from /\ k.to = m.to /\ k.body = m.body
              /\ k.rejected = a.rejected /\ IsReceived(k)
            BY <3>1 DEF IsReceived
        <3> QED  BY <1>1, <1>7, <3>1, <3>2 DEF InFlight, Waiting, H
    <2> QED  BY <2>1 DEF IInv
<1> QED  BY <1>1, <1>5, <1>8, <1>9, FinishInv

\* The handler of a message runs, whatever came between.
LEMMA HandleInv ==
    ASSUME IInv, NEW m \in msgs, HandleMessage(m)
    PROVE  IInv'
<1> DEFINE n == m.to
<1>1. /\ InFlight(Toks, alive, m) /\ n \in alive /\ IsReceived(m) /\ alive' = alive /\ late' = late
      /\ Finish(n, Unlock(n, node[n], Handle(n, node[n], m)), msgs \ {m})
    BY DEF IInv, HandleMessage
<1>2. Here(Toks, alive, n, node[n]) /\ Waiting(Toks, alive, m)
    BY <1>1, NodeHere DEF InFlight
<1>3. IsOutcome(Toks, alive, n, node[n], Handle(n, node[n], m))
    BY <1>1, <1>2, HandleOutcome
<1>4. IsOutcome(Toks, alive, n, node[n], Unlock(n, node[n], Handle(n, node[n], m)))
    BY <1>2, <1>3, UnlockOutcome
<1>5. \A k \in msgs \ {m} : InFlight(Toks, alive, k)
    BY DEF IInv
<1> QED  BY <1>1, <1>4, <1>5, FinishInv

\* A timer fires.
LEMMA OnTimerInv ==
    ASSUME IInv, NEW n \in Nodes, OnTimer(n)
    PROVE  IInv'
<1>1. n \in alive /\ alive' = alive /\ late' = late /\ Finish(n, CheckToken(n, node[n]), msgs)
    BY DEF OnTimer
<1>2. IsOutcome(Toks, alive, n, node[n], CheckToken(n, node[n]))
    BY <1>1, NodeHere, CheckTokenOutcome
<1>3. \A k \in msgs : InFlight(Toks, alive, k)
    BY DEF IInv
<1> QED  BY <1>1, <1>2, <1>3, FinishInv

\* A node is told that another is down.
LEMMA SetShutdownInv ==
    ASSUME IInv, NEW n \in Nodes, NEW x \in Nodes, SetShutdown(n, x)
    PROVE  IInv'
<1> DEFINE t == SetDown(node[n], x)
<1>1. /\ n \in alive /\ alive' = alive /\ late' = late /\ x \in Others(n)
      /\ Finish(n, Unlock(n, node[n], Nothing(t)), msgs)
    BY DEF SetShutdown
<1>2. Here(Toks, alive, n, node[n])
    BY <1>1, NodeHere
<1>3. Here(Toks, alive, n, t) /\ t.tok = node[n].tok
    BY <1>1, <1>2, SetDownHere
<1> HIDE DEF t
<1>4. Grows(node[n].tok, t.tok)
    BY <1>2, <1>3, SameOutcome
<1>5. IsOutcome(Toks, alive, n, node[n], Nothing(t))
    BY <1>3, <1>4, NothingOutcome
<1>6. IsOutcome(Toks, alive, n, node[n], Unlock(n, node[n], Nothing(t)))
    BY <1>2, <1>5, UnlockOutcome
<1>7. \A k \in msgs : InFlight(Toks, alive, k)
    BY DEF IInv
<1> QED  BY <1>1, <1>6, <1>7, FinishInv

\* A ping.
LEMMA PingInv ==
    ASSUME IInv, NEW n \in Nodes, NEW x \in Nodes, Ping(n, x)
    PROVE  IInv'
<1>1. n \in alive /\ alive' = alive /\ late' = late /\ Finish(n, Send(node[n], "Ping", x, <<>>), msgs) /\ x # n
    BY PingersAssumption DEF Ping
<1>2. Here(Toks, alive, n, node[n])
    BY <1>1, NodeHere
<1>3. Body(Now(Toks, n, node[n].tok), alive, "Ping", n, x, <<>>)
    BY DEF Body, HasTokens
<1>4. IsOutcome(Toks, alive, n, node[n], Send(node[n], "Ping", x, <<>>))
    <2>1. Grows(node[n].tok, node[n].tok)
        BY <1>2, SameOutcome
    <2> QED  BY <1>1, <1>2, <1>3, <2>1, SendOutcome
<1>5. \A k \in msgs : InFlight(Toks, alive, k)
    BY DEF IInv
<1> QED  BY <1>1, <1>4, <1>5, FinishInv

\* A node is lost with what it held.
LEMMA CrashInv ==
    ASSUME IInv, NEW n \in Nodes, Crash(n)
    PROVE  IInv'
<1>1. /\ n \in alive /\ alive' = alive \ {n} /\ node' = [node EXCEPT ![n] = Gone]
      /\ msgs' = {m \in msgs : m.to # n} /\ late' = late
    BY DEF Crash, MayFail
<1>2. Later(Toks, alive, Toks, alive \ {n})
    BY TokensType, FewerLater
<1>3. ASSUME NEW m \in msgs' PROVE InFlight(Toks, alive \ {n}, m)
    <2>1. InFlight(Toks, alive, m) /\ m.to \in alive \ {n}
        BY <1>1 DEF IInv, InFlight
    <2> QED  BY <1>2, <2>1, InFlightLater
<1> QED  BY <1>1, <1>3, GoneInv

\* What a departing node leaves: two ranges around its neighbours, if it has two.
LEMMA ReleaseLeft ==
    ASSUME NEW ts, NEW A, NEW n, NEW s, Here(ts, A, n, s), NEW next \in Nodes, NEW prev \in Nodes
    PROVE  LET r == Release(n, s, next, prev)
           IN  r.tok \in Tok /\ \A y \in Nodes : r.left[y] \in Seq(Hdrs(ts, A \ {n}, n, y))
<1> DEFINE w == s.view[next].ver
           x == s.view[prev].ver
           toNext == ReleaseTo(TRUE, s.tok, prev, n, next, w)
           toPrev == ReleaseTo(FALSE, toNext.tok, next, n, prev, x)
           t == IF toPrev.tok.range = {} THEN toPrev.tok ELSE Update(toPrev.tok, {})
           left == [y \in Nodes |-> (IF y = next THEN toNext.headers ELSE <<>>)
                                      \o (IF y = prev THEN toPrev.headers ELSE <<>>)]
           B == A \ {n}
<1>1. /\ w \in Nat /\ (next \in A => w <= ts[next].ver) /\ x \in Nat /\ (prev \in A => x <= ts[prev].ver)
      /\ s.tok \in Tok
    BY ViewKnown, HereType
<1> HIDE DEF w, x
<1>2. Left(s.tok, w, toNext)
    <2>1. \A succ \in BOOLEAN : Left(s.tok, w, ReleaseTo(succ, s.tok, prev, n, next, w))
        BY <1>1, ReleaseToLeft
    <2> QED  BY <2>1, Zenon
<1> HIDE DEF toNext
<1>3. Left(toNext.tok, x, toPrev)
    <2>1. toNext.tok \in Tok
        BY <1>2 DEF Left
    <2>2. \A succ \in BOOLEAN : Left(toNext.tok, x, ReleaseTo(succ, toNext.tok, next, n, prev, x))
        BY <1>1, <2>1, ReleaseToLeft
    <2> QED  BY <2>2, Zenon
<1> HIDE DEF toPrev
<1>4. t \in Tok
    <2>1. toPrev.tok \in Tok /\ {} \in Ranges
        BY <1>3, WholeIs DEF Left
    <2>2. Update(toPrev.tok, {}) \in Tok
        BY <2>1, UpdateType
    <2> QED  BY <2>1, <2>2
<1> HIDE DEF t
<1>5. ASSUME NEW y \in Nodes, NEW v \in Nat, y \in A => v <= ts[y].ver
      PROVE  {h \in Hdr : h.target <= v} \subseteq Hdrs(ts, B, n, y)
    <2>1. y \in A => ts[y].ver \in Nat
        BY HereType DEF Tok
    <2>2. \A h \in Hdr : h.target \in Nat
        BY DEF Hdr
    <2> QED  BY <1>5, <2>1, <2>2 DEF Hdrs
<1> HIDE DEF B
<1>6. toNext.headers \in Seq(Hdrs(ts, B, n, next)) /\ toPrev.headers \in Seq(Hdrs(ts, B, n, prev))
    <2>1. {h \in Hdr : h.target <= w} \subseteq Hdrs(ts, B, n, next) /\ {h \in Hdr : h.target <= x} \subseteq Hdrs(ts, B, n, prev)
        BY <1>1, <1>5
    <2> QED  BY <1>2, <1>3, <2>1, SeqMono DEF Left
<1>7. \A y \in Nodes : left[y] \in Seq(Hdrs(ts, B, n, y))
    <2> SUFFICES ASSUME NEW y \in Nodes PROVE left[y] \in Seq(Hdrs(ts, B, n, y))
        OBVIOUS
    <2> DEFINE one == IF y = next THEN toNext.headers ELSE <<>>
               two == IF y = prev THEN toPrev.headers ELSE <<>>
    <2>1. one \in Seq(Hdrs(ts, B, n, y)) /\ two \in Seq(Hdrs(ts, B, n, y))
        BY <1>6, EmptySeq
    <2> HIDE DEF one, two
    <2>2. one \o two \in Seq(Hdrs(ts, B, n, y))
        BY <2>1, ConcatProperties
    <2> QED  BY <2>2 DEF one, two
<1> HIDE DEF left
<1>8. Release(n, s, next, prev) = [tok |-> t, left |-> left]
    BY DEF Release, t, left, toPrev, toNext, w, x
<1>9. Release(n, s, next, prev).tok = t /\ Release(n, s, next, prev).left = left
    BY <1>8
<1> QED  BY <1>4, <1>7, <1>9 DEF B

\* A node departs.
LEMMA DepartInv ==
    ASSUME IInv, NEW n \in Nodes, Depart(n)
    PROVE  IInv'
<1> DEFINE s == node[n]
           ring == Ring(n, s)
           next == Nearest(TRUE, n, ring)
           prev == Nearest(FALSE, n, ring)
           r == Release(n, s, next, prev)
           a == CreateDepartMessages(n, s, r)
           rest == {m \in msgs : m.to # n}
           B == alive \ {n}
<1>1. /\ n \in alive /\ alive' = B /\ node' = [node EXCEPT ![n] = Gone] /\ late' = late
      /\ SendSome(n, a, rest)
    BY DEF Depart, MayFail
<1>2. Here(Toks, alive, n, s)
    BY <1>1, NodeHere
<1>3. next \in Nodes /\ prev \in Nodes
    <2>1. ring \in SUBSET Ring(n, s)
        OBVIOUS
    <2>2. \A succ \in BOOLEAN : Nearest(succ, n, ring) \in Nodes
        BY <1>2, <2>1, NearestOther
    <2> QED  BY <2>2, Zenon
<1> HIDE DEF next, prev
<1>4. r.tok \in Tok /\ \A y \in Nodes : r.left[y] \in Seq(Hdrs(Toks, B, n, y))
    BY <1>2, <1>3, ReleaseLeft
<1> HIDE DEF r
<1>5. /\ s \in State /\ n \in Nodes /\ s.view \in [Nodes -> Tok] /\ s.down \subseteq Nodes
      /\ ring \subseteq Others(n) /\ Others(n) \subseteq Nodes /\ B \in SUBSET Nodes
    BY <1>2, HereType
<1>6. a.s.tok = r.tok /\ a.s.view = s.view /\ a.s.down = s.down \cup {n}
    BY <1>5 DEF CreateDepartMessages, SetDown, State
<1>7. ASSUME NEW o \in a.out PROVE o.to # n /\ Body(Toks, B, o.type, n, o.to, o.body)
    <2>1. PICK y \in ring : o = [type |-> "Depart", to |-> y, body |-> r.left[y]]
        BY <1>7 DEF CreateDepartMessages
    <2>2. y \in Nodes /\ y # n /\ o.type = "Depart" /\ o.to = y /\ o.body = r.left[y]
        BY <1>5, <2>1 DEF Others
    <2> QED  BY <1>4, <2>2 DEF Body
<1> HIDE DEF a
<1>8. \A x \in B : IF x = n THEN a.s.tok.ver <= Toks[x].ver ELSE a.s.view[x].ver <= Toks[x].ver
    BY <1>2, <1>6 DEF Here, Table
<1>9. Later(Toks, alive, Toks, B)
    BY TokensType, FewerLater
<1>10. ASSUME NEW m \in msgs' PROVE InFlight(Toks, B, m)
    <2>1. CASE m \in rest
        <3>1. InFlight(Toks, alive, m) /\ m.to \in B
            BY <2>1 DEF IInv, InFlight
        <3> QED  BY <1>9, <3>1, InFlightLater
    <2>2. CASE m \notin rest
        <3>1. PICK o \in a.out : o.to \in alive /\ m = Message(n, a.s, o.type, o.to, o.body)
            BY <1>1, <2>2 DEF SendSome
        <3>2. o.to \in B /\ o.to # n /\ Body(Toks, B, o.type, n, o.to, o.body)
            BY <1>7, <3>1
        <3>3. a.s.tok \in Tok /\ a.s.view \in [Nodes -> Tok] /\ a.s.down \subseteq Nodes
            BY <1>4, <1>5, <1>6
        <3> HIDE DEF B
        <3> QED  BY <1>5, <1>8, <3>1, <3>2, <3>3, SentInFlight
    <2> QED  BY <2>1, <2>2
<1> QED  BY <1>1, <1>10, GoneInv

\* The ring has just been bootstrapped.
LEMMA InitInv ==
    ASSUME Init
    PROVE  IInv
<1>1. PICK seed \in Nodes :
        node = [n \in Nodes |-> NewNode([x \in Nodes |-> IF x = seed THEN Token(Ids, 1) ELSE Token({}, 0)][n],
                                        [x \in Nodes |-> IF x = seed THEN Token(Ids, 1) ELSE Token({}, 0)])]
    BY DEF Init
<1> DEFINE tok == [n \in Nodes |-> IF n = seed THEN Token(Ids, 1) ELSE Token({}, 0)]
<1>2. tok \in [Nodes -> Tok]
    <2>1. Token(Ids, 1) \in Tok /\ Token({}, 0) \in Tok
        BY WholeIs DEF Token, Tok
    <2> QED  BY <2>1
<1>3. alive = Nodes /\ msgs = {} /\ late = {}
    BY DEF Init
<1>4. node = [n \in Nodes |-> NewNode(tok[n], tok)]
    BY <1>1
<1>5. \A n \in Nodes : Centred(n, tok[n])
    BY NodeIsId DEF Centred, Token
<1> HIDE DEF tok
<1>6. \A n \in Nodes : tok[n] \in Tok /\ tok[n].ver \in Nat
    BY <1>2 DEF Tok
<1>7. Toks = tok
    <2>1. \A n \in Nodes : node[n].tok = tok[n]
        BY <1>4 DEF NewNode
    <2> QED  BY <1>2, <2>1 DEF Toks
<1>8. \A x \in alive : tok[x].ver <= Toks[x].ver
    BY <1>3, <1>6, <1>7
<1>9. \A n \in Nodes : NewNode(tok[n], tok) \in Table(Toks, alive) /\ Own(n, NewNode(tok[n], tok))
    BY <1>2, <1>3, <1>5, <1>6, <1>7, <1>8, NewNodeTable
<1>10. node \in [Nodes -> Table(Toks, alive)] /\ \A n \in alive : Own(n, node[n])
    BY <1>3, <1>4, <1>9
<1> QED  BY <1>3, <1>10 DEF IInv

\* Every step keeps the invariant.
LEMMA NextInv ==
    ASSUME IInv, [Next]_vars
    PROVE  IInv'
<1>1. CASE Next
    <2>1. ASSUME NEW m \in msgs, ProcessNeighborHeaders(m) \/ HandleMessage(m) PROVE IInv'
        BY <2>1, ProcessInv, HandleInv
    <2>2. ASSUME NEW n \in Nodes, TokenAcquireTimeout(n) PROVE IInv'
        <3>1. node' = node /\ alive' = alive /\ msgs' = msgs /\ late' \subseteq Nodes
            BY <2>2 DEF TokenAcquireTimeout, IInv
        <3> QED  BY <3>1 DEF IInv, Toks
    <2>3. ASSUME NEW n \in Nodes, OnTimer(n) \/ Crash(n) \/ Depart(n) PROVE IInv'
        BY <2>3, OnTimerInv, CrashInv, DepartInv
    <2>4. ASSUME NEW n \in Nodes, NEW x \in Nodes, SetShutdown(n, x) \/ Ping(n, x) PROVE IInv'
        BY <2>4, SetShutdownInv, PingInv
    <2> QED  BY <1>1, <2>1, <2>2, <2>3, <2>4 DEF Next
<1>2. CASE UNCHANGED vars
    BY <1>2 DEF vars, IInv, Toks
<1> QED  BY <1>1, <1>2

\* The inductive invariant: whatever is split, transferred, rejected, recovered or lost,
\* tokens are stretches around their nodes, no table and no message is ahead of the node
\* it tells of, and promises are ordered.
THEOREM Invariance == Spec => []IInv
<1>1. Init => IInv
    BY InitInv
<1>2. IInv /\ [Next]_vars => IInv'
    BY NextInv
<1> QED  BY <1>1, <1>2, PTL DEF Spec

\* Every split at a midpoint, merge, recovery and division of a range leaves a node one
\* stretch of the circle, its own id in it: what RoutingToken asserts of every range.
THEOREM TypeCorrect == Spec => []TypeOK
<1>1. IInv => TypeOK
    <2> SUFFICES ASSUME IInv PROVE TypeOK
        OBVIOUS
    <2>1. alive \subseteq Nodes /\ late \subseteq Nodes
        BY TokensType
    <2>2. ASSUME NEW n \in alive
          PROVE  /\ node[n].tok.range # {}
                      => n \in node[n].tok.range /\ \E b, e \in Ids : node[n].tok.range = NodeIdRange(b, e)
                 /\ node[n].down \subseteq Others(n) /\ node[n].hood = Cardinality(node[n].down)
        <3>1. Own(n, node[n]) /\ node[n].tok.range \in Ranges
            BY NodeHere, HereType DEF Here
        <3> QED  BY <3>1 DEF Own, Centred, Ranges
    <2>3. \A m \in msgs : m.from \in Nodes /\ m.to \in alive \ {m.from}
        BY DEF IInv, InFlight
    <2> QED  BY <2>1, <2>2, <2>3 DEF TypeOK
<1> QED  BY <1>1, Invariance, PTL

\* What CanRecover relies on, and the comment of EchoedProbeList::Add claims by induction.
THEOREM PromisesAreOrdered == Spec => []PromisesOrdered
<1>1. IInv => PromisesOrdered
    <2> SUFFICES ASSUME IInv, NEW n \in alive, NEW succ \in BOOLEAN PROVE InOrder(node[n].echoes[succ])
        BY DEF PromisesOrdered
    <2>1. node[n] \in Table(Toks, alive)
        BY DEF IInv
    <2>2. node[n].echoes[succ] \in Promises(node[n].tok.ver)
        BY <2>1 DEF Table
    <2> QED  BY <2>2 DEF Promises
<1> QED  BY <1>1, Invariance, PTL

\* The ASSERT of RoutingToken::IsMergeSafe never fires.
THEOREM VersionsAreKnown == Spec => []VersionsKnown
<1>1. IInv => VersionsKnown
    <2> SUFFICES ASSUME IInv PROVE VersionsKnown
        OBVIOUS
    <2>1. ASSUME NEW n \in alive, NEW x \in alive PROVE node[n].view[x].ver <= node[x].tok.ver
        BY <2>1, NodeHere DEF Here, Table
    <2>2. ASSUME NEW m \in msgs, NEW h \in ToSet(Tokens(m)) PROVE h.target <= node[m.to].tok.ver
        <3> DEFINE H == Hdrs(Toks, alive, m.from, m.to)
        <3>1. m.to \in alive /\ Body(Toks, alive, m.type, m.from, m.to, m.body)
            BY DEF IInv, InFlight
        <3>2. Tokens(m) \in Seq(H)
            BY <3>1, EmptySeq DEF Body, Tokens, HasTokens
        <3> HIDE DEF H
        <3>3. h \in H
            BY <3>2, LenProperties, ElementOfSeq DEF ToSet
        <3> QED  BY <3>1, <3>3, NodeHere DEF H, Hdrs
    <2> QED  BY <2>1, <2>2 DEF VersionsKnown
<1> QED  BY <1>1, Invariance, PTL

=============================================================================
