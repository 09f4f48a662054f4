---------------------- MODULE ArbitrationLease_proofs ----------------------
(***************************************************************************)
(* Proof that ArbitrationTable implements PairArbiter for every lease: for *)
(* any two instances of lease agents, any set of requests, any types of    *)
(* arbitration among them and any setting of the intervals.                *)
(***************************************************************************)
EXTENDS ArbitrationLease, ArbitrationTable_proofs

\* The two sides of the lease, and a decision for each.
Both == {Left, Right}

Two(d, e) == [x \in Both |-> IF x = Left THEN d ELSE e]

BlankPair == Two(None, None)

Lease == LeftRecords(records)

-----------------------------------------------------------------------------
(***************************************************************************)
(* What PairArbiter allows, for decisions given by a pair of records.      *)
(***************************************************************************)

\* PairArbiter and the table share their vocabulary and the rules of ArbitrationDecision.
LEMMA SameRules ==
    /\ Pair!None = None /\ Pair!Reject = Reject /\ Pair!Grant = Grant /\ Pair!Delay = Delay
    /\ Pair!Blank = BlankPair
    /\ Pair!RevertTypes = RevertTypes
    /\ \A type, c, d, x, y : Pair!AskOutcomes(type, c, d, x, y) = AskOutcomes(type, c, d, x, y)
    /\ \A type, d, x, y : Pair!RevertOutcome(type, d, x, y) = RevertOutcome(type, d, x, y)
<1>1. /\ Pair!None = None /\ Pair!Reject = Reject /\ Pair!Grant = Grant
      /\ Pair!Delay = Delay /\ Pair!Neutral = Neutral
    BY DEF Pair!None, Pair!Reject, Pair!Grant, Pair!Delay, Pair!Neutral,
           None, Reject, Grant, Delay, Neutral
<1>2. /\ Pair!OneWay = OneWay /\ Pair!TwoWayExtended = TwoWayExtended
      /\ Pair!RevertToReject = RevertToReject /\ Pair!RevertToNeutral = RevertToNeutral
    BY DEF Pair!OneWay, Pair!TwoWayExtended, Pair!RevertToReject, Pair!RevertToNeutral,
           OneWay, TwoWayExtended, RevertToReject, RevertToNeutral
<1>3. Pair!Blank = BlankPair
    BY <1>1 DEF Pair!Blank, BlankPair, Two, Both
<1>4. Pair!RevertTypes = RevertTypes
    BY <1>2 DEF Pair!RevertTypes, RevertTypes
<1>5. /\ \A d : Pair!IsPresent(d) = IsPresent(d)
      /\ \A type, d : Pair!AgainstPresent(type, d) = AgainstPresent(type, d)
      /\ \A d : Pair!SubjectAfterReport(d) = SubjectAfterReport(d)
      /\ \A type, c : Pair!FirstVerdicts(type, c) = FirstVerdicts(type, c)
      /\ \A type : Pair!RevertedMonitor(type) = RevertedMonitor(type)
      /\ \A type : Pair!RevertedSubject(type) = RevertedSubject(type)
    BY <1>1, <1>2
    DEF Pair!IsPresent, Pair!AgainstPresent, Pair!SubjectAfterReport, Pair!FirstVerdicts,
        Pair!RevertedMonitor, Pair!RevertedSubject, IsPresent, AgainstPresent,
        SubjectAfterReport, FirstVerdicts, RevertedMonitor, RevertedSubject
<1>6. ASSUME NEW type, NEW c, NEW d, NEW x, NEW y
      PROVE  Pair!AskOutcomes(type, c, d, x, y) = AskOutcomes(type, c, d, x, y)
    BY <1>1, <1>2, <1>5 DEF Pair!AskOutcomes, AskOutcomes
<1>7. ASSUME NEW type, NEW d, NEW x, NEW y
      PROVE  Pair!RevertOutcome(type, d, x, y) = RevertOutcome(type, d, x, y)
    BY <1>1, <1>5 DEF Pair!RevertOutcome, RevertOutcome
<1> QED  BY <1>1, <1>3, <1>4, <1>6, <1>7

\* MakeDecision on a pair that holds the decisions of the lease, or on a new one, is
\* a step in which the side x asks.
LEMMA AskIsAllowed ==
    ASSUME NEW x \in Both, NEW y \in Both, x # y, NEW d, NEW e, NEW type \in Kinds,
           d = LeaseDecisions \/ d = BlankPair,
           e = [z \in Both |-> e[z]], d = [z \in Both |-> d[z]],
           LeaseDecisions' = e, PairAllowed(type, d[x], d[y], e[x], e[y])
    PROVE  Pair!Next
<1>1. Both = {x, y} /\ y \in Both \ {x}
    BY DEF Both
<1>3. \E c \in BOOLEAN : e \in {[d EXCEPT ![x] = Reject]} \cup AskOutcomes(type, c, d, x, y)
    <2>1. CASE e[x] = Reject /\ e[y] = d[y]
        <3>1. e = [d EXCEPT ![x] = Reject]
            BY <2>1, <1>1
        <3> QED  BY <3>1
    <2>2. CASE IsPresent(d[y]) /\ e[x] = AgainstPresent(type, d[y]) /\ e[y] = SubjectAfterReport(d[y])
        <3>1. e = [d EXCEPT ![x] = AgainstPresent(type, d[y]), ![y] = SubjectAfterReport(@)]
            BY <2>2, <1>1
        <3> QED  BY <3>1, <2>2 DEF AskOutcomes
    <2>3. CASE type # OneWay /\ ~IsPresent(d[y]) /\ e[y] = d[y] /\ IsPresent(d[x]) /\ e[x] = d[x]
        <3>1. e = d
            BY <2>3, <1>1
        <3> QED  BY <3>1, <2>3 DEF AskOutcomes
    <2>5. CASE type = OneWay /\ ~IsPresent(d[y]) /\ e[y] = d[y] /\ e[x] = Neutral
        <3>1. e = [d EXCEPT ![x] = Neutral]
            BY <2>5, <1>1
        <3> QED  BY <3>1, <2>5 DEF AskOutcomes
    <2>4. CASE /\ type # OneWay /\ ~IsPresent(d[y]) /\ e[y] = d[y] /\ ~IsPresent(d[x])
               /\ e[x] \in {Grant, Reject, Delay} /\ (type = TwoWaySimple => e[x] # Delay)
        <3>1. e = [d EXCEPT ![x] = e[x]]
            BY <2>4, <1>1
        <3>2. e[x] \in FirstVerdicts(type, TRUE) \cup FirstVerdicts(type, FALSE)
            BY <2>4, LeaseAssumption DEF FirstVerdicts, TwoWayTypes
        <3>3. PICK c \in BOOLEAN : e[x] \in FirstVerdicts(type, c)
            BY <3>2
        <3>4. AskOutcomes(type, c, d, x, y) = {[d EXCEPT ![x] = v] : v \in FirstVerdicts(type, c)}
            BY <2>4 DEF AskOutcomes
        <3>5. e \in AskOutcomes(type, c, d, x, y)
            BY <3>1, <3>3, <3>4
        <3> QED  BY <3>5
    <2> QED  BY <2>1, <2>2, <2>3, <2>4, <2>5 DEF PairAllowed
<1>4. Pair!Ask(x)
    BY <1>1, <1>3, SameRules DEF Pair!Ask, Both
<1> QED  BY <1>4 DEF Pair!Next, Both

\* ProcessRevertRequest on the pair that holds the decisions of the lease is a step in
\* which the side x gives back its grant.
LEMMA GiveBackIsAllowed ==
    ASSUME NEW x \in Both, NEW y \in Both, x # y, NEW d, NEW e, NEW type \in RevertTypes,
           d = LeaseDecisions, d = [z \in Both |-> d[z]], e = [z \in Both |-> e[z]],
           LeaseDecisions' = e, d[x] = Grant, e[x] = RevertedMonitor(type),
           e[y] = IF IsPresent(d[y]) THEN RevertedSubject(type) ELSE d[y]
    PROVE  Pair!Next
<1>1. Both = {x, y} /\ y \in Both \ {x}
    BY DEF Both
<1>2. e = RevertOutcome(type, d, x, y)
    BY <1>1 DEF RevertOutcome
<1>3. Pair!GiveBack(x)
    BY <1>1, <1>2, SameRules DEF Pair!GiveBack, Both
<1> QED  BY <1>3 DEF Pair!Next, Both

\* The end of a delay on the side x.
LEMMA DelayEndIsAllowed ==
    ASSUME NEW x \in Both, NEW y \in Both, x # y, NEW d, NEW e,
           d = LeaseDecisions, d = [z \in Both |-> d[z]], e = [z \in Both |-> e[z]],
           LeaseDecisions' = e, d[x] = Delay, e[x] = Grant, e[y] = d[y]
    PROVE  Pair!Next
<1>1. Both = {x, y}
    BY DEF Both
<1>2. e = [d EXCEPT ![x] = Grant]
    BY <1>1
<1>3. Pair!DelayEnds(x)
    BY <1>2, SameRules DEF Pair!DelayEnds
<1> QED  BY <1>3 DEF Pair!Next, Both

\* Losing all the records of the lease.
LEMMA ForgetIsAllowed == ASSUME LeaseDecisions' = BlankPair PROVE Pair!Next
BY SameRules DEF Pair!Next, Pair!Forget

-----------------------------------------------------------------------------
(***************************************************************************)
(* The records of the lease.                                               *)
(***************************************************************************)

\* The decisions of the lease, once its latest pair is known.
DecisionsAre(rs, l) ==
    l \in LeftRecords(rs) /\ \A q \in LeftRecords(rs) : q <= l

\* They are read from the latest pair.
LEMMA LeaseValue ==
    ASSUME NEW k \in Nat, NEW rs, DOMAIN rs \subseteq 1..k, NEW l, DecisionsAre(rs, l)
    PROVE  DecisionsIn(rs) = Two(rs[l].decision, rs[rs[l].peer].decision)
<1> DEFINE S == LeftRecords(rs)
<1>1. S \subseteq 1..k /\ S # {}
    BY DEF LeftRecords, DecisionsAre
<1>2. Latest(S) \in S /\ l <= Latest(S) /\ Latest(S) <= l /\ l \in S
    BY <1>1, LatestIsMember DEF DecisionsAre
<1>3. Latest(S) = l
    BY <1>1, <1>2
<1> QED  BY <1>1, <1>3 DEF DecisionsIn, Two, Both

\* While there is no pair, neither side has a decision.
LEMMA LeaseBlank == ASSUME NEW rs, LeftRecords(rs) = {} PROVE DecisionsIn(rs) = BlankPair
BY DEF DecisionsIn, BlankPair, Two, Both

\* Either there is no pair, or there is a latest one.
LEMMA LeaseCases ==
    ASSUME IInv
    PROVE  Lease = {} \/ DecisionsAre(records, Latest(Lease))
<1>1. Lease \subseteq 1..created /\ created \in Nat
    BY DEF IInv, RecordsOK, Typed, LeftRecords, Lease
<1> QED  BY <1>1, LatestIsMember DEF DecisionsAre, Lease

\* The records of the lease are pairs, and those of its two sides are in the same
\* order: the pairs were created one after the other.
LEMMA LeasePairs ==
    ASSUME IInv, NEW l \in Lease
    PROVE  /\ l \in DOMAIN records /\ l # NoPeer /\ records[l].node = Left
           /\ records[l].peer # NoPeer /\ records[l].peer \in DOMAIN records /\ records[l].peer # l
           /\ records[records[l].peer].peer = l
           /\ records[records[l].peer].node = Right
           /\ Mirrored(records[l], records[records[l].peer])
           /\ \A q \in Lease : q < l => records[q].peer < records[l].peer
<1>1. /\ l \in DOMAIN records /\ records[l].node = Left /\ records[l].peer # NoPeer
      /\ records[l].subject = Right
    BY LeaseAssumption DEF Lease, LeftRecords, Ends
<1>2. /\ records[l].peer \in DOMAIN records /\ records[l].peer # l
      /\ records[records[l].peer].peer = l
      /\ Mirrored(records[l], records[records[l].peer]) /\ l # NoPeer
    BY <1>1 DEF IInv, RecordsOK, Typed, Paired, NoPeer
<1>3. ASSUME NEW q \in Lease, q < l PROVE records[q].peer < records[l].peer
    <2> DEFINE x == records[q].peer
               y == records[l].peer
    <2>1. q \in DOMAIN records /\ records[q].peer # NoPeer
        BY DEF Lease, LeftRecords
    <2>2. x \in DOMAIN records /\ records[x].peer = q /\ q # NoPeer
        BY <2>1 DEF IInv, RecordsOK, Typed, Paired, NoPeer
    <2>3. OneLease(records[q], records[l])
        BY LeaseAssumption DEF Lease, LeftRecords, Ends, OneLease
    <2>4. Since(records, q) < Since(records, l) - SuspicionExpireInterval
        BY <2>1, <2>3, <1>1, <1>3 DEF IInv, RecordsOK, PairsApart
    <2>5. \A r \in DOMAIN records : records[r].processTime \in Int
        BY DEF IInv, RecordsOK, Typed, RecordType
    <2>6. Since(records, x) = Since(records, q) /\ Since(records, y) = Since(records, l)
        BY <2>1, <2>2, <2>5, <1>1, <1>2, EarliestSwaps DEF Since
    <2>7. Since(records, x) \in Int /\ Since(records, y) \in Int /\ SuspicionExpireInterval \in Nat
        BY <2>2, <1>2, SinceInPast, TimeAssumption
    <2>8. ~(Since(records, y) <= Since(records, x))
        BY <2>4, <2>6, <2>7
    <2>9. ~(y <= x)
        BY <2>2, <2>8, <1>2 DEF IInv, RecordsOK, InTurn
    <2>10. x \in Nat /\ y \in Nat
        BY <2>2, <1>2 DEF IInv, RecordsOK, Typed
    <2> QED  BY <2>9, <2>10
<1>4. records[records[l].peer].node = Right
    BY <1>1, <1>2 DEF Mirrored
<1> QED  BY <1>1, <1>2, <1>3, <1>4

\* GetRecord returns the latest record that is like the one it found.
LEMMA FoundIsLatest ==
    ASSUME IInv, NEW req \in Requests, Matching(records, state, req) # {},
           NEW m, m = Latest(Matching(records, state, req))
    PROVE  /\ m \in DOMAIN records
           /\ records[m].node = req.monitor /\ records[m].monitorInstance = req.monitorInstance
           /\ records[m].subject = req.subject /\ records[m].subjectInstance = req.subjectInstance
           /\ \A q \in DOMAIN records :
                records[q].peer # NoPeer /\ OneLease(records[m], records[q]) => q <= m
<1> DEFINE M == Matching(records, state, req)
<1>1. M \subseteq 1..created /\ created \in Nat
    BY DEF IInv, RecordsOK, Typed, Matching, OfSession, Searched, RecordsOf
<1>2. m \in M /\ \A q \in M : q <= m
    BY <1>1, LatestIsMember
<1>3. /\ m \in Searched(records, req) /\ m \in DOMAIN records
      /\ records[m].node = req.monitor /\ records[m].monitorInstance = req.monitorInstance
      /\ records[m].subject = req.subject /\ records[m].subjectInstance = req.subjectInstance
      /\ LeaseInstanceMatched(records[m].monitorLease, req.monitorLease)
      /\ LeaseInstanceMatched(records[m].subjectLease, req.subjectLease)
    BY <1>2 DEF Matching, OfSession, Searched, RecordsOf
<1>4. ASSUME NEW q \in DOMAIN records, records[q].peer # NoPeer, OneLease(records[m], records[q])
      PROVE  q <= m
    <2>1. q \in Nat /\ m \in Nat
        BY <1>3 DEF IInv, RecordsOK, Typed
    <2>2. SUFFICES ASSUME q > m PROVE q \in M
        BY <2>1, <1>2
    <2>3. q \in RecordsOf(records, req.monitor)
        BY <1>3, <1>4 DEF RecordsOf, OneLease
    <2>4. \A z \in RecordsOf(records, req.monitor) : z >= q => z >= m
        BY <2>1, <2>2 DEF IInv, RecordsOK, Typed, RecordsOf
    <2>5. q \in Searched(records, req)
        BY <1>3, <2>3, <2>4 DEF Searched
    <2>6. state[q] # "Implicit"
        BY <1>4 DEF IInv, StatesOf, Alone
    <2>7. q \in OfSession(records, state, req)
        BY <1>3, <1>4, <2>5, <2>6 DEF OfSession, OneLease
    <2> QED  BY <1>3, <1>4, <2>7 DEF Matching, OneLease
<1> QED  BY <1>3, <1>4

\* The pair (m, s) is a pair of the lease.
OnLease(rs, m, s) == m \in LeftRecords(rs) \/ s \in LeftRecords(rs)

\* A pair of the lease that GetRecord finds is the latest one, and its request is about
\* the lease.
LEMMA FoundOnLease ==
    ASSUME IInv, NEW req \in Requests, Matching(records, state, req) # {},
           NEW m, m = Latest(Matching(records, state, req)),
           NEW s, s = records[m].peer, s # NoPeer, OnLease(records, m, s)
    PROVE  /\ Ends(req, req.monitor)
           /\ DecisionsAre(records, IF m \in Lease THEN m ELSE s)
<1>1. /\ m \in DOMAIN records /\ s \in DOMAIN records /\ records[s].peer = m /\ m # NoPeer
      /\ Mirrored(records[m], records[s]) /\ m \in Nat /\ s \in Nat
    BY FoundIsLatest DEF IInv, RecordsOK, Typed, Paired, NoPeer
<1>2. CASE m \in Lease
    <2>1. Ends(req, req.monitor)
        BY <1>2, FoundIsLatest DEF Lease, LeftRecords, Ends
    <2>2. \A q \in Lease : OneLease(records[m], records[q]) /\ records[q].peer # NoPeer /\ q \in DOMAIN records
        BY <1>2, LeaseAssumption DEF Lease, LeftRecords, Ends, OneLease
    <2>3. \A q \in Lease : q <= m
        BY <2>2, FoundIsLatest
    <2> QED  BY <1>2, <2>1, <2>3 DEF DecisionsAre, Lease
<1>3. CASE m \notin Lease
    <2>1. s \in Lease
        BY <1>3 DEF OnLease, Lease
    <2>2. Ends(req, req.monitor)
        BY <2>1, <1>1, FoundIsLatest, LeaseAssumption DEF Lease, LeftRecords, Ends, Mirrored
    <2>3. ASSUME NEW q \in Lease PROVE q <= s
        <3> DEFINE x == records[q].peer
        <3>1. /\ q \in DOMAIN records /\ q \in Nat
              /\ x \in DOMAIN records /\ records[x].peer # NoPeer /\ Mirrored(records[q], records[x])
            BY LeasePairs DEF IInv, RecordsOK, Typed
        <3>2. OneLease(records[m], records[x])
            BY <2>1, <3>1, <1>1, LeaseAssumption DEF Lease, LeftRecords, Ends, OneLease, Mirrored
        <3>3. x <= m /\ x \in Nat
            BY <3>1, <3>2, FoundIsLatest DEF IInv, RecordsOK, Typed
        <3>4. s < q => m < x
            BY <2>1, <1>1, LeasePairs
        <3> QED  BY <1>1, <3>1, <3>3, <3>4
    <2> QED  BY <1>3, <2>1, <2>2, <2>3 DEF DecisionsAre, Lease
<1> QED  BY <1>2, <1>3

-----------------------------------------------------------------------------
(***************************************************************************)
(* Each operation maps to a step of PairArbiter, or to none.               *)
(***************************************************************************)

\* The same pairs with the same decisions.
LEMMA SamePairs ==
    ASSUME IInv, IInv', LeftRecords(records') = Lease,
           \A l \in Lease :
                /\ records'[l].peer = records[l].peer
                /\ records'[l].decision = records[l].decision
                /\ records'[records[l].peer].decision = records[records[l].peer].decision
    PROVE  LeaseDecisions' = LeaseDecisions
<1>0. /\ DOMAIN records \subseteq 1..created /\ created \in Nat
      /\ DOMAIN records' \subseteq 1..created' /\ created' \in Nat
    BY DEF IInv, RecordsOK, Typed
<1>1. CASE Lease = {}
    BY <1>1, LeaseBlank DEF LeaseDecisions, Lease
<1>2. CASE Lease # {}
    <2> DEFINE l == Latest(Lease)
    <2>1. DecisionsAre(records, l)
        BY <1>2, LeaseCases
    <2>2. DecisionsAre(records', l) /\ l \in Lease
        BY <2>1 DEF DecisionsAre, Lease
    <2> HIDE DEF l
    <2>3. LeaseDecisions = Two(records[l].decision, records[records[l].peer].decision)
        BY <1>0, <2>1, LeaseValue DEF LeaseDecisions
    <2>4. LeaseDecisions' = Two(records'[l].decision, records'[records'[l].peer].decision)
        BY <1>0, <2>2, LeaseValue DEF LeaseDecisions
    <2> QED  BY <2>2, <2>3, <2>4
<1> QED  BY <1>1, <1>2

\* What never changes in a record decides whether it is one of the lease.
LEMMA SameLeft ==
    ASSUME NEW rs, NEW new, DOMAIN new \subseteq DOMAIN rs,
           \A r \in DOMAIN new : SameSide(rs[r], new[r])
    PROVE  LeftRecords(new) = LeftRecords(rs) \cap DOMAIN new
BY DEF LeftRecords, SameSide, Ends

\* The pair (m, s) of rs, where rs may hold that pair in addition to the records.
ChangesPair(rs, m, s, d, e) ==
    /\ OnlyPair(rs, m, s, d, e)
    /\ m \in DOMAIN rs /\ s \in DOMAIN rs /\ m # s /\ m # NoPeer /\ s # NoPeer
    /\ rs[m].peer = s /\ rs[s].peer = m
    /\ \A r \in DOMAIN records : r \in DOMAIN rs /\ rs[r] = records[r]
    /\ DOMAIN rs \subseteq DOMAIN records \cup {m, s}

\* Such a change leaves every record on its side.
LEMMA ChangedSides ==
    ASSUME NEW rs, NEW m, NEW s, NEW d, NEW e, ChangesPair(rs, m, s, d, e)
    PROVE  LeftRecords(records') = LeftRecords(rs)
<1>1. DOMAIN records' = DOMAIN rs /\ \A r \in DOMAIN rs : SameSide(rs[r], records'[r])
    BY DEF ChangesPair, OnlyPair, SameSide
<1>2. LeftRecords(records') = LeftRecords(rs) \cap DOMAIN records'
    BY <1>1, SameLeft
<1> QED  BY <1>1, <1>2 DEF LeftRecords

\* A change of a pair of another lease, or of another session, is none of this one.
LEMMA OtherPair ==
    ASSUME IInv, IInv', NEW rs, NEW m, NEW s, NEW d, NEW e, ChangesPair(rs, m, s, d, e),
           ~OnLease(rs, m, s)
    PROVE  LeaseDecisions' = LeaseDecisions
<1>1. LeftRecords(rs) = Lease
    BY DEF ChangesPair, OnLease, LeftRecords, Lease
<1>2. ASSUME NEW l \in Lease
      PROVE  records'[l] = records[l] /\ records'[records[l].peer] = records[records[l].peer]
    <2> DEFINE x == records[l].peer
    <2>1. l \in DOMAIN records /\ x \in DOMAIN records /\ records[x].peer = l
        BY LeasePairs
    <2>2. l \notin {m, s}
        BY <1>1 DEF OnLease
    <2>3. x \notin {m, s}
        BY <2>1, <2>2 DEF ChangesPair
    <2> HIDE DEF x
    <2>4. \A q \in DOMAIN records \ {m, s} : records'[q] = records[q]
        BY DEF ChangesPair, OnlyPair
    <2> QED  BY <2>1, <2>2, <2>3, <2>4 DEF x
<1>3. LeftRecords(records') = Lease
    BY <1>1, ChangedSides
<1> QED  BY <1>2, <1>3, SamePairs

\* A change of the latest pair of the lease gives its two sides the new decisions.
LEMMA LeasePair ==
    ASSUME IInv', NEW rs, NEW m, NEW s, NEW d, NEW e, ChangesPair(rs, m, s, d, e),
           DecisionsAre(rs, IF m \in LeftRecords(rs) THEN m ELSE s)
    PROVE  LeaseDecisions' = IF m \in LeftRecords(rs) THEN Two(d, e) ELSE Two(e, d)
<1> DEFINE l == IF m \in LeftRecords(rs) THEN m ELSE s
<1>0. DOMAIN records' \subseteq 1..created' /\ created' \in Nat
    BY DEF IInv, RecordsOK, Typed
<1>1. DecisionsAre(records', l)
    BY ChangedSides DEF DecisionsAre
<1>2. LeaseDecisions' = Two(records'[l].decision, records'[records'[l].peer].decision)
    BY <1>0, <1>1, LeaseValue DEF LeaseDecisions
<1>3. /\ records'[m].peer = s /\ records'[s].peer = m
      /\ records'[m].decision = d /\ records'[s].decision = e
    BY DEF ChangesPair, OnlyPair, SameSide
<1> QED  BY <1>2, <1>3

\* The side that asks is the left one exactly if left is true; d is its decision, and e
\* that of the other side.
Seen(left, d, e) == IF left THEN Two(d, e) ELSE Two(e, d)

\* It is a function on the two sides.
LEMMA SeenSides ==
    ASSUME NEW left \in BOOLEAN, NEW d, NEW e, NEW x, NEW y,
           x = IF left THEN Left ELSE Right, y = IF left THEN Right ELSE Left
    PROVE  /\ x \in Both /\ y \in Both /\ x # y
           /\ Seen(left, d, e) = [z \in Both |-> Seen(left, d, e)[z]]
           /\ Seen(left, d, e)[x] = d /\ Seen(left, d, e)[y] = e
<1>1. x \in Both /\ y \in Both /\ x # y
    BY LeaseAssumption DEF Both
<1>2. Seen(left, d, e) = [z \in Both |-> Seen(left, d, e)[z]]
    BY DEF Seen, Two
<1>3. Seen(left, d, e)[x] = d /\ Seen(left, d, e)[y] = e
    BY <1>1, LeaseAssumption DEF Seen, Two
<1> QED  BY <1>1, <1>2, <1>3

\* The pair that GetRecord finds holds the decisions of the lease, or has nothing to do
\* with it.
LEMMA FoundMaps ==
    ASSUME IInv, IInv', NEW req \in Requests, Matching(records, state, req) # {},
           NEW m, m = FoundPair(req).m, NEW s, s = FoundPair(req).s, s # NoPeer,
           NEW d, NEW e, OnlyPair(records, m, s, d, e)
    PROVE  \/ LeaseDecisions' = LeaseDecisions
           \/ /\ Ends(req, req.monitor)
              /\ \E left \in BOOLEAN :
                    /\ LeaseDecisions = Seen(left, records[m].decision, records[s].decision)
                    /\ LeaseDecisions' = Seen(left, d, e)
<1>1. m = Latest(Matching(records, state, req)) /\ s = records[m].peer
    BY DEF FoundPair
<1>2. m \in DOMAIN records
    BY <1>1, FoundIsLatest
<1>3. /\ s \in DOMAIN records /\ records[s].peer = m /\ m # s /\ m # NoPeer
    BY <1>1, <1>2 DEF IInv, RecordsOK, Typed, Paired, NoPeer
<1>4. ChangesPair(records, m, s, d, e)
    BY <1>1, <1>2, <1>3 DEF ChangesPair
<1>5. CASE ~OnLease(records, m, s)
    BY <1>4, <1>5, OtherPair
<1>6. CASE OnLease(records, m, s)
    <2> DEFINE left == m \in Lease
               l == IF left THEN m ELSE s
    <2>1. Ends(req, req.monitor) /\ DecisionsAre(records, l)
        BY <1>1, <1>6, FoundOnLease
    <2>2. LeaseDecisions' = Seen(left, d, e)
        BY <1>4, <2>1, LeasePair DEF Seen, Lease
    <2>3. DOMAIN records \subseteq 1..created /\ created \in Nat
        BY DEF IInv, RecordsOK, Typed
    <2>4. LeaseDecisions = Two(records[l].decision, records[records[l].peer].decision)
        BY <2>1, <2>3, LeaseValue DEF LeaseDecisions
    <2>5. LeaseDecisions = Seen(left, records[m].decision, records[s].decision)
        BY <1>1, <1>3, <2>4 DEF Seen
    <2>6. left \in BOOLEAN
        OBVIOUS
    <2> HIDE DEF left
    <2> QED  BY <2>1, <2>2, <2>5, <2>6
<1> QED  BY <1>5, <1>6

\* The pair that a first request creates holds no decision yet.
LEMMA NewPairShape ==
    ASSUME IInv, NEW req \in Requests, NEW p, p = NewPair(req)
    PROVE  /\ p.m = created + 1 /\ p.s = created + 2
           /\ p.m \notin DOMAIN records /\ p.s \notin DOMAIN records /\ p.m # p.s
           /\ p.m # NoPeer /\ p.s # NoPeer
           /\ DOMAIN p.records = DOMAIN records \cup {p.m, p.s}
           /\ \A r \in DOMAIN records : p.records[r] = records[r] /\ r < p.m /\ r < p.s
           /\ p.records[p.m].peer = p.s /\ p.records[p.s].peer = p.m
           /\ p.records[p.m].decision = None /\ p.records[p.s].decision = None
           /\ p.records[p.m].node = req.monitor /\ p.records[p.s].node = req.subject
           /\ Ends(p.records[p.m], Left) /\ p.records[p.m].node = Left => Ends(req, req.monitor)
           /\ Ends(p.records[p.s], Left) /\ p.records[p.s].node = Left => Ends(req, req.monitor)
<1> DEFINE m == created + 1
           s == created + 2
           c == FoundHistory(records, state, req)
           rm == NewRecord(req.monitor, req.monitorInstance, req.subject, req.subjectInstance,
                           req.monitorLease, req.subjectLease, s, FALSE)
           rsub == NewRecord(req.subject, req.subjectInstance, req.monitor, req.monitorInstance,
                             req.subjectLease, req.monitorLease, m, c)
           rs == [q \in {m} |-> rm] \oplus [q \in {s} |-> rsub] \oplus records
<1>1. p.m = m /\ p.s = s /\ p.records = rs
    BY DEF NewPair
<1>2. /\ created \in Nat
      /\ \A r \in DOMAIN records : r \in Nat /\ r >= 1 /\ r <= created
    BY DEF IInv, RecordsOK, Typed
<1>3. /\ rm.node = req.monitor /\ rm.peer = s /\ rm.decision = None
      /\ rsub.node = req.subject /\ rsub.peer = m /\ rsub.decision = None
      /\ rm.monitorInstance = req.monitorInstance
      /\ rm.subject = req.subject /\ rm.subjectInstance = req.subjectInstance
      /\ rsub.monitorInstance = req.subjectInstance
      /\ rsub.subject = req.monitor /\ rsub.subjectInstance = req.monitorInstance
    BY DEF NewRecord
<1> HIDE DEF rm, rsub, c
<1>4. /\ DOMAIN rs = DOMAIN records \cup {m, s} /\ rs[m] = rm /\ rs[s] = rsub
      /\ \A r \in DOMAIN records : rs[r] = records[r] /\ r < m /\ r < s
      /\ m # s /\ m \notin DOMAIN records /\ s \notin DOMAIN records
      /\ m # NoPeer /\ s # NoPeer
    BY <1>2 DEF \oplus, NoPeer
<1> HIDE DEF rs, m, s
<1>5. /\ Ends(rm, Left) /\ rm.node = Left => Ends(req, req.monitor)
      /\ Ends(rsub, Left) /\ rsub.node = Left => Ends(req, req.monitor)
    BY <1>3, LeaseAssumption DEF Ends
<1>6. p.m = created + 1 /\ p.s = created + 2
    BY <1>1 DEF m, s
<1> QED  BY <1>1, <1>3, <1>4, <1>5, <1>6

\* A new pair of the lease makes both sides start again, and any other pair has nothing
\* to do with it.
LEMMA NewMaps ==
    ASSUME IInv, IInv', NEW req \in Requests, NEW p, p = NewPair(req),
           NEW d, NEW e, OnlyPair(p.records, p.m, p.s, d, e)
    PROVE  \/ LeaseDecisions' = LeaseDecisions
           \/ /\ Ends(req, req.monitor)
              /\ \E left \in BOOLEAN : LeaseDecisions' = Seen(left, d, e)
<1> DEFINE m == p.m
           s == p.s
           rs == p.records
<1>1. /\ m \notin DOMAIN records /\ s \notin DOMAIN records /\ m # s /\ m # NoPeer /\ s # NoPeer
      /\ DOMAIN rs = DOMAIN records \cup {m, s}
      /\ \A r \in DOMAIN records : rs[r] = records[r] /\ r < m /\ r < s
      /\ rs[m].peer = s /\ rs[s].peer = m
      /\ rs[m].node = req.monitor /\ rs[s].node = req.subject
      /\ Ends(rs[m], Left) /\ rs[m].node = Left => Ends(req, req.monitor)
      /\ Ends(rs[s], Left) /\ rs[s].node = Left => Ends(req, req.monitor)
    BY NewPairShape
<1>2. m \in Nat /\ s \in Nat
    BY NewPairShape DEF IInv
<1>3. OnlyPair(rs, m, s, d, e)
    OBVIOUS
<1> HIDE DEF m, s, rs
<1>4. ChangesPair(rs, m, s, d, e)
    BY <1>1, <1>3 DEF ChangesPair
<1>5. CASE ~OnLease(rs, m, s)
    BY <1>4, <1>5, OtherPair
<1>6. CASE OnLease(rs, m, s)
    <2> DEFINE left == m \in LeftRecords(rs)
               l == IF left THEN m ELSE s
    <2>1. Ends(req, req.monitor)
        BY <1>1, <1>6 DEF OnLease, LeftRecords
    <2>2. LeftRecords(rs) \subseteq Lease \cup {l}
        <3>1. ~(m \in LeftRecords(rs) /\ s \in LeftRecords(rs))
            BY <1>1, RequestAssumption DEF LeftRecords
        <3> QED  BY <1>1, <3>1 DEF LeftRecords, Lease
    <2>3. l \in LeftRecords(rs)
        BY <1>6 DEF OnLease
    <2>4. \A q \in Lease : q < m /\ q < s /\ q \in Nat
        BY <1>1 DEF Lease, LeftRecords, IInv, RecordsOK, Typed
    <2>5. \A q \in LeftRecords(rs) : q <= l
        BY <1>2, <2>2, <2>4
    <2>6. DecisionsAre(rs, l)
        BY <2>3, <2>5 DEF DecisionsAre
    <2>7. LeaseDecisions' = Seen(left, d, e)
        BY <1>4, <2>6, LeasePair DEF Seen
    <2>8. left \in BOOLEAN
        OBVIOUS
    <2> HIDE DEF left
    <2> QED  BY <2>1, <2>7, <2>8
<1> QED  BY <1>5, <1>6

\* A request for a decision.
LEMMA ArbitrateMaps ==
    ASSUME IInv, IInv', NEW req \in Requests, Decides(req)
    PROVE  Pair!Next \/ LeaseDecisions' = LeaseDecisions
<1> DEFINE p == IF Matching(records, state, req) = {} THEN NewPair(req) ELSE FoundPair(req)
<1>1. PICK d \in Decisions, e \in Decisions :
            /\ OnlyPair(p.records, p.m, p.s, d, e)
            /\ PairAllowed(req.type, p.records[p.m].decision, p.records[p.s].decision, d, e)
    BY DEF Decides
<1>2. req.type \in TwoWayTypes \cup {OneWay} /\ p.s # NoPeer
    BY DEF Decides
<1>3. Ends(req, req.monitor) => req.type \in Kinds
    BY <1>2, LeaseAssumption
<1>4. CASE Matching(records, state, req) = {}
    <2>1. p = NewPair(req)
        BY <1>4
    <2> HIDE DEF p
    <2>2. \/ LeaseDecisions' = LeaseDecisions
          \/ /\ Ends(req, req.monitor)
             /\ \E left \in BOOLEAN : LeaseDecisions' = Seen(left, d, e)
        BY <1>1, <2>1, NewMaps
    <2>3. p.records[p.m].decision = None /\ p.records[p.s].decision = None
        BY <2>1, NewPairShape
    <2>4. ASSUME Ends(req, req.monitor), NEW left \in BOOLEAN, LeaseDecisions' = Seen(left, d, e)
          PROVE  Pair!Next
        <3> DEFINE x == IF left THEN Left ELSE Right
                   y == IF left THEN Right ELSE Left
                   f == Seen(left, None, None)
                   g == Seen(left, d, e)
        <3>1. /\ x \in Both /\ y \in Both /\ x # y
              /\ f = [z \in Both |-> f[z]] /\ f[x] = None /\ f[y] = None
              /\ g = [z \in Both |-> g[z]] /\ g[x] = d /\ g[y] = e
            BY SeenSides
        <3>2. f = BlankPair /\ LeaseDecisions' = g
            BY <2>4 DEF Seen, BlankPair
        <3>3. PairAllowed(req.type, None, None, d, e) /\ req.type \in Kinds
            BY <1>1, <1>3, <2>3, <2>4
        <3> HIDE DEF x, y, f, g
        <3> QED  BY <3>1, <3>2, <3>3, AskIsAllowed
    <2> QED  BY <2>2, <2>4
<1>5. CASE Matching(records, state, req) # {}
    <2>1. p = FoundPair(req)
        BY <1>5
    <2>2. p.records = records
        BY <2>1 DEF FoundPair
    <2> HIDE DEF p
    <2> DEFINE m == p.m
               s == p.s
    <2>3. \/ LeaseDecisions' = LeaseDecisions
          \/ /\ Ends(req, req.monitor)
             /\ \E left \in BOOLEAN :
                    /\ LeaseDecisions = Seen(left, records[m].decision, records[s].decision)
                    /\ LeaseDecisions' = Seen(left, d, e)
        BY <1>1, <1>2, <1>5, <2>1, <2>2, FoundMaps
    <2>4. ASSUME Ends(req, req.monitor), NEW left \in BOOLEAN,
                 LeaseDecisions = Seen(left, records[m].decision, records[s].decision),
                 LeaseDecisions' = Seen(left, d, e)
          PROVE  Pair!Next
        <3> DEFINE x == IF left THEN Left ELSE Right
                   y == IF left THEN Right ELSE Left
                   f == Seen(left, records[m].decision, records[s].decision)
                   g == Seen(left, d, e)
        <3>1. /\ x \in Both /\ y \in Both /\ x # y
              /\ f = [z \in Both |-> f[z]]
              /\ f[x] = records[m].decision /\ f[y] = records[s].decision
              /\ g = [z \in Both |-> g[z]] /\ g[x] = d /\ g[y] = e
            BY SeenSides
        <3>2. f = LeaseDecisions /\ LeaseDecisions' = g
            BY <2>4
        <3>3. /\ PairAllowed(req.type, records[m].decision, records[s].decision, d, e)
              /\ req.type \in Kinds
            BY <1>1, <1>3, <2>2, <2>4
        <3> HIDE DEF x, y, f, g, m, s
        <3> QED  BY <3>1, <3>2, <3>3, AskIsAllowed
    <2> QED  BY <2>3, <2>4
<1> QED  BY <1>4, <1>5

\* A revert.
LEMMA RevertMaps ==
    ASSUME IInv, IInv', NEW req \in Requests, Reverts(req)
    PROVE  Pair!Next \/ LeaseDecisions' = LeaseDecisions
<1> DEFINE p == FoundPair(req)
           m == p.m
           s == p.s
           given == records[s].decision
           d == RevertedMonitor(req.type)
           e == IF IsPresent(given) THEN RevertedSubject(req.type) ELSE given
<1>1. CASE records' = records
    BY <1>1 DEF LeaseDecisions
<1>2. CASE /\ Matching(records, state, req) # {} /\ s # NoPeer
           /\ req.type \in RevertTypes
           /\ records[m].decision = Grant
           /\ OnlyPair(records, m, s, d, e)
    <2> HIDE DEF d, e
    <2>1. \/ LeaseDecisions' = LeaseDecisions
          \/ \E left \in BOOLEAN :
                /\ LeaseDecisions = Seen(left, records[m].decision, records[s].decision)
                /\ LeaseDecisions' = Seen(left, d, e)
        BY <1>2, FoundMaps
    <2>2. ASSUME NEW left \in BOOLEAN,
                 LeaseDecisions = Seen(left, records[m].decision, records[s].decision),
                 LeaseDecisions' = Seen(left, d, e)
          PROVE  Pair!Next
        <3> DEFINE x == IF left THEN Left ELSE Right
                   y == IF left THEN Right ELSE Left
                   f == Seen(left, records[m].decision, records[s].decision)
                   g == Seen(left, d, e)
        <3>1. /\ x \in Both /\ y \in Both /\ x # y
              /\ f = [z \in Both |-> f[z]] /\ f[x] = Grant /\ f[y] = records[s].decision
              /\ g = [z \in Both |-> g[z]] /\ g[x] = d /\ g[y] = e
            BY <1>2, SeenSides
        <3>2. f = LeaseDecisions /\ LeaseDecisions' = g
            BY <2>2
        <3>3. g[x] = RevertedMonitor(req.type)
              /\ g[y] = IF IsPresent(f[y]) THEN RevertedSubject(req.type) ELSE f[y]
            BY <3>1 DEF d, e
        <3> HIDE DEF x, y, f, g
        <3> QED  BY <1>2, <3>1, <3>2, <3>3, GiveBackIsAllowed
    <2> QED  BY <2>1, <2>2
<1> QED  BY <1>1, <1>2 DEF Reverts

\* The requests that change no record of a pair.
LEMMA UntouchedMaps ==
    ASSUME IInv, IInv', Untouched
    PROVE  LeaseDecisions' = LeaseDecisions
<1>1. LeftRecords(records') = Lease
    BY DEF Untouched, LeftRecords, Lease
<1>2. \A l \in Lease : l \in DOMAIN records /\ records[l].peer \in DOMAIN records
    BY LeasePairs
<1> QED  BY <1>1, <1>2, SamePairs DEF Untouched

\* Compaction drops the latest pair of the lease only together with the older ones, and
\* ends at most the delay of one side.
LEMMA CompactMaps ==
    ASSUME IInv, IInv', Compacts
    PROVE  Pair!Next \/ LeaseDecisions' = LeaseDecisions
<1>1. PICK R \in SUBSET DOMAIN records :
        /\ DOMAIN records' = DOMAIN records \ R
        /\ \A r \in R : PairOf(r) \subseteq R /\ \E q \in PairOf(r) : Older(q) \subseteq R
        /\ \A r \in DOMAIN records \ R :
                /\ SameSide(records[r], records'[r])
                /\ \/ records'[r].decision = records[r].decision
                   \/ records[r].decision = Delay /\ records'[r].decision = Grant
    BY DEF Compacts
<1>2. LeftRecords(records') = Lease \ R
    <2>1. LeftRecords(records') = Lease \cap DOMAIN records'
        BY <1>1, SameLeft DEF Lease
    <2> QED  BY <1>1, <2>1 DEF Lease, LeftRecords
<1>3. CASE Lease = {}
    BY <1>2, <1>3, LeaseBlank DEF LeaseDecisions, Lease
<1>4. CASE Lease # {}
    <2> DEFINE l == Latest(Lease)
               s == records[l].peer
    <2>1. DecisionsAre(records, l) /\ l \in Lease /\ \A q \in Lease : q <= l
        BY <1>4, LeaseCases DEF DecisionsAre, Lease
    <2> HIDE DEF l
    <2>2. /\ l \in DOMAIN records /\ s \in DOMAIN records /\ records[s].peer = l
          /\ l # NoPeer /\ s # NoPeer
          /\ records[l].node = Left /\ records[s].node = Right
          /\ l \in Nat /\ \A q \in Lease : q \in Nat
        BY <2>1, LeasePairs DEF IInv, RecordsOK, Typed
    <2>3. CASE l \in R
        <3>1. PICK q \in PairOf(l) : Older(q) \subseteq R
            BY <1>1, <2>3
        <3>2. ASSUME NEW r \in Lease PROVE r \in R
            <4> DEFINE x == records[r].peer
            <4>1. /\ r \in DOMAIN records /\ x \in DOMAIN records /\ records[x].peer = r
                  /\ records[r].node = Left /\ records[x].node = Right /\ r # NoPeer
                  /\ r < l => x < s
                BY <2>1, LeasePairs
            <4> HIDE DEF x
            <4>2. CASE r = l
                BY <4>2, <2>3
            <4>3. CASE r # l
                <5>1. r < l
                    BY <4>3, <2>1, <2>2
                <5>2. CASE q = l
                    <6>1. r \in Older(l)
                        BY <4>1, <5>1, <2>2 DEF Older, RecordsOf
                    <6> QED  BY <6>1, <5>2, <3>1
                <5>3. CASE q = s
                    <6>1. x \in Older(s)
                        BY <4>1, <5>1, <2>2 DEF Older, RecordsOf
                    <6>2. x \in R
                        BY <6>1, <5>3, <3>1
                    <6>3. r \in PairOf(x)
                        BY <4>1 DEF PairOf
                    <6> QED  BY <1>1, <6>2, <6>3
                <5> QED  BY <3>1, <5>2, <5>3 DEF PairOf
            <4> QED  BY <4>2, <4>3
        <3>3. LeftRecords(records') = {}
            BY <1>2, <3>2
        <3>4. LeaseDecisions' = BlankPair
            BY <3>3, LeaseBlank DEF LeaseDecisions
        <3> QED  BY <3>4, ForgetIsAllowed
    <2>4. CASE l \notin R
        <3>1. s \notin R
            <4>1. l \in PairOf(s)
                BY <2>2 DEF PairOf
            <4> QED  BY <4>1, <2>4, <1>1
        <3>2. DecisionsAre(records', l)
            BY <1>2, <2>1, <2>4 DEF DecisionsAre
        <3>3. /\ DOMAIN records \subseteq 1..created /\ created \in Nat
              /\ DOMAIN records' \subseteq 1..created' /\ created' \in Nat
            BY DEF IInv, RecordsOK, Typed
        <3>4. LeaseDecisions = Two(records[l].decision, records[s].decision)
            BY <2>1, <3>3, LeaseValue DEF LeaseDecisions
        <3>5. LeaseDecisions' = Two(records'[l].decision, records'[records'[l].peer].decision)
            BY <3>2, <3>3, LeaseValue DEF LeaseDecisions
        <3>6. records'[l].peer = s
            BY <1>1, <2>2, <2>4 DEF SameSide
        <3>7. /\ Opposed(records[l].decision, records[s].decision)
              /\ Opposed(records[s].decision, records[l].decision)
            BY <2>2 DEF IInv, RecordsOK, Separate
        <3> DEFINE f == LeaseDecisions
                   g == Two(records'[l].decision, records'[s].decision)
        <3>8. LeaseDecisions' = g
            BY <3>5, <3>6
        <3>9. /\ Left \in Both /\ Right \in Both /\ Left # Right
              /\ f = [z \in Both |-> f[z]] /\ g = [z \in Both |-> g[z]]
              /\ f[Left] = records[l].decision /\ f[Right] = records[s].decision
              /\ g[Left] = records'[l].decision /\ g[Right] = records'[s].decision
            BY <3>4, LeaseAssumption DEF Two, Both
        <3>10. /\ \/ records'[l].decision = records[l].decision
                  \/ records[l].decision = Delay /\ records'[l].decision = Grant
               /\ \/ records'[s].decision = records[s].decision
                  \/ records[s].decision = Delay /\ records'[s].decision = Grant
            BY <1>1, <2>2, <2>4, <3>1
        <3> HIDE DEF f, g, s
        <3>11. CASE g[Left] = f[Left] /\ g[Right] = f[Right]
            <4>1. g = f
                BY <3>9, <3>11 DEF Both
            <4> QED  BY <3>8, <4>1 DEF f
        <3>12. CASE f[Left] = Delay /\ g[Left] = Grant
            <4>1. g[Right] = f[Right]
                BY <3>7, <3>9, <3>10, <3>12 DEF Opposed, Delay, None, Reject
            <4>2. LeaseDecisions = f
                BY DEF f
            <4> QED  BY <3>8, <3>9, <3>12, <4>1, <4>2, DelayEndIsAllowed
        <3>13. CASE f[Right] = Delay /\ g[Right] = Grant
            <4>1. g[Left] = f[Left]
                BY <3>7, <3>9, <3>10, <3>13 DEF Opposed, Delay, None, Reject
            <4>2. LeaseDecisions = f
                BY DEF f
            <4> QED  BY <3>8, <3>9, <3>13, <4>1, <4>2, DelayEndIsAllowed
        <3> QED  BY <3>9, <3>10, <3>11, <3>12, <3>13
    <2> QED  BY <2>3, <2>4
<1> QED  BY <1>3, <1>4

-----------------------------------------------------------------------------
(***************************************************************************)
(* The theorem.                                                            *)
(***************************************************************************)

\* An empty table gives neither side a decision.
LEMMA InitMaps == Init => Pair!Init
<1> SUFFICES ASSUME Init PROVE Pair!Init
    OBVIOUS
<1>1. LeftRecords(records) = {}
    BY DEF Init, LeftRecords
<1> QED  BY <1>1, SameRules, LeaseBlank DEF Pair!Init, LeaseDecisions

\* Every step of the table is a step of the lease's arbiter, or none.
LEMMA NextMaps == IInv /\ IInv' /\ [Next]_vars => [Pair!Next]_LeaseDecisions
<1> SUFFICES ASSUME IInv, IInv', [Next]_vars PROVE Pair!Next \/ LeaseDecisions' = LeaseDecisions
    OBVIOUS
<1>1. ASSUME NEW req \in Requests, ProcessRequest(req) PROVE Pair!Next \/ LeaseDecisions' = LeaseDecisions
    <2>1. Decides(req) \/ Reverts(req) \/ Untouched
        BY <1>1, ArbitrateStep, RevertStep, ImplicitStep, OtherRequestStep DEF ProcessRequest
    <2> QED  BY <2>1, ArbitrateMaps, RevertMaps, UntouchedMaps
<1>2. CASE Compact
    BY <1>2, CompactStep, CompactMaps
<1>3. CASE Restart
    <2>1. LeftRecords(records') = {}
        BY <1>3 DEF Restart, LeftRecords
    <2> QED  BY <2>1, LeaseBlank, ForgetIsAllowed DEF LeaseDecisions
<1>4. CASE Tick \/ UNCHANGED vars
    <2>1. records' = records
        BY <1>4 DEF Tick, vars
    <2> QED  BY <2>1 DEF LeaseDecisions
<1> QED  BY <1>1, <1>2, <1>3, <1>4 DEF Next

\* The table keeps, for every lease between two instances of lease agents, the promise
\* that PairArbiter states: whatever is asked about other leases and other instances,
\* however the records age and whichever of them compaction drops, the decisions in the
\* latest pair of the lease change only as one pair of sides allows.  GetRecord and
\* CompactInternal are what could break it, by deciding on a pair that is not the latest
\* or by dropping the latest and keeping an older one.
THEOREM RefinesPair == Spec => ImplementsPair
<1>1. Init => Pair!Init
    BY InitMaps
<1>2. IInv /\ IInv' /\ [Next]_vars => [Pair!Next]_LeaseDecisions
    BY NextMaps
<1> QED  BY <1>1, <1>2, Invariance, PTL DEF Spec, ImplementsPair, Pair!Spec

=============================================================================
