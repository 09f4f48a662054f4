---------------------- MODULE ArbitrationTable_proofs ----------------------
(***************************************************************************)
(* Proofs about ArbitrationTable, for any set of lease agents, any set of  *)
(* requests and any setting of the intervals and thresholds.               *)
(***************************************************************************)
EXTENDS ArbitrationTable, TLAPS, WellFoundedInduction

-----------------------------------------------------------------------------
(***************************************************************************)
(* Lemmas on the operators.                                                *)
(***************************************************************************)

\* st gives each of the records D a state, and only those of X an implicit one.
StatesOf(D, X, st) ==
    DOMAIN st = D /\ \A r \in D : st[r] \in RecordStates /\ (st[r] = "Implicit" => r \in X)

\* The states that a record with a peer may get.
PairStates == RecordStates \ {"Implicit"}

\* A non-empty set of record numbers has a largest one, so that GetRecord's
\* first match exists.
LEMMA LatestIsMember ==
    ASSUME NEW k \in Nat, NEW S \in SUBSET (1..k), S # {}
    PROVE  Latest(S) \in S /\ \A q \in S : q <= Latest(S)
<1> DEFINE T == {k - r : r \in S}
<1>1. T \subseteq Nat /\ T # {}
    <2>1. \A r \in S : r \in Nat /\ r <= k
        OBVIOUS
    <2>2. T \subseteq Nat
        BY <2>1
    <2>3. PICK r \in S : TRUE
        OBVIOUS
    <2>4. k - r \in T
        OBVIOUS
    <2> QED  BY <2>2, <2>4
<1> DEFINE Less == {ss \in Nat \X Nat : ss[1] < ss[2]}
<1>0. IsWellFoundedOn(Less, Nat)
    BY NatLessThanWellFounded, Zenon DEF OpToRel
<1>2. PICK x \in T : \A y \in T : ~(<<y, x>> \in Less)
    <2> HIDE DEF T, Less
    <2> QED  BY <1>0, <1>1, WFMin
<1>3. \A y \in T : ~(y < x)
    BY <1>1, <1>2
<1>4. PICK r \in S : x = k - r
    BY <1>2
<1>5. \A q \in S : q <= r
    <2> TAKE q \in S
    <2>1. k - q \in T
        OBVIOUS
    <2>2. ~(k - q < k - r)
        BY <1>3, <1>4, <2>1
    <2>3. q \in Nat /\ r \in Nat
        OBVIOUS
    <2> HIDE DEF T, Less
    <2> QED  BY <2>2, <2>3
<1> QED  BY <1>5 DEF Latest

\* Overriding the states of some records keeps a state for every record.
LEMMA OplusStates ==
    ASSUME NEW D, NEW X, NEW f, NEW g, DOMAIN f \subseteq D,
           \A r \in DOMAIN f : f[r] \in PairStates, StatesOf(D, X, g)
    PROVE  StatesOf(D, X, f \oplus g)
BY DEF StatesOf, \oplus, PairStates

\* UpdateRecordState leaves every record in one of the declared states.
LEMMA SettledStates ==
    ASSUME NEW D, NEW X, NEW rs, NEW st, NEW next, StatesOf(D, X, next)
    PROVE  StatesOf(D, X, Settled(rs, st, next))
<1> DEFINE Crossed(n) == /\ ReportedCount(rs, st, n) < ReportThreshold
                         /\ ReportedCount(rs, next, n) >= ReportThreshold
           down == {q \in DOMAIN next : /\ next[q] = "Reported"
                                        /\ rs[q].peer # NoPeer
                                        /\ Crossed(rs[rs[q].peer].node)}
<1>1. Settled(rs, st, next) = [q \in down |-> "Reported2"] \oplus next
    BY DEF Settled
<1>2. down \subseteq D
    BY DEF StatesOf
<1> HIDE DEF down
<1>3. StatesOf(D, X, [q \in down |-> "Reported2"] \oplus next)
    BY <1>2, OplusStates DEF RecordStates, PairStates
<1> QED  BY <1>1, <1>3

\* The state a report gives a record is one of the declared ones.
LEMMA ReportedAsState == ASSUME NEW rs, NEW st, NEW r PROVE ReportedAs(rs, st, r) \in PairStates
BY DEF ReportedAs, RecordStates, PairStates

\* ArbitrationRecord::UpdateState keeps a state for every record.
LEMMA UpdateStateStates ==
    ASSUME NEW D, NEW X, NEW rs, NEW st, NEW r \in D, NEW s \in PairStates, StatesOf(D, X, st)
    PROVE  StatesOf(D, X, UpdateState(rs, st, r, s))
<1> DEFINE one == [q \in {r} |-> IF s = "Reported" THEN ReportedAs(rs, st, r) ELSE s]
<1>1. UpdateState(rs, st, r, s) = Settled(rs, st, one \oplus st)
    BY DEF UpdateState
<1>2. DOMAIN one \subseteq D /\ \A q \in DOMAIN one : one[q] \in PairStates
    BY ReportedAsState
<1> HIDE DEF one
<1>3. StatesOf(D, X, one \oplus st)
    BY <1>2, OplusStates
<1> QED  BY <1>1, <1>3, SettledStates

\* So does setting a decision (set_Decision).
LEMMA DecisionStateStates ==
    ASSUME NEW D, NEW X, NEW rs, NEW st, NEW r \in D, NEW d, StatesOf(D, X, st),
           rs[r].peer \in D \cup {NoPeer}
    PROVE  StatesOf(D, X, DecisionState(rs, st, r, d))
<1> DEFINE p == rs[r].peer
           own == IF st[r] = "Rejected" THEN UpdateState(rs, st, r, "Reported") ELSE st
<1>1. "Reported" \in PairStates /\ "Rejected" \in PairStates
    BY DEF RecordStates, PairStates
<1>2. StatesOf(D, X, own)
    BY <1>1, UpdateStateStates
<1>3. p # NoPeer => StatesOf(D, X, UpdateState(rs, own, p, "Rejected"))
    <2> HIDE DEF own
    <2> QED  BY <1>1, <1>2, UpdateStateStates
<1>4. StatesOf(D, X, UpdateState(rs, st, r, "Rejected"))
    BY <1>1, UpdateStateStates
<1>5. \/ DecisionState(rs, st, r, d) = st
      \/ DecisionState(rs, st, r, d) = UpdateState(rs, st, r, "Rejected")
      \/ p # NoPeer /\ DecisionState(rs, st, r, d) = UpdateState(rs, own, p, "Rejected")
      \/ DecisionState(rs, st, r, d) = own
    BY DEF DecisionState
<1> QED  BY <1>2, <1>3, <1>4, <1>5

\* So does recording a request (UpdateRequest).
LEMMA RequestStateStates ==
    ASSUME NEW D, NEW X, NEW rs, NEW st, NEW r \in D, NEW ttl, StatesOf(D, X, st), rs[r].peer \in D
    PROVE  StatesOf(D, X, RequestState(rs, st, r, ttl))
<1> DEFINE p == rs[r].peer
           asked == UpdateState(rs, st, r, IF ttl > 0 THEN "Pending" ELSE "Confirmed")
<1>1. {"Reported", "Pending", "Confirmed"} \subseteq PairStates
    BY DEF RecordStates, PairStates
<1>2. StatesOf(D, X, asked)
    BY <1>1, UpdateStateStates
<1>3. StatesOf(D, X, UpdateState(rs, asked, p, "Reported"))
    <2> HIDE DEF asked
    <2> QED  BY <1>1, <1>2, UpdateStateStates
<1>4. StatesOf(D, X, UpdateState(rs, st, p, "Reported"))
    BY <1>1, UpdateStateStates
<1>5. \/ RequestState(rs, st, r, ttl) = UpdateState(rs, asked, p, "Reported")
      \/ RequestState(rs, st, r, ttl) = UpdateState(rs, st, p, "Reported")
      \/ RequestState(rs, st, r, ttl) = st
    BY DEF RequestState
<1> QED  BY <1>3, <1>4, <1>5

\* So does reading the suspicion level, which ages the records.
LEMMA AgedStates ==
    ASSUME NEW X, NEW rs, NEW st, NEW n, StatesOf(DOMAIN rs, X, st)
    PROVE  StatesOf(DOMAIN rs, X, Aged(rs, st, n))
<1> DEFINE D == DOMAIN rs
           expired == {r \in RecordsOf(rs, n) : rs[r].processTime < now - SuspicionExpireInterval}
           confirmed == {r \in RecordsOf(rs, n) \ expired : st[r] = "Pending" /\ rs[r].expireTime < now}
           over == {r \in RecordsOf(rs, n) \ expired :
                       st[r] = "Rejected" /\ rs[r].processTime < now - MaxArbitrationTimeout}
           f1 == [r \in expired |-> "Expired"]
           f2 == [r \in confirmed |-> "Confirmed"]
           f3 == [r \in over |-> ReportedAs(rs, st, r)]
<1>1. Aged(rs, st, n) = f1 \oplus f2 \oplus f3 \oplus st
    BY DEF Aged
<1>2. expired \subseteq D /\ confirmed \subseteq D /\ over \subseteq D
    BY DEF RecordsOf
<1> HIDE DEF expired, confirmed, over
<1>3. /\ DOMAIN f1 \subseteq D /\ \A r \in DOMAIN f1 : f1[r] \in PairStates
      /\ DOMAIN f2 \subseteq D /\ \A r \in DOMAIN f2 : f2[r] \in PairStates
      /\ DOMAIN f3 \subseteq D /\ \A r \in DOMAIN f3 : f3[r] \in PairStates
    BY <1>2, ReportedAsState DEF RecordStates, PairStates
<1> HIDE DEF f1, f2, f3, D
<1>4. DOMAIN (f1 \oplus f2) \subseteq D /\ \A r \in DOMAIN (f1 \oplus f2) : (f1 \oplus f2)[r] \in PairStates
    BY <1>3 DEF \oplus
<1> DEFINE f12 == f1 \oplus f2
<1> HIDE DEF f12
<1>5. DOMAIN (f12 \oplus f3) \subseteq D /\ \A r \in DOMAIN (f12 \oplus f3) : (f12 \oplus f3)[r] \in PairStates
    BY <1>3, <1>4 DEF \oplus, f12
<1>6. StatesOf(D, X, (f12 \oplus f3) \oplus st)
    BY <1>5, OplusStates DEF D
<1> QED  BY <1>1, <1>6 DEF f12, D

\* So does IsSuspicious, which reads that level.
LEMMA SuspicionAgedStates ==
    ASSUME NEW X, NEW rs, NEW st, NEW n, NEW threshold, StatesOf(DOMAIN rs, X, st)
    PROVE  StatesOf(DOMAIN rs, X, SuspicionAged(rs, st, n, threshold))
BY AgedStates DEF SuspicionAged

\* So does UpdateInstance, which expires the records of an older instance.
LEMMA InstanceStateStates ==
    ASSUME NEW X, NEW h, NEW rs, NEW st, NEW n, NEW instance, StatesOf(DOMAIN rs, X, st)
    PROVE  StatesOf(DOMAIN rs, X, InstanceState(h, rs, st, n, instance))
<1> DEFINE S == {q \in RecordsOf(rs, n) : st[q] = "Rejected"}
<1>1. S \subseteq DOMAIN rs
    BY DEF RecordsOf
<1> HIDE DEF S
<1>2. StatesOf(DOMAIN rs, X, [r \in S |-> ReportedAs(rs, st, r)] \oplus st)
    BY <1>1, ReportedAsState, OplusStates
<1> QED  BY <1>2 DEF InstanceState, S

\* What a first request gets is one of three decisions, and never a delay for a
\* simple lease.
LEMMA FirstVerdictShape ==
    ASSUME NEW X, NEW h, NEW rs, NEW st, NEW req, NEW continuous, StatesOf(DOMAIN rs, X, st)
    PROVE  LET v == FirstVerdict(h, rs, st, req, continuous)
           IN  /\ v.decision \in {Grant, Reject, Delay}
               /\ req.type = TwoWaySimple => v.decision \in {Grant, Reject}
               /\ v.strong \in BOOLEAN
               /\ StatesOf(DOMAIN rs, X, v.state)
<1> DEFINE m == req.monitor
           s == req.subject
           both == Aged(rs, Aged(rs, st, m), s)
           c == Compared(h, RawSuspicionLevel(rs, both, m), RawSuspicionLevel(rs, both, s), m, s)
           st1 == IF Received(h, s) THEN SuspicionAged(rs, st, s, KeepAliveThreshold) ELSE st
           spared == Received(h, s) /\ ~IsSuspicious(rs, st, s, KeepAliveThreshold)
           st2 == IF spared THEN st1 ELSE SuspicionAged(rs, st1, m, SuspicionThreshold)
<1>1. c.decision \in {Grant, Reject} /\ c.strong \in BOOLEAN
    BY DEF Compared
<1>2. StatesOf(DOMAIN rs, X, Aged(rs, st, m))
    BY AgedStates
<1>3. StatesOf(DOMAIN rs, X, both)
    BY <1>2, AgedStates
<1>4. StatesOf(DOMAIN rs, X, st1)
    BY SuspicionAgedStates
<1>5. StatesOf(DOMAIN rs, X, st2)
    <2> HIDE DEF st1
    <2> QED  BY <1>4, SuspicionAgedStates
<1>6. \/ FirstVerdict(h, rs, st, req, continuous)
            = [decision |-> c.decision, strong |-> c.strong, state |-> both]
      \/ /\ req.type # TwoWaySimple
         /\ \E d \in {Delay, Grant} : FirstVerdict(h, rs, st, req, continuous)
                = [decision |-> d, strong |-> FALSE, state |-> st2]
    BY DEF FirstVerdict
<1> DEFINE v == FirstVerdict(h, rs, st, req, continuous)
<1> HIDE DEF c, both, st2, v
<1>7. CASE v = [decision |-> c.decision, strong |-> c.strong, state |-> both]
    BY <1>1, <1>3, <1>7 DEF v
<1>8. CASE req.type # TwoWaySimple /\ \E d \in {Delay, Grant} : v = [decision |-> d, strong |-> FALSE, state |-> st2]
    BY <1>5, <1>8 DEF v
<1> QED  BY <1>6, <1>7, <1>8 DEF v

\* Grants and delayed grants exclude everything but a rejection on the other
\* side.
Opposed(d, e) == d \in {Grant, Delay} => e \in {None, Reject}

\* What a request of the given type may make of the decisions of its own side and
\* of the other, d and e: they become d2 and e2.
PairAllowed(type, d, e, d2, e2) ==
    \/ d2 = Reject /\ e2 = e
    \/ IsPresent(e) /\ d2 = AgainstPresent(type, e) /\ e2 = SubjectAfterReport(e)
    \/ /\ ~IsPresent(e) /\ e2 = e
       /\ \/ type = OneWay /\ d2 = Neutral
          \/ type # OneWay /\ IsPresent(d) /\ d2 = d
          \/ /\ type # OneWay /\ ~IsPresent(d)
             /\ d2 \in {Grant, Reject, Delay} /\ (type = TwoWaySimple => d2 # Delay)

\* The decisions that a side of a simple lease may get.
Firm == {None, Grant, Reject}

\* MakeDecision turns a pair of decisions that may stand together into another
\* one, and never leaves the asking side without a decision.
LEMMA OutcomeShape ==
    ASSUME NEW X, NEW h, NEW rs, NEW st, NEW req, NEW m \in DOMAIN rs, NEW s \in DOMAIN rs,
           NEW continuous, StatesOf(DOMAIN rs, X, st),
           rs[m] \in RecordType, rs[s] \in RecordType,
           rs[m].peer = s, rs[s].peer = m, m # s,
           Opposed(rs[m].decision, rs[s].decision), Opposed(rs[s].decision, rs[m].decision)
    PROVE  LET o == Outcome(h, rs, st, req, m, s, continuous)
           IN  /\ o.decision \in Decisions \ {None}
               /\ o.subject \in Decisions
               /\ o.strong \in BOOLEAN
               /\ Opposed(o.decision, o.subject) /\ Opposed(o.subject, o.decision)
               /\ o.subject = rs[s].decision \/ (rs[s].decision = Delay /\ o.subject = Neutral)
               /\ o.decision = Delay =>
                    rs[m].decision = Delay \/ (rs[m].decision = None /\ rs[s].decision = None)
               /\ req.type = TwoWaySimple /\ rs[m].decision \in Firm /\ rs[s].decision \in Firm =>
                    o.decision \in Firm /\ o.subject \in Firm
               /\ StatesOf(DOMAIN rs, X, o.state)
               /\ PairAllowed(req.type, rs[m].decision, rs[s].decision, o.decision, o.subject)
<1> DEFINE first == FirstVerdict(h, rs, st, req, continuous)
           against == AgainstPresent(req.type, rs[s].decision)
           reported == SubjectAfterReport(rs[s].decision)
           shared == IF reported # rs[s].decision THEN DecisionState(rs, st, s, reported) ELSE st
           rs1(e) == [rs EXCEPT ![s].decision = e]
           Made(d, e, strong, st1) ==
               [decision |-> d, subject |-> e, strong |-> strong,
                state |-> DecisionState(rs1(e), st1, m, d)]
           o == Outcome(h, rs, st, req, m, s, continuous)
<1>1. /\ first.decision \in {Grant, Reject, Delay} /\ first.strong \in BOOLEAN
      /\ req.type = TwoWaySimple => first.decision \in {Grant, Reject}
      /\ StatesOf(DOMAIN rs, X, first.state)
    BY FirstVerdictShape
<1>2. StatesOf(DOMAIN rs, X, shared)
    <2>1. rs[s].peer \in DOMAIN rs \cup {NoPeer}
        OBVIOUS
    <2> QED  BY <2>1, DecisionStateStates
<1>3. rs[m].decision \in Decisions /\ rs[s].decision \in Decisions /\ rs[s].strong \in BOOLEAN
    BY DEF RecordType
<1>4. \A d, e, st1 : StatesOf(DOMAIN rs, X, st1) => StatesOf(DOMAIN rs, X, DecisionState(rs1(e), st1, m, d))
    <2> TAKE d, e, st1
    <2>1. rs1(e)[m].peer \in DOMAIN rs \cup {NoPeer}
        OBVIOUS
    <2> HIDE DEF rs1
    <2> QED  BY <2>1, DecisionStateStates
<1>5. \/ o = Made(Reject, rs[s].decision, FALSE, st)
      \/ IsPresent(rs[s].decision) /\ o = Made(against, reported, rs[s].strong, shared)
      \/ ~IsPresent(rs[s].decision) /\ req.type = OneWay /\ o = Made(Neutral, None, FALSE, st)
      \/ /\ req.type # OneWay /\ IsPresent(rs[m].decision) /\ ~IsPresent(rs[s].decision)
         /\ o = [decision |-> rs[m].decision, subject |-> None, strong |-> FALSE, state |-> st]
      \/ /\ req.type # OneWay /\ ~IsPresent(rs[m].decision) /\ ~IsPresent(rs[s].decision)
         /\ o = Made(first.decision, None, first.strong, first.state)
    <2> HIDE DEF first, shared
    <2> QED  BY DEF Outcome, first, shared
<1> HIDE DEF o, first, shared, rs1
<1>11. PairAllowed(req.type, rs[m].decision, rs[s].decision, o.decision, o.subject)
    <2>1. /\ Made(first.decision, None, first.strong, first.state).decision = first.decision
          /\ Made(first.decision, None, first.strong, first.state).subject = None
          /\ Made(Neutral, None, FALSE, st).decision = Neutral /\ Made(Neutral, None, FALSE, st).subject = None
        OBVIOUS
    <2>2. /\ Made(Reject, rs[s].decision, FALSE, st).decision = Reject
          /\ Made(Reject, rs[s].decision, FALSE, st).subject = rs[s].decision
          /\ Made(against, reported, rs[s].strong, shared).decision = against
          /\ Made(against, reported, rs[s].strong, shared).subject = reported
        OBVIOUS
    <2>3. TwoWaySimple # OneWay /\ Grant # Delay /\ Reject # Delay
        BY DEF TwoWaySimple, OneWay, Grant, Reject, Delay
    <2> HIDE DEF Made, against, reported
    <2>4. CASE o = Made(Reject, rs[s].decision, FALSE, st)
        BY <2>2, <2>4 DEF PairAllowed
    <2>5. CASE IsPresent(rs[s].decision) /\ o = Made(against, reported, rs[s].strong, shared)
        BY <2>2, <2>5 DEF PairAllowed, against, reported
    <2>6. CASE ~IsPresent(rs[s].decision) /\ req.type = OneWay /\ o = Made(Neutral, None, FALSE, st)
        BY <2>1, <2>6 DEF PairAllowed, IsPresent
    <2>7. CASE /\ req.type # OneWay /\ IsPresent(rs[m].decision) /\ ~IsPresent(rs[s].decision)
               /\ o = [decision |-> rs[m].decision, subject |-> None, strong |-> FALSE, state |-> st]
        BY <2>7 DEF PairAllowed, IsPresent
    <2>8. CASE /\ req.type # OneWay /\ ~IsPresent(rs[m].decision) /\ ~IsPresent(rs[s].decision)
               /\ o = Made(first.decision, None, first.strong, first.state)
        BY <1>1, <2>1, <2>3, <2>8 DEF PairAllowed, IsPresent
    <2> QED  BY <1>5, <2>4, <2>5, <2>6, <2>7, <2>8
<1>6. CASE o = Made(Reject, rs[s].decision, FALSE, st)
    BY <1>3, <1>4, <1>6, <1>11 DEF Decisions, Opposed, Firm, o, Grant, Reject, Delay, Neutral, None
<1>7. CASE IsPresent(rs[s].decision) /\ o = Made(against, reported, rs[s].strong, shared)
    BY <1>2, <1>3, <1>4, <1>7, <1>11
    DEF Decisions, Opposed, Firm, o, Grant, Reject, Delay, Neutral, None, AgainstPresent,
        OneWay, TwoWaySimple, SubjectAfterReport, IsPresent
<1>8. CASE ~IsPresent(rs[s].decision) /\ req.type = OneWay /\ o = Made(Neutral, None, FALSE, st)
    BY <1>3, <1>4, <1>8, <1>11 DEF Decisions, Opposed, Firm, o, Grant, Reject, Delay, Neutral, None, IsPresent, OneWay, TwoWaySimple
<1>9. CASE /\ IsPresent(rs[m].decision) /\ ~IsPresent(rs[s].decision)
           /\ o = [decision |-> rs[m].decision, subject |-> None, strong |-> FALSE, state |-> st]
    BY <1>3, <1>9, <1>11 DEF Decisions, Opposed, Firm, o, Grant, Reject, Delay, Neutral, None, IsPresent
<1>10. CASE /\ ~IsPresent(rs[m].decision) /\ ~IsPresent(rs[s].decision)
            /\ o = Made(first.decision, None, first.strong, first.state)
    BY <1>1, <1>3, <1>4, <1>10, <1>11 DEF Decisions, Opposed, Firm, o, Grant, Reject, Delay, Neutral, None, IsPresent
<1> QED  BY <1>5, <1>6, <1>7, <1>8, <1>9, <1>10

-----------------------------------------------------------------------------
(***************************************************************************)
(* The inductive invariant, as a predicate on the records rs, of which k   *)
(* were ever created, at time t.                                           *)
(***************************************************************************)

Typed(rs, k) == DOMAIN rs \subseteq 1..k /\ \A r \in DOMAIN rs : rs[r] \in RecordType

\* Two records of one lease, as its two sides see it.
Mirrored(a, b) ==
    /\ b.node = a.subject /\ b.subject = a.node
    /\ b.monitorInstance = a.subjectInstance /\ b.subjectInstance = a.monitorInstance
    /\ b.monitorLease = a.subjectLease /\ b.subjectLease = a.monitorLease

\* What never changes in a record.
SameSide(a, b) ==
    /\ b.peer = a.peer
    /\ b.node = a.node /\ b.subject = a.subject
    /\ b.monitorInstance = a.monitorInstance /\ b.subjectInstance = a.subjectInstance
    /\ b.monitorLease = a.monitorLease /\ b.subjectLease = a.subjectLease

Paired(rs) ==
    \A r \in DOMAIN rs :
        rs[r].peer # NoPeer =>
            /\ rs[r].peer \in DOMAIN rs
            /\ rs[r].peer # r
            /\ rs[rs[r].peer].peer = r
            /\ Mirrored(rs[r], rs[rs[r].peer])

Separate(rs) ==
    \A r \in DOMAIN rs :
        rs[r].peer # NoPeer => Opposed(rs[r].decision, rs[rs[r].peer].decision)

\* Of two peers, other than the ones in X, at least one has asked.
OneHasAsked(rs, X) ==
    \A r \in DOMAIN rs \ X :
        rs[r].peer # NoPeer => IsPresent(rs[r].decision) \/ IsPresent(rs[rs[r].peer].decision)

\* A delayed record was the first of its pair to ask.
DelayedAskedFirst(rs) ==
    \A r \in DOMAIN rs :
        rs[r].decision = Delay =>
            rs[r].peer # NoPeer /\ rs[rs[r].peer].processTime >= rs[r].processTime

Past(rs, t) == \A r \in DOMAIN rs : rs[r].processTime <= t

\* A record that has not asked has the time at which its pair was created, and the
\* peer that asked first keeps it.
AskedLater(rs) ==
    \A r \in DOMAIN rs :
        rs[r].peer # NoPeer /\ ~IsPresent(rs[r].decision) =>
            rs[rs[r].peer].processTime <= rs[r].processTime

Earliest(x, y) == IF x < y THEN x ELSE y

\* When a record was created.
Since(rs, r) ==
    IF rs[r].peer = NoPeer THEN rs[r].processTime
    ELSE Earliest(rs[rs[r].peer].processTime, rs[r].processTime)

\* Records are numbered in the order in which they were created.
InTurn(rs) == \A r, q \in DOMAIN rs : r <= q => Since(rs, r) <= Since(rs, q)

OneLease(a, b) ==
    /\ a.node = b.node /\ a.monitorInstance = b.monitorInstance
    /\ a.subject = b.subject /\ a.subjectInstance = b.subjectInstance
    /\ a.monitorLease = b.monitorLease /\ a.monitorLease > 0
    /\ a.subjectLease = b.subjectLease /\ a.subjectLease > 0

\* OnePairPerLease for the records rs.
PairsApart(rs) ==
    \A r, q \in DOMAIN rs :
        OneLease(rs[r], rs[q]) /\ r < q /\ rs[r].peer # NoPeer /\ rs[q].peer # NoPeer
            => Since(rs, r) < Since(rs, q) - SuspicionExpireInterval

\* The records without a peer, of implicit requests.
Alone(rs) == {r \in DOMAIN rs : rs[r].peer = NoPeer}

RecordsOK(rs, k, t, X) ==
    /\ Typed(rs, k)
    /\ Paired(rs)
    /\ Separate(rs)
    /\ OneHasAsked(rs, X)
    /\ DelayedAskedFirst(rs)
    /\ Past(rs, t)
    /\ AskedLater(rs)
    /\ InTurn(rs)
    /\ PairsApart(rs)

NodesOK(h) ==
    DOMAIN h \subseteq Nodes /\ \A n \in DOMAIN h : h[n] \in [instance: Nat, lastReceived: Nat]

\* The inductive invariant: types, pairs, opposing decisions, and what keeps
\* the delayed records alive until their delay is over.
IInv ==
    /\ now \in Nat /\ historyStart \in Nat /\ lastCompact \in Nat /\ created \in Nat
    /\ NodesOK(nodes)
    /\ RecordsOK(records, created, now, {})
    /\ StatesOf(DOMAIN records, Alone(records), state)
    /\ DelayedTracked

\* The inductive invariant implies the invariants that the runs check.
LEMMA IInvImplies ==
    IInv => TypeOK /\ PeersMatch /\ NoOpposingGrants /\ DelayedTracked /\ OnePairPerLease
<1> SUFFICES ASSUME IInv PROVE TypeOK /\ PeersMatch /\ NoOpposingGrants /\ DelayedTracked /\ OnePairPerLease
    OBVIOUS
<1>1. TypeOK /\ PeersMatch /\ NoOpposingGrants /\ DelayedTracked
    BY DEF IInv, NodesOK, RecordsOK, Typed, Paired, Mirrored, Separate, Opposed, StatesOf, TypeOK, PeersMatch,
           NoOpposingGrants, DelayedTracked
<1>2. ASSUME NEW r \in DOMAIN records, NEW q \in DOMAIN records, SameLease(r, q), r < q,
             {records[r].peer, records[q].peer} \cap {NoPeer} = {}
      PROVE  FirstAsked(r) < FirstAsked(q) - SuspicionExpireInterval
    <2>1. records[r].peer # NoPeer /\ records[q].peer # NoPeer
        BY <1>2
    <2>2. OneLease(records[r], records[q])
        BY <1>2 DEF SameLease, OneLease
    <2>3. Since(records, r) = FirstAsked(r) /\ Since(records, q) = FirstAsked(q)
        BY <2>1 DEF Since, FirstAsked, Earliest
    <2> QED  BY <1>2, <2>1, <2>2, <2>3 DEF IInv, RecordsOK, PairsApart
<1> QED  BY <1>1, <1>2 DEF OnePairPerLease

\* new differs from rs in the records m and s of one pair only, which stay a
\* pair and hold decisions that may stand together.
PairChange(rs, new, m, s, t) ==
    /\ m \in DOMAIN rs /\ s \in DOMAIN rs /\ m # s /\ rs[m].peer = s /\ rs[s].peer = m
    /\ DOMAIN new = DOMAIN rs /\ \A q \in DOMAIN rs \ {m, s} : new[q] = rs[q]
    /\ \A q \in {m, s} : new[q] \in RecordType /\ SameSide(rs[q], new[q]) /\ new[q].processTime <= t
    /\ Earliest(new[m].processTime, new[s].processTime) = Earliest(rs[m].processTime, rs[s].processTime)
    /\ IsPresent(new[m].decision) \/ new[s].processTime <= new[m].processTime
    /\ IsPresent(new[s].decision) \/ new[m].processTime <= new[s].processTime
    /\ Opposed(new[m].decision, new[s].decision) /\ Opposed(new[s].decision, new[m].decision)
    /\ IsPresent(new[m].decision) \/ IsPresent(new[s].decision)
    /\ new[m].decision = Delay => new[s].processTime >= new[m].processTime
    /\ new[s].decision = Delay => new[m].processTime >= new[s].processTime

\* The earlier of two times does not depend on their order.
LEMMA EarliestSwaps == ASSUME NEW x \in Int, NEW y \in Int PROVE Earliest(x, y) = Earliest(y, x)
BY DEF Earliest

\* Such a change keeps all records in order.
LEMMA ChangedPair ==
    ASSUME NEW k \in Nat, NEW t \in Nat, NEW rs, NEW new, NEW m, NEW s,
           RecordsOK(rs, k, t, {m, s}), PairChange(rs, new, m, s, t)
    PROVE  RecordsOK(new, k, t, {})
<1> USE DEF PairChange
<1>0. m # NoPeer /\ s # NoPeer
    BY DEF RecordsOK, Typed, NoPeer
<1>1. \A r \in DOMAIN rs \ {m, s} : rs[r].peer \notin {m, s}
    BY <1>0 DEF RecordsOK, Paired
<1>2. Typed(new, k)
    BY DEF RecordsOK, Typed
<1>p. \A r \in DOMAIN rs : SameSide(rs[r], new[r])
    BY DEF SameSide
<1>3. Paired(new)
    BY <1>0, <1>1, <1>p DEF RecordsOK, Paired, SameSide, Mirrored
<1>4. Separate(new)
    BY <1>0, <1>1, <1>p DEF RecordsOK, Paired, Separate, SameSide
<1>5. OneHasAsked(new, {})
    BY <1>0, <1>1, <1>p DEF RecordsOK, Paired, OneHasAsked, SameSide
<1>6. DelayedAskedFirst(new)
    BY <1>0, <1>1, <1>p DEF RecordsOK, Paired, DelayedAskedFirst, SameSide
<1>7. Past(new, t)
    BY DEF RecordsOK, Past
<1>8. AskedLater(new)
    BY <1>0, <1>1, <1>p DEF RecordsOK, Paired, AskedLater, SameSide
<1>9. ASSUME NEW r \in DOMAIN rs PROVE Since(new, r) = Since(rs, r)
    <2>1. CASE r \notin {m, s}
        BY <2>1, <1>0, <1>1, <1>p DEF Since, SameSide, RecordsOK, Paired
    <2>2. CASE r = m
        <3>1. /\ Since(rs, m) = Earliest(rs[s].processTime, rs[m].processTime)
              /\ Since(new, m) = Earliest(new[s].processTime, new[m].processTime)
            BY <1>0, <1>p DEF Since, SameSide
        <3>2. /\ rs[s].processTime \in Int /\ rs[m].processTime \in Int
              /\ new[s].processTime \in Int /\ new[m].processTime \in Int
            BY DEF RecordsOK, Typed, RecordType
        <3>3. /\ Since(rs, m) = Earliest(rs[m].processTime, rs[s].processTime)
              /\ Since(new, m) = Earliest(new[m].processTime, new[s].processTime)
            BY <3>1, <3>2, EarliestSwaps
        <3> QED  BY <2>2, <3>3
    <2>3. CASE r = s
        BY <2>3, <1>0, <1>p DEF Since, SameSide
    <2> QED  BY <2>1, <2>2, <2>3
<1>10. InTurn(new)
    BY <1>9 DEF RecordsOK, InTurn
<1>11. PairsApart(new)
    BY <1>9, <1>p DEF RecordsOK, PairsApart, OneLease, SameSide
<1> QED  BY <1>2, <1>3, <1>4, <1>5, <1>6, <1>7, <1>8, <1>10, <1>11 DEF RecordsOK

-----------------------------------------------------------------------------
(***************************************************************************)
(* What a request finds or creates.                                        *)
(***************************************************************************)

\* The fields of a request that may arrive have their types.
LEMMA RequestFields ==
    ASSUME NEW req \in Requests
    PROVE  /\ req.monitor \in Nodes /\ req.subject \in Nodes
           /\ req.monitorInstance \in Nat /\ req.subjectInstance \in Nat
           /\ req.monitorLease \in Nat /\ req.subjectLease \in Nat
           /\ req.subjectTTL \in Nat /\ req.arbitration1 \in Nat /\ req.arbitration2 \in Nat
BY RequestAssumption DEF RequestType

\* GetNodeHistory with creation keeps the histories well typed.
LEMMA CreatedNodesOK ==
    ASSUME NEW h, NodesOK(h), NEW n \in Nodes, NEW instance \in Nat
    PROVE  NodesOK(CreatedNodes(h, n, instance)) /\ n \in DOMAIN CreatedNodes(h, n, instance)
BY DEF NodesOK, CreatedNodes, \oplus

\* So does GetNodeHistory without creation, which only updates the instance.
LEMMA TouchedNodesOK ==
    ASSUME IInv, NEW n, NEW instance \in Nat
    PROVE  NodesOK(TouchedNodes(n, instance))
BY DEF IInv, NodesOK, TouchedNodes

\* So does ReceiveRequest, which records when a node was heard.
LEMMA MonitorNodesOK ==
    ASSUME IInv, NEW req \in Requests
    PROVE  NodesOK(MonitorNodes(req))
<1> DEFINE h == CreatedNodes(TouchedNodes(req.monitor, req.monitorInstance), req.monitor, req.monitorInstance)
<1>1. NodesOK(h) /\ req.monitor \in DOMAIN h
    BY RequestFields, TouchedNodesOK, CreatedNodesOK
<1> HIDE DEF h
<1>2. now \in Nat
    BY DEF IInv
<1>3. NodesOK([h EXCEPT ![req.monitor].lastReceived = now])
    BY <1>1, <1>2 DEF NodesOK
<1> QED  BY <1>3 DEF MonitorNodes, h

\* Looking up the requester keeps a state for every record.
LEMMA MonitorStateOK ==
    ASSUME IInv, NEW req
    PROVE  StatesOf(DOMAIN records, Alone(records), MonitorState(req))
BY InstanceStateStates DEF IInv, MonitorState

\* The two ends of the request req, in either order, are those of the record a.
Between(req, a) ==
    \/ /\ req.monitor = a.node /\ req.monitorInstance = a.monitorInstance
       /\ req.subject = a.subject /\ req.subjectInstance = a.subjectInstance
    \/ /\ req.monitor = a.subject /\ req.monitorInstance = a.subjectInstance
       /\ req.subject = a.node /\ req.subjectInstance = a.monitorInstance

\* The record GetRecord returns is a record of the table.
LEMMA FoundRecord ==
    ASSUME IInv, NEW req, Matching(records, state, req) # {}
    PROVE  /\ Latest(Matching(records, state, req)) \in RecordsOf(records, req.monitor)
           /\ Between(req, records[Latest(Matching(records, state, req))])
<1> DEFINE M == Matching(records, state, req)
<1>1. M \subseteq RecordsOf(records, req.monitor) /\ \A r \in M : Between(req, records[r])
    BY DEF Matching, OfSession, Searched, Between, RecordsOf
<1>2. RecordsOf(records, req.monitor) \subseteq 1..created /\ created \in Nat
    BY DEF IInv, RecordsOK, Typed, RecordsOf
<1> HIDE DEF M
<1>3. Latest(M) \in M
    BY <1>1, <1>2, LatestIsMember DEF M
<1> QED  BY <1>1, <1>3 DEF M

\* Whether GetRecord met an earlier lease is a truth value.
LEMMA FoundHistoryBoolean ==
    ASSUME IInv, NEW req
    PROVE  FoundHistory(records, state, req) \in BOOLEAN
<1>1. Matching(records, state, req) # {} =>
        records[Latest(Matching(records, state, req))].continuous \in BOOLEAN
    BY FoundRecord DEF IInv, RecordsOK, Typed, RecordType, RecordsOf
<1> QED  BY <1>1 DEF FoundHistory

\* What the rest of the request relies on, for the pair (m, s) in rs when k
\* records have been created.
PairReady(p, k, req) ==
    /\ RecordsOK(p.records, k, now, {p.m, p.s})
    /\ p.m \in DOMAIN p.records /\ p.s \in DOMAIN p.records /\ p.m # p.s
    /\ p.records[p.m].peer = p.s /\ p.records[p.s].peer = p.m
    /\ p.records[p.m].decision = None /\ p.records[p.s].decision = None =>
            p.records[p.s].processTime = now /\ p.records[p.m].processTime = now
    /\ StatesOf(DOMAIN p.records, Alone(p.records), p.state)
    /\ NodesOK(p.nodes)
    /\ DOMAIN records \subseteq DOMAIN p.records
    /\ \A r \in DOMAIN records : p.records[r] = records[r]
    /\ \A r \in DOMAIN p.records \ DOMAIN records : p.records[r].decision # Delay
    /\ p.m \in DOMAIN records => records[p.m].node = req.monitor
    /\ \A r \in DOMAIN p.records \ DOMAIN records : p.records[r].decision = None
    /\ Between(req, p.records[p.m]) /\ Between(req, p.records[p.s])

\* A pair that GetRecord found can be decided on.
LEMMA FoundPairReady ==
    ASSUME IInv, NEW req \in Requests, Matching(records, state, req) # {}, FoundPair(req).s # NoPeer
    PROVE  PairReady(FoundPair(req), created, req)
<1> DEFINE m == Latest(Matching(records, state, req))
           s == records[m].peer
           p == FoundPair(req)
<1>1. m \in DOMAIN records /\ records[m].node = req.monitor /\ Between(req, records[m])
    BY FoundRecord DEF RecordsOf
<1>2. p.m = m /\ p.s = s /\ p.records = records /\ p.state = MonitorState(req) /\ p.nodes = MonitorNodes(req)
    BY DEF FoundPair
<1> HIDE DEF m, p
<1>3. s # NoPeer
    BY <1>2 DEF p
<1>4. s \in DOMAIN records /\ m # s /\ records[s].peer = m
    BY <1>1, <1>3 DEF IInv, RecordsOK, Paired
<1>5. RecordsOK(records, created, now, {m, s})
    BY DEF IInv, RecordsOK, OneHasAsked
<1>6. ~(records[m].decision = None /\ records[s].decision = None)
    BY <1>1, <1>3 DEF IInv, RecordsOK, OneHasAsked, IsPresent
<1>7. Between(req, records[s])
    BY <1>1, <1>3 DEF IInv, RecordsOK, Paired, Mirrored, Between
<1> QED  BY <1>1, <1>2, <1>4, <1>5, <1>6, <1>7, MonitorStateOK, MonitorNodesOK DEF PairReady, p

\* The constructor of ArbitrationRecord makes a well typed record.
LEMMA NewRecordType ==
    ASSUME IInv, NEW n \in Nodes, NEW i \in Nat, NEW s \in Nodes, NEW j \in Nat,
           NEW l \in Nat, NEW l2 \in Nat, NEW peer \in Nat, NEW c \in BOOLEAN
    PROVE  NewRecord(n, i, s, j, l, l2, peer, c) \in RecordType
<1>1. MaxTime + 1 \in Int /\ now \in Int
    BY TimeAssumption DEF IInv
<1> QED  BY <1>1 DEF NewRecord, RecordType, Decisions

\* No record was created later than now.
LEMMA SinceInPast ==
    ASSUME IInv
    PROVE  \A r \in DOMAIN records : Since(records, r) <= now /\ Since(records, r) \in Int
<1> TAKE r \in DOMAIN records
<1>1. now \in Nat /\ \A q \in DOMAIN records : records[q].processTime \in Int /\ records[q].processTime <= now
    BY DEF IInv, RecordsOK, Typed, Past, RecordType
<1>2. records[r].peer # NoPeer => records[r].peer \in DOMAIN records
    BY DEF IInv, RecordsOK, Paired
<1> QED  BY <1>1, <1>2 DEF Since, Earliest

\* GetRecord walks the list of the requester's records and stops at the first that is
\* too old.  When it finds no pair for the request although there is one, a record at
\* least as new as that pair is older than the history that is needed, and so is the
\* pair.
LEMMA EarlierPairIsOld ==
    ASSUME IInv, NEW req \in Requests, Matching(records, state, req) = {},
           NEW r \in DOMAIN records, records[r].peer # NoPeer,
           NEW a, a.node = req.monitor, a.monitorInstance = req.monitorInstance,
           a.subject = req.subject, a.subjectInstance = req.subjectInstance,
           a.monitorLease = req.monitorLease, a.subjectLease = req.subjectLease,
           NEW b, Mirrored(a, b), OneLease(records[r], a) \/ OneLease(records[r], b)
    PROVE  Since(records, r) < now - SuspicionExpireInterval
<1>1. PICK x \in DOMAIN records : OneLease(records[x], a) /\ records[x].peer # NoPeer
                                  /\ Since(records, x) = Since(records, r)
    <2>1. CASE OneLease(records[r], a)
        BY <2>1
    <2>2. CASE OneLease(records[r], b)
        <3> DEFINE x == records[r].peer
        <3>1. /\ x \in DOMAIN records /\ records[x].peer = r /\ Mirrored(records[r], records[x])
              /\ r # NoPeer
            BY DEF IInv, RecordsOK, Paired, Typed, NoPeer
        <3>2. records[x].processTime \in Int /\ records[r].processTime \in Int
            BY <3>1 DEF IInv, RecordsOK, Typed, RecordType
        <3> HIDE DEF x
        <3>3. OneLease(records[x], a)
            BY <2>2, <3>1 DEF OneLease, Mirrored
        <3>4. Since(records, x) = Since(records, r)
            BY <3>1, <3>2, EarliestSwaps DEF Since, x
        <3> QED  BY <3>1, <3>3, <3>4
    <2> QED  BY <2>1, <2>2
<1>2. state[x] # "Implicit"
    BY <1>1 DEF IInv, StatesOf, Alone
<1>3. x \in RecordsOf(records, req.monitor)
    BY <1>1 DEF RecordsOf, OneLease
<1>4. x \notin Searched(records, req)
    BY <1>1, <1>2 DEF Matching, OfSession, OneLease, LeaseInstanceMatched
<1>5. PICK y \in RecordsOf(records, req.monitor) :
            y >= x /\ ~(records[y].processTime >= TimeBound(req) - SuspicionExpireInterval)
    BY <1>3, <1>4 DEF Searched
<1>6. y \in DOMAIN records /\ x \in Nat /\ y \in Nat
    BY <1>5 DEF RecordsOf, IInv, RecordsOK, Typed
<1>7. Since(records, x) <= Since(records, y)
    BY <1>5, <1>6 DEF IInv, RecordsOK, InTurn
<1>8. Since(records, y) <= records[y].processTime /\ records[y].processTime \in Int
    <2>1. /\ records[y].peer # NoPeer => records[y].peer \in DOMAIN records
          /\ \A q \in DOMAIN records : records[q].processTime \in Int
        BY <1>6 DEF IInv, RecordsOK, Paired, Typed, RecordType
    <2> QED  BY <1>6, <2>1 DEF Since, Earliest
<1>9. HistoryNeeded(req) \in Nat /\ SuspicionExpireInterval \in Nat /\ now \in Nat
    BY TimeAssumption, RequestAssumption DEF HistoryNeeded, RequestType, IInv
<1>10. Since(records, x) \in Int /\ Since(records, y) \in Int
    BY <1>6, SinceInPast
<1> DEFINE h == HistoryNeeded(req)
<1> HIDE DEF h
<1>11. ~(records[y].processTime >= now - h - SuspicionExpireInterval)
    BY <1>5 DEF TimeBound, h
<1>12. Since(records, x) < now - SuspicionExpireInterval
    BY <1>7, <1>8, <1>9, <1>10, <1>11 DEF h
<1> QED  BY <1>1, <1>12

\* So can the pair that a first request creates.
LEMMA NewPairReady ==
    ASSUME IInv, NEW req \in Requests, Matching(records, state, req) = {}
    PROVE  PairReady(NewPair(req), created + 2, req)
<1> DEFINE m == created + 1
           s == created + 2
           c == FoundHistory(records, state, req)
           h == MonitorNodes(req)
           h1 == IF req.subject \in DOMAIN h /\ req.subjectInstance > h[req.subject].instance
                 THEN [h EXCEPT ![req.subject].instance = req.subjectInstance] ELSE h
           st == InstanceState(h, records, MonitorState(req), req.subject, req.subjectInstance)
           rm == NewRecord(req.monitor, req.monitorInstance, req.subject, req.subjectInstance,
                           req.monitorLease, req.subjectLease, s, FALSE)
           rsub == NewRecord(req.subject, req.subjectInstance, req.monitor, req.monitorInstance,
                             req.subjectLease, req.monitorLease, m, c)
           rs == [q \in {m} |-> rm] \oplus [q \in {s} |-> rsub] \oplus records
           p == NewPair(req)
<1>1. /\ p.m = m /\ p.s = s /\ p.records = rs
      /\ p.state = [r \in {m, s} |-> "None"] \oplus st
      /\ p.nodes = CreatedNodes(h1, req.subject, req.subjectInstance)
    BY DEF NewPair
<1>2. created \in Nat /\ now \in Nat /\ m \in Nat /\ s \in Nat
    BY DEF IInv
<1>3. rm \in RecordType /\ rsub \in RecordType
    BY <1>2, RequestFields, FoundHistoryBoolean, NewRecordType
<1>4. /\ rm.node = req.monitor /\ rm.subject = req.subject /\ rm.peer = s /\ rm.decision = None
      /\ rsub.node = req.subject /\ rsub.subject = req.monitor /\ rsub.peer = m /\ rsub.decision = None
      /\ rm.processTime = now /\ rsub.processTime = now
      /\ rm.monitorInstance = req.monitorInstance /\ rm.subjectInstance = req.subjectInstance
      /\ rm.monitorLease = req.monitorLease /\ rm.subjectLease = req.subjectLease
      /\ Mirrored(rm, rsub) /\ Mirrored(rsub, rm)
      /\ Between(req, rm) /\ Between(req, rsub)
    BY DEF NewRecord, Mirrored, Between
<1>5. \A r \in DOMAIN records : r \in Nat /\ r >= 1 /\ r <= created
    BY <1>2 DEF IInv, RecordsOK, Typed
<1> HIDE DEF rm, rsub, p, c, h, h1, st
<1>6. /\ DOMAIN rs = DOMAIN records \cup {m, s} /\ rs[m] = rm /\ rs[s] = rsub
      /\ \A r \in DOMAIN records : rs[r] = records[r]
      /\ m # s /\ m \notin DOMAIN records /\ s \notin DOMAIN records
    BY <1>2, <1>5 DEF \oplus
<1> HIDE DEF rs
<1>7. Typed(rs, created + 2)
    BY <1>2, <1>3, <1>5, <1>6 DEF IInv, RecordsOK, Typed
<1>8. Paired(rs)
    BY <1>2, <1>4, <1>5, <1>6 DEF IInv, RecordsOK, Paired, NoPeer
<1>9. Separate(rs)
    BY <1>2, <1>4, <1>5, <1>6 DEF IInv, RecordsOK, Paired, Separate, Opposed, None, Grant, Delay
<1>10. OneHasAsked(rs, {m, s})
    BY <1>2, <1>4, <1>5, <1>6 DEF IInv, RecordsOK, Paired, OneHasAsked
<1>11. DelayedAskedFirst(rs) /\ rm.decision # Delay /\ rsub.decision # Delay
    BY <1>2, <1>4, <1>5, <1>6 DEF IInv, RecordsOK, Paired, DelayedAskedFirst, None, Delay
<1>12. Past(rs, now)
    BY <1>2, <1>4, <1>5, <1>6 DEF IInv, RecordsOK, Past
<1>17. AskedLater(rs)
    BY <1>2, <1>4, <1>5, <1>6 DEF IInv, RecordsOK, Paired, AskedLater
<1>18. /\ \A r \in DOMAIN records : Since(rs, r) = Since(records, r)
       /\ Since(rs, m) = now /\ Since(rs, s) = now
    BY <1>2, <1>4, <1>5, <1>6 DEF IInv, RecordsOK, Paired, Since, Earliest, NoPeer
<1>19. \A r \in DOMAIN records : Since(records, r) <= now /\ Since(records, r) \in Int
    BY SinceInPast
<1>20. InTurn(rs)
    BY <1>2, <1>5, <1>6, <1>18, <1>19 DEF IInv, RecordsOK, InTurn
<1>21. PairsApart(rs)
    <2> SUFFICES ASSUME NEW r \in DOMAIN rs, NEW q \in DOMAIN rs, OneLease(rs[r], rs[q]), r < q,
                        rs[r].peer # NoPeer, rs[q].peer # NoPeer
                 PROVE  Since(rs, r) < Since(rs, q) - SuspicionExpireInterval
        BY DEF PairsApart
    <2>1. CASE q \in DOMAIN records
        <3>1. r \in DOMAIN records
            BY <2>1, <1>2, <1>5, <1>6
        <3> QED  BY <2>1, <3>1, <1>6, <1>18 DEF IInv, RecordsOK, PairsApart
    <2>2. CASE r \in DOMAIN records /\ q \in {m, s}
        <3>1. OneLease(records[r], rm) \/ OneLease(records[r], rsub)
            BY <2>2, <1>6
        <3>2. Since(records, r) < now - SuspicionExpireInterval
            BY <2>2, <3>1, <1>4, <1>6, EarlierPairIsOld
        <3> QED  BY <2>2, <3>2, <1>18
    <2>3. CASE r = m /\ q = s
        <3>1. req.monitor = req.subject
            BY <2>3, <1>4, <1>6 DEF OneLease
        <3> QED  BY <3>1, RequestAssumption
    <2> QED  BY <2>1, <2>2, <2>3, <1>2, <1>6
<1>13. NodesOK(h1)
    BY MonitorNodesOK, RequestFields DEF NodesOK, h1, h
<1>14. NodesOK(p.nodes)
    BY <1>1, <1>13, RequestFields, CreatedNodesOK
<1>15. StatesOf(DOMAIN records, Alone(records), st)
    BY MonitorStateOK, InstanceStateStates DEF st
<1>22. Alone(records) \subseteq Alone(rs)
    BY <1>6 DEF Alone
<1>16. StatesOf(DOMAIN rs, Alone(rs), p.state)
    BY <1>1, <1>6, <1>15, <1>22 DEF StatesOf, \oplus, RecordStates
<1>23. RecordsOK(rs, created + 2, now, {m, s})
    BY <1>7, <1>8, <1>9, <1>10, <1>11, <1>12, <1>17, <1>20, <1>21 DEF RecordsOK
<1> QED  BY <1>1, <1>4, <1>6, <1>11, <1>14, <1>16, <1>23 DEF PairReady, p

-----------------------------------------------------------------------------
(***************************************************************************)
(* Each operation preserves the invariant.                                 *)
(***************************************************************************)

\* No grant held by a node other than n is withdrawn.
GrantsHeldBut(n) ==
    \A r \in DOMAIN records \cap DOMAIN records' :
        records[r].decision = Grant /\ records[r].node # n => records'[r].decision = Grant

\* The step tells the node of the record r its decision.
Told(r) ==
    \E x \in sent' : /\ x.kind = "delayed" /\ x.to = records[r].node
                     /\ x.granted <=> records'[r].decision = Grant
                     /\ x.rejected <=> records'[r].decision = Reject

\* So is every node other than those of N whose decision the step changes.
ToldBut(N) ==
    \A r \in DOMAIN records \cap DOMAIN records' :
        /\ IsPresent(records[r].decision) /\ records'[r].decision # records[r].decision
        /\ records[r].monitorLease > 0
        => Told(r) \/ records[r].node \in N

\* Some request asks for a simple arbitration between the two ends of the record a.
Simple(a) == \E req \in Requests : req.type = TwoWaySimple /\ Between(req, a)

\* The sides of simple leases are never left neutral or waiting.
SimpleFirm ==
    \A r \in DOMAIN records :
        records[r].peer # NoPeer /\ Simple(records[r]) => records[r].decision \in Firm

\* A request between the ends of a simple lease is none of the other kinds.
LEMMA SimpleStaysSimple ==
    ASSUME OneVersion, NEW a, Simple(a), NEW req \in Requests, Between(req, a)
    PROVE  req.type \notin {TwoWayExtended, OneWay, RevertToNeutral}
<1>1. PICK other \in Requests : other.type = TwoWaySimple /\ Between(other, a)
    BY DEF Simple
<1> QED  BY <1>1 DEF Between, OneVersion

\* The ends of a record do not change.
LEMMA SameEnds == ASSUME NEW a, NEW b, SameSide(a, b) PROVE Simple(a) <=> Simple(b)
BY DEF SameSide, Simple, Between

\* Only the pair (m, s) of the records rs gets other decisions, d and e.
OnlyPair(rs, m, s, d, e) ==
    /\ DOMAIN records' = DOMAIN rs
    /\ \A q \in DOMAIN rs \ {m, s} : records'[q] = rs[q]
    /\ SameSide(rs[m], records'[m]) /\ SameSide(rs[s], records'[s])
    /\ records'[m].decision = d /\ records'[s].decision = e

\* A request for a decision decides on the pair that it finds or creates.
Decides(req) ==
    LET p == IF Matching(records, state, req) = {} THEN NewPair(req) ELSE FoundPair(req)
    IN  /\ req.type \in TwoWayTypes \cup {OneWay}
        /\ p.s # NoPeer
        /\ \E d, e \in Decisions :
                /\ OnlyPair(p.records, p.m, p.s, d, e)
                /\ PairAllowed(req.type, p.records[p.m].decision, p.records[p.s].decision, d, e)

\* A revert changes nothing or the pair that it finds, in which it holds a grant.
Reverts(req) ==
    LET p == FoundPair(req)
        given == records[p.s].decision
    IN  \/ records' = records
        \/ /\ Matching(records, state, req) # {} /\ p.s # NoPeer
           /\ req.type \in RevertTypes
           /\ records[p.m].decision = Grant
           /\ OnlyPair(records, p.m, p.s, RevertedMonitor(req.type),
                       IF IsPresent(given) THEN RevertedSubject(req.type) ELSE given)

\* Other requests change no record; what they add has no peer.
Untouched ==
    /\ DOMAIN records \subseteq DOMAIN records'
    /\ \A r \in DOMAIN records : records'[r] = records[r]
    /\ \A r \in DOMAIN records' \ DOMAIN records : records'[r].peer = NoPeer

\* Compaction drops the records R, whole pairs from the tails of the lists, and the
\* delays that are over end with a grant.
Compacts ==
    \E R \in SUBSET DOMAIN records :
        /\ DOMAIN records' = DOMAIN records \ R
        /\ \A r \in R : PairOf(r) \subseteq R /\ \E q \in PairOf(r) : Older(q) \subseteq R
        /\ \A r \in DOMAIN records \ R :
                /\ SameSide(records[r], records'[r])
                /\ \/ records'[r].decision = records[r].decision
                   \/ records[r].decision = Delay /\ records'[r].decision = Grant

\* What every step does for these two.
StepKeeps(N) == IInv' /\ ToldBut(N) /\ (OneVersion /\ SimpleFirm => SimpleFirm')

\* A request for a decision keeps the invariant, and takes no grant from
\* another node.
LEMMA ArbitrateStep ==
    ASSUME IInv, NEW req \in Requests, Arbitrate(req)
    PROVE  StepKeeps({req.monitor}) /\ GrantsHeldBut(req.monitor) /\ Decides(req)
<1> DEFINE found == Matching(records, state, req)
           continuous == FoundHistory(records, state, req)
           k == IF found = {} THEN created + 2 ELSE created
<1>0. created \in Nat /\ now \in Nat /\ historyStart \in Nat /\ lastCompact \in Nat /\ k \in Nat
    BY DEF IInv
<1> DEFINE p == IF found = {} THEN NewPair(req) ELSE FoundPair(req)
<1> DEFINE m == p.m
           s == p.s
           rs == p.records
           asked == Requested(rs, m, req)
           st == AskedState(p, asked, req)
           o == Outcome(p.nodes, asked, st, req, m, s, continuous)
           decided == Decided(asked, m, s, o, continuous)
<1>2. /\ records' = decided
      /\ state' = o.state
      /\ nodes' = p.nodes
      /\ created' = k
      /\ delayed' = IF o.decision = Delay /\ ~IsPresent(asked[m].decision)
                    THEN delayed \cup {m} ELSE delayed
      /\ o.subject # asked[s].decision => DelayedReply(decided[s], Neutral, TRUE) \in sent'
      /\ req.type \in TwoWayTypes \cup {OneWay}
      /\ UNCHANGED <<now, historyStart, lastCompact>>
      /\ p.s # NoPeer
    <2>1. \E f \in {found}, c \in {continuous} :
            \E q \in {IF f = {} THEN NewPair(req) ELSE FoundPair(req)} :
                /\ q.s # NoPeer
                /\ f = {} => created + 2 <= MaxRecords
                /\ \E a \in {Requested(q.records, q.m, req)} :
                   \E x \in {AskedState(q, a, req)} :
                   \E y \in {Outcome(q.nodes, a, x, req, q.m, q.s, c)} :
                       Answered(req, q, a, y, c, f)
        BY DEF Arbitrate
    <2>2. /\ p.s # NoPeer
          /\ \E a \in {Requested(p.records, p.m, req)} :
             \E x \in {AskedState(p, a, req)} :
             \E y \in {Outcome(p.nodes, a, x, req, p.m, p.s, continuous)} :
                Answered(req, p, a, y, continuous, found)
        <3> HIDE DEF found, continuous
        <3> QED  BY <2>1
    <2>4. Answered(req, p, asked, o, continuous, found)
        <3> HIDE DEF found, continuous, p
        <3> QED  BY <2>2
    <2> HIDE DEF p, asked, o, continuous, found
    <2>5. req.type \in TwoWayTypes \cup {OneWay}
        BY DEF Arbitrate
    <2> QED  BY <2>2, <2>4, <2>5 DEF Answered, m, s, decided, k
<1>3. PairReady(p, k, req)
    BY <1>2, NewPairReady, FoundPairReady
<1> HIDE DEF k
<1>4. continuous \in BOOLEAN
    BY FoundHistoryBoolean
<1>5. /\ RecordsOK(rs, k, now, {m, s}) /\ m \in DOMAIN rs /\ s \in DOMAIN rs /\ m # s
      /\ rs[m].peer = s /\ rs[s].peer = m
      /\ rs[m].decision = None /\ rs[s].decision = None => rs[s].processTime = now /\ rs[m].processTime = now
      /\ StatesOf(DOMAIN rs, Alone(rs), p.state)
    BY <1>3 DEF PairReady
<1>6. rs[m] \in RecordType /\ rs[s] \in RecordType
    BY <1>5 DEF RecordsOK, Typed
<1> HIDE DEF m, s, rs, continuous
<1>7. /\ DOMAIN asked = DOMAIN rs
      /\ \A q \in DOMAIN rs \ {m} : asked[q] = rs[q]
      /\ asked[m] \in RecordType
      /\ asked[m].decision = rs[m].decision
      /\ SameSide(rs[m], asked[m])
      /\ IF IsPresent(rs[m].decision) THEN asked[m] = rs[m] ELSE asked[m].processTime = now
    <2>1. CASE IsPresent(rs[m].decision)
        BY <2>1, <1>5, <1>6 DEF Requested, SameSide
    <2>2. CASE ~IsPresent(rs[m].decision)
        <3>1. /\ DOMAIN asked = DOMAIN rs /\ \A q \in DOMAIN rs \ {m} : asked[q] = rs[q]
              /\ asked[m] = [rs[m] EXCEPT !.processTime = now, !.expireTime = now + req.subjectTTL]
            BY <2>2, <1>5 DEF Requested
        <3>2. now \in Int /\ now + req.subjectTTL \in Int
            BY <1>0, RequestFields
        <3> HIDE DEF asked
        <3>3. /\ asked[m] \in RecordType /\ asked[m].processTime = now
              /\ asked[m].decision = rs[m].decision
              /\ SameSide(rs[m], asked[m])
            <4> DEFINE r == rs[m]
            <4>1. r \in RecordType
                BY <1>6
            <4>2. asked[m] = [r EXCEPT !.processTime = now, !.expireTime = now + req.subjectTTL]
                BY <3>1
            <4> HIDE DEF r
            <4>3. /\ asked[m] \in RecordType /\ asked[m].processTime = now
                  /\ asked[m].decision = r.decision /\ SameSide(r, asked[m])
                BY <4>1, <4>2, <3>2 DEF RecordType, SameSide
            <4> QED  BY <4>3 DEF r
        <3> QED  BY <2>2, <3>1, <3>3, <1>5
    <2> QED  BY <2>1, <2>2
<1> HIDE DEF asked
<1>a. asked[m].peer = s
    BY <1>5, <1>7 DEF SameSide
<1>8. StatesOf(DOMAIN asked, Alone(rs), st)
    BY <1>5, <1>7, <1>a, RequestStateStates DEF AskedState, rs, m
<1> HIDE DEF st
<1>9. s # NoPeer /\ m # NoPeer
    BY <1>5 DEF RecordsOK, Typed, NoPeer
<1>10. Opposed(rs[m].decision, rs[s].decision) /\ Opposed(rs[s].decision, rs[m].decision)
    BY <1>5, <1>9 DEF RecordsOK, Separate
<1>11. /\ o.decision \in Decisions \ {None}
       /\ o.subject \in Decisions
       /\ o.strong \in BOOLEAN
       /\ Opposed(o.decision, o.subject) /\ Opposed(o.subject, o.decision)
       /\ o.subject = rs[s].decision \/ (rs[s].decision = Delay /\ o.subject = Neutral)
       /\ o.decision = Delay =>
            rs[m].decision = Delay \/ (rs[m].decision = None /\ rs[s].decision = None)
       /\ req.type = TwoWaySimple /\ rs[m].decision \in Firm /\ rs[s].decision \in Firm =>
            o.decision \in Firm /\ o.subject \in Firm
       /\ StatesOf(DOMAIN asked, Alone(rs), o.state)
       /\ PairAllowed(req.type, rs[m].decision, rs[s].decision, o.decision, o.subject)
    <2>1. asked[s] = rs[s] /\ asked[s] \in RecordType /\ m \in DOMAIN asked /\ s \in DOMAIN asked
        BY <1>5, <1>6, <1>7
    <2> QED  BY <2>1, <1>5, <1>7, <1>8, <1>10, <1>a, OutcomeShape
<1> HIDE DEF o
<1>12. /\ DOMAIN decided = DOMAIN rs
       /\ \A q \in DOMAIN rs \ {m, s} : decided[q] = rs[q]
       /\ decided[m] = [asked[m] EXCEPT !.decision = o.decision, !.strong = @ \/ o.strong,
                                        !.continuous = @ \/ continuous,
                                        !.delayed = @ \/ o.decision = Delay]
       /\ decided[s] = [rs[s] EXCEPT !.decision = o.subject,
                                     !.delayed = @ /\ o.subject = rs[s].decision]
    BY <1>5, <1>7 DEF Decided
<1> HIDE DEF decided
<1>13. decided[m] \in RecordType
    <2>1. \A x, y : (x \/ y) \in BOOLEAN
        OBVIOUS
    <2> QED  BY <2>1, <1>7, <1>11, <1>12 DEF RecordType
<1>14. decided[s] \in RecordType
    <2>1. \A x, y : (x /\ y) \in BOOLEAN
        OBVIOUS
    <2> QED  BY <2>1, <1>6, <1>11, <1>12 DEF RecordType
<1>15. /\ decided[m].decision = o.decision /\ SameSide(rs[m], decided[m])
       /\ decided[m].processTime = asked[m].processTime
       /\ decided[s].decision = o.subject /\ SameSide(rs[s], decided[s])
       /\ decided[s].processTime = rs[s].processTime
    BY <1>5, <1>6, <1>7, <1>12 DEF RecordType, SameSide
<1>16. /\ rs[m].processTime <= now /\ rs[s].processTime <= now /\ asked[m].processTime <= now
       /\ rs[m].processTime \in Int /\ rs[s].processTime \in Int
    BY <1>0, <1>5, <1>6, <1>7 DEF RecordsOK, Past, RecordType
<1>17. o.decision = Delay => rs[s].processTime >= asked[m].processTime
    <2>1. CASE rs[m].decision = Delay
        <3>1. asked[m] = rs[m]
            BY <2>1, <1>7 DEF IsPresent, Delay, None
        <3> QED  BY <2>1, <3>1, <1>5, <1>9 DEF RecordsOK, DelayedAskedFirst
    <2>2. CASE rs[m].decision = None /\ rs[s].decision = None
        BY <2>2, <1>0, <1>5, <1>7 DEF IsPresent
    <2> QED  BY <2>1, <2>2, <1>11
<1>18. o.subject = Delay => asked[m].processTime >= rs[s].processTime
    <2> HAVE o.subject = Delay
    <2>1. rs[s].decision = Delay
        BY <1>11 DEF Delay, Neutral
    <2>2. rs[m].processTime >= rs[s].processTime
        BY <2>1, <1>5, <1>9 DEF RecordsOK, DelayedAskedFirst
    <2> QED  BY <2>2, <1>0, <1>7, <1>16
<1>19. RecordsOK(decided, k, now, {})
    <2>1. IsPresent(decided[m].decision)
        BY <1>11, <1>15 DEF IsPresent
    <2>2. \A q \in {m, s} : decided[q] \in RecordType /\ SameSide(rs[q], decided[q]) /\ decided[q].processTime <= now
        BY <1>5, <1>13, <1>14, <1>15, <1>16
    <2>5. /\ ~IsPresent(rs[s].decision) => rs[m].processTime <= rs[s].processTime
          /\ ~IsPresent(rs[m].decision) => rs[s].processTime <= rs[m].processTime
        BY <1>5, <1>9 DEF RecordsOK, AskedLater
    <2>6. Earliest(asked[m].processTime, rs[s].processTime) = Earliest(rs[m].processTime, rs[s].processTime)
        BY <2>5, <1>0, <1>5, <1>7, <1>16 DEF Earliest, IsPresent
    <2>7. IsPresent(decided[s].decision) \/ decided[m].processTime <= decided[s].processTime
        <3> SUFFICES ASSUME ~IsPresent(decided[s].decision)
                     PROVE  asked[m].processTime <= rs[s].processTime
            BY <1>15
        <3>1. rs[s].decision = None
            BY <1>11, <1>15 DEF IsPresent, Neutral, None
        <3> QED  BY <3>1, <2>5, <1>0, <1>5, <1>7, <1>16 DEF IsPresent
    <2>3. /\ Opposed(decided[m].decision, decided[s].decision)
          /\ Opposed(decided[s].decision, decided[m].decision)
          /\ decided[m].decision = Delay => decided[s].processTime >= decided[m].processTime
          /\ decided[s].decision = Delay => decided[m].processTime >= decided[s].processTime
        BY <1>11, <1>15, <1>17, <1>18
    <2>4. PairChange(rs, decided, m, s, now)
        BY <2>1, <2>2, <2>3, <2>6, <2>7, <1>5, <1>12, <1>15 DEF PairChange
    <2> QED  BY <2>4, <1>0, <1>5, ChangedPair
<1>20. DelayedTracked'
    <2>1. /\ DOMAIN records \subseteq DOMAIN rs
          /\ \A r \in DOMAIN records : rs[r] = records[r]
          /\ \A r \in DOMAIN rs \ DOMAIN records : rs[r].decision # Delay
        BY <1>3 DEF PairReady, rs
    <2>2. /\ delayed \subseteq DOMAIN records
          /\ \A r \in DOMAIN records : records[r].decision = Delay => r \in delayed
        BY DEF IInv, DelayedTracked
    <2>3. delayed' \subseteq DOMAIN decided
        BY <2>1, <2>2, <1>2, <1>5, <1>12
    <2>4. ASSUME NEW r \in DOMAIN decided, decided[r].decision = Delay PROVE r \in delayed'
        <3>1. CASE r = m
            <4>1. CASE rs[m].decision = Delay
                BY <4>1, <3>1, <2>1, <2>2, <1>2, <1>5
            <4>2. CASE rs[m].decision = None
                BY <4>2, <3>1, <2>4, <1>2, <1>7, <1>15 DEF IsPresent
            <4> QED  BY <4>1, <4>2, <3>1, <2>4, <1>11, <1>15
        <3>2. CASE r = s
            <4>1. rs[s].decision = Delay
                BY <3>2, <2>4, <1>11, <1>15 DEF Delay, Neutral
            <4> QED  BY <4>1, <3>2, <2>1, <2>2, <1>2, <1>5
        <3>3. CASE r \notin {m, s}
            BY <3>3, <2>4, <2>1, <2>2, <1>2, <1>12
        <3> QED  BY <3>1, <3>2, <3>3
    <2> QED  BY <2>3, <2>4, <1>2 DEF DelayedTracked
<1>21. NodesOK(nodes)'
    BY <1>2, <1>3 DEF PairReady, NodesOK
<1>22. StatesOf(DOMAIN records, Alone(records), state)'
    <2>1. Alone(decided) = Alone(rs)
        <3>1. \A q \in DOMAIN rs : decided[q].peer = rs[q].peer
            BY <1>12, <1>15 DEF SameSide
        <3> QED  BY <3>1, <1>12 DEF Alone
    <2> QED  BY <2>1, <1>2, <1>7, <1>11, <1>12 DEF StatesOf
<1>23. RecordsOK(records', created', now', {})
    BY <1>2, <1>19
<1>24. GrantsHeldBut(req.monitor)
    <2>1. /\ \A r \in DOMAIN records : r \in DOMAIN rs /\ rs[r] = records[r]
          /\ m \in DOMAIN records => records[m].node = req.monitor
        BY <1>3 DEF PairReady, rs, m
    <2>2. rs[s].decision = Grant => decided[s].decision = Grant
        BY <1>11, <1>15 DEF Grant, Delay
    <2> QED  BY <2>1, <2>2, <1>2, <1>12 DEF GrantsHeldBut
<1>25. ToldBut({req.monitor})
    <2>1. /\ \A r \in DOMAIN records : r \in DOMAIN rs /\ rs[r] = records[r]
          /\ m \in DOMAIN records => records[m].node = req.monitor
        BY <1>3 DEF PairReady, rs, m
    <2>2. ASSUME s \in DOMAIN records, decided[s].decision # records[s].decision PROVE Told(s)
        <3> DEFINE x == DelayedReply(decided[s], Neutral, TRUE)
        <3>1. o.subject = Neutral /\ o.subject # asked[s].decision
            BY <2>1, <2>2, <1>5, <1>7, <1>11, <1>15
        <3>2. decided[s].node = records[s].node
            BY <2>1, <2>2, <1>15 DEF SameSide
        <3>3. x \in sent'
            BY <1>2, <3>1
        <3>4. /\ x.kind = "delayed" /\ x.to = records[s].node
              /\ x.granted = FALSE /\ x.rejected = FALSE
            BY <3>2 DEF DelayedReply, Neutral, Grant, Reject
        <3>5. records'[s].decision = Neutral
            BY <1>2, <1>15, <3>1
        <3> HIDE DEF x
        <3> QED  BY <3>3, <3>4, <3>5 DEF Told, Neutral, Grant, Reject
    <2>3. \A r \in DOMAIN records \ {m, s} : records'[r] = records[r]
        BY <2>1, <1>2, <1>12
    <2> QED  BY <2>1, <2>2, <2>3, <1>2 DEF ToldBut
<1>26. ASSUME OneVersion, SimpleFirm PROVE SimpleFirm'
    <2>1. /\ \A r \in DOMAIN records : r \in DOMAIN rs /\ rs[r] = records[r]
          /\ \A r \in DOMAIN rs \ DOMAIN records : rs[r].decision = None
          /\ Between(req, rs[m]) /\ Between(req, rs[s])
        BY <1>3 DEF PairReady, rs, m, s
    <2>2. \A r \in DOMAIN rs : rs[r].peer # NoPeer /\ Simple(rs[r]) => rs[r].decision \in Firm
        BY <1>26, <2>1 DEF SimpleFirm, Firm
    <2>3. ASSUME NEW r \in {m, s}, Simple(decided[r]) PROVE decided[r].decision \in Firm
        <3>1. Simple(rs[r])
            BY <2>3, <1>15, SameEnds
        <3>2. Simple(rs[m]) /\ Simple(rs[s])
            <4>1. Mirrored(rs[m], rs[s])
                BY <1>5, <1>9 DEF RecordsOK, Paired
            <4> QED  BY <3>1, <2>3, <4>1 DEF Simple, Between, Mirrored
        <3>3. req.type = TwoWaySimple
            BY <3>2, <2>1, <1>2, <1>26, SimpleStaysSimple DEF TwoWayTypes
        <3>4. rs[m].decision \in Firm /\ rs[s].decision \in Firm
            BY <3>2, <2>2, <1>5, <1>9
        <3> QED  BY <3>3, <3>4, <1>11, <1>15
    <2>4. \A r \in DOMAIN decided \ {m, s} : decided[r] = rs[r]
        BY <1>12
    <2> QED  BY <2>2, <2>3, <2>4, <1>2, <1>12 DEF SimpleFirm
<1>27. IInv'
    BY <1>0, <1>2, <1>20, <1>21, <1>22, <1>23 DEF IInv
<1>28. Decides(req)
    <2>1. OnlyPair(rs, m, s, o.decision, o.subject)
        BY <1>2, <1>12, <1>15 DEF OnlyPair
    <2>2. p = IF Matching(records, state, req) = {} THEN NewPair(req) ELSE FoundPair(req)
        OBVIOUS
    <2>3. o.decision \in Decisions /\ o.subject \in Decisions
        BY <1>11
    <2> HIDE DEF p
    <2>4. /\ OnlyPair(p.records, p.m, p.s, o.decision, o.subject)
          /\ PairAllowed(req.type, p.records[p.m].decision, p.records[p.s].decision, o.decision, o.subject)
        BY <1>11, <2>1 DEF rs, m, s
    <2>5. req.type \in TwoWayTypes \cup {OneWay} /\ p.s # NoPeer
        BY <1>2
    <2> QED  BY <2>2, <2>3, <2>4, <2>5 DEF Decides
<1> QED  BY <1>24, <1>25, <1>26, <1>27, <1>28 DEF StepKeeps

\* A revert leaves the pair with decisions that may stand together.
LEMMA RevertStep ==
    ASSUME IInv, NEW req \in Requests, Revert(req)
    PROVE  StepKeeps({req.monitor}) /\ GrantsHeldBut(req.monitor) /\ Reverts(req)
<1> DEFINE found == Matching(records, state, req)
           m == Latest(found)
           s == records[m].peer
           st == MonitorState(req)
           present == IsPresent(records[s].decision)
           dm == RevertedMonitor(req.type)
           ds == RevertedSubject(req.type)
           own == [records EXCEPT ![m].decision = dm]
           st1 == DecisionState(records, st, m, dm)
           new == [own EXCEPT ![s].decision = IF present THEN ds ELSE @]
<1>0. created \in Nat /\ now \in Nat /\ historyStart \in Nat /\ lastCompact \in Nat
    BY DEF IInv
<1>1. /\ nodes' = MonitorNodes(req)
      /\ UNCHANGED <<now, historyStart, lastCompact, delayed, created>>
    BY DEF Revert
<1>2. NodesOK(nodes')
    BY <1>1, MonitorNodesOK
<1>3. StatesOf(DOMAIN records, Alone(records), st)
    BY MonitorStateOK
<1>4. CASE ~(found # {} /\ records[m].decision = Grant)
    <2>1. records' = records /\ state' = st
        BY <1>4 DEF Revert
    <2>2. RecordsOK(records', created', now', {}) /\ StatesOf(DOMAIN records', Alone(records'), state')
        BY <2>1, <1>1, <1>3 DEF IInv
    <2> QED  BY <2>1, <2>2, <1>1, <1>2
             DEF IInv, DelayedTracked, GrantsHeldBut, StepKeeps, ToldBut, SimpleFirm, Reverts
<1>5. CASE found # {} /\ records[m].decision = Grant
    <2>1. /\ s # NoPeer
          /\ records' = new
          /\ present /\ records[s].monitorLease > 0 => DelayedReply(records[s], ds, TRUE) \in sent'
          /\ req.type \in RevertTypes
          /\ \/ state' = DecisionState(own, st1, s, ds)
             \/ state' = UpdateState(own, st1, s, "Reported")
             \/ state' = st1
        BY <1>5 DEF Revert
    <2>2. m \in DOMAIN records /\ records[m].node = req.monitor /\ Between(req, records[m])
        BY <1>5, FoundRecord DEF RecordsOf
    <2>p. FoundPair(req).m = m /\ FoundPair(req).s = s /\ Matching(records, state, req) # {}
        BY <1>5 DEF FoundPair
    <2> HIDE DEF found, m, st
    <2>3. s \in DOMAIN records /\ m # s /\ records[s].peer = m
        BY <2>1, <2>2 DEF IInv, RecordsOK, Paired
    <2>4. records[m] \in RecordType /\ records[s] \in RecordType
        BY <2>2, <2>3 DEF IInv, RecordsOK, Typed
    <2>5. records[s].decision \in {None, Reject}
        BY <1>5, <2>1, <2>2 DEF IInv, RecordsOK, Separate, Opposed
    <2>6. \/ dm = Neutral /\ ds = Neutral
          \/ dm = Reject /\ ds = Grant
        BY DEF RevertedMonitor, RevertedSubject
    <2>6a. req.type # RevertToNeutral => dm = Reject /\ ds = Grant
        BY DEF RevertedMonitor, RevertedSubject
    <2> HIDE DEF dm, ds
    <2> DEFINE dsub == IF present THEN ds ELSE records[s].decision
    <2>7. /\ DOMAIN new = DOMAIN records
          /\ \A q \in DOMAIN records \ {m, s} : new[q] = records[q]
          /\ new[m] = [records[m] EXCEPT !.decision = dm]
          /\ new[s] = [records[s] EXCEPT !.decision = dsub]
        BY <2>2, <2>3
    <2>8. dm \in Decisions \ {None, Delay, Grant} /\ dsub \in Decisions \ {Delay}
        BY <2>5, <2>6 DEF Decisions, None, Neutral, Reject, Grant, Delay
    <2>9. Opposed(dm, dsub) /\ Opposed(dsub, dm)
        BY <2>5, <2>6 DEF Opposed, IsPresent, None, Neutral, Reject, Grant, Delay
    <2>10. DOMAIN own = DOMAIN records /\ own[s].peer = m
        BY <2>2, <2>3
    <2> HIDE DEF new, dsub, own
    <2>11. /\ new[m] \in RecordType /\ new[m].decision = dm /\ SameSide(records[m], new[m])
           /\ new[m].processTime = records[m].processTime
        BY <2>4, <2>7, <2>8 DEF RecordType, SameSide
    <2>12. /\ new[s] \in RecordType /\ new[s].decision = dsub /\ SameSide(records[s], new[s])
           /\ new[s].processTime = records[s].processTime
        BY <2>4, <2>7, <2>8 DEF RecordType, SameSide
    <2>13. PairChange(records, new, m, s, now)
        <3>1. records[m].processTime <= now /\ records[s].processTime <= now
            BY <2>2, <2>3 DEF IInv, RecordsOK, Past
        <3>2. IsPresent(dm) /\ dm # Delay /\ dsub # Delay
            BY <2>8 DEF IsPresent
        <3>3. IsPresent(dsub) \/ records[m].processTime <= records[s].processTime
            <4>1. m # NoPeer
                BY <2>2 DEF IInv, RecordsOK, Typed, NoPeer
            <4>2. ~IsPresent(records[s].decision) => records[m].processTime <= records[s].processTime
                BY <4>1, <2>3 DEF IInv, RecordsOK, AskedLater
            <4> QED  BY <4>2, <2>6 DEF dsub, IsPresent, None, Neutral, Grant
        <3> QED  BY <3>1, <3>2, <3>3, <2>2, <2>3, <2>7, <2>9, <2>11, <2>12 DEF PairChange
    <2>14. RecordsOK(records, created, now, {m, s})
        BY DEF IInv, RecordsOK, OneHasAsked
    <2>15. RecordsOK(new, created, now, {})
        BY <1>0, <2>13, <2>14, ChangedPair
    <2>16. StatesOf(DOMAIN records, Alone(records), st1)
        BY <1>3, <2>2, <2>3, DecisionStateStates
    <2>17. StatesOf(DOMAIN records, Alone(records), state')
        <3> HIDE DEF st1
        <3>1. own[s].peer \in DOMAIN records \cup {NoPeer} /\ "Reported" \in PairStates
            BY <2>2, <2>10 DEF RecordStates, PairStates
        <3> QED  BY <3>1, <2>1, <2>3, <2>16, DecisionStateStates, UpdateStateStates
    <2>18. DelayedTracked'
        BY <1>1, <2>1, <2>7, <2>8, <2>11, <2>12 DEF IInv, DelayedTracked
    <2>19. GrantsHeldBut(req.monitor)
        BY <2>1, <2>2, <2>5, <2>7 DEF GrantsHeldBut, None, Reject, Grant
    <2>20. Alone(records') = Alone(records)
        <3>1. \A q \in DOMAIN records : new[q].peer = records[q].peer
            BY <2>7, <2>11, <2>12 DEF SameSide
        <3> QED  BY <3>1, <2>1, <2>7 DEF Alone
    <2>21. StatesOf(DOMAIN records', Alone(records'), state') /\ RecordsOK(records', created', now', {})
        BY <1>1, <2>1, <2>7, <2>15, <2>17, <2>20
    <2>22. IInv'
        BY <1>0, <1>1, <1>2, <2>18, <2>21 DEF IInv
    <2>23. ToldBut({req.monitor})
        <3>1. ASSUME IsPresent(records[s].decision), records[s].monitorLease > 0 PROVE Told(s)
            <4> DEFINE x == DelayedReply(records[s], ds, TRUE)
            <4>1. x \in sent'
                BY <2>1, <3>1
            <4>2. /\ x.kind = "delayed" /\ x.to = records[s].node
                  /\ x.granted = (ds = Grant) /\ x.rejected = (ds = Reject)
                BY DEF DelayedReply
            <4>3. records'[s].decision = ds
                BY <2>1, <2>12, <3>1 DEF dsub
            <4> HIDE DEF x
            <4> QED  BY <4>1, <4>2, <4>3 DEF Told
        <3>2. \A r \in DOMAIN records \ {m, s} : records'[r] = records[r]
            BY <2>1, <2>7
        <3> QED  BY <3>1, <3>2, <2>2, <2>3 DEF ToldBut
    <2>24. ASSUME OneVersion, SimpleFirm PROVE SimpleFirm'
        <3>1. ASSUME NEW r \in {m, s}, Simple(new[r]) PROVE new[r].decision \in Firm
            <4>1. Simple(records[r])
                BY <3>1, <2>11, <2>12, SameEnds
            <4>2. Mirrored(records[m], records[s])
                BY <2>1, <2>2 DEF IInv, RecordsOK, Paired
            <4>3. Simple(records[m])
                BY <3>1, <4>1, <4>2 DEF Simple, Between, Mirrored
            <4>4. req.type # RevertToNeutral
                BY <4>3, <2>2, <2>24, SimpleStaysSimple
            <4>5. dm = Reject /\ ds = Grant
                BY <4>4, <2>6a
            <4> QED  BY <4>5, <2>5, <2>11, <2>12 DEF dsub, Firm
        <3>2. \A r \in DOMAIN records \ {m, s} : new[r] = records[r]
            BY <2>7
        <3> QED  BY <2>24, <3>1, <3>2, <2>1, <2>7 DEF SimpleFirm
    <2>25. Reverts(req)
        <3>1. OnlyPair(records, m, s, dm, dsub)
            BY <2>1, <2>7, <2>11, <2>12 DEF OnlyPair
        <3>2. OnlyPair(records, m, s, RevertedMonitor(req.type),
                    IF IsPresent(records[s].decision) THEN RevertedSubject(req.type)
                    ELSE records[s].decision)
            BY <3>1 DEF dm, ds, dsub
        <3> QED  BY <3>2, <2>1, <2>p, <1>5 DEF Reverts
    <2> QED  BY <2>19, <2>22, <2>23, <2>24, <2>25 DEF StepKeeps
<1> QED  BY <1>4, <1>5

With(r) == [q \in {created + 1} |-> r] \oplus records

\* Adding one record without a peer, whose decision is not a delayed one.
LEMMA AddedRecord ==
    ASSUME IInv, NEW r \in RecordType, r.peer = NoPeer, r.decision # Delay, r.processTime = now
    PROVE  /\ RecordsOK(With(r), created + 1, now, {})
           /\ DOMAIN With(r) = DOMAIN records \cup {created + 1}
           /\ \A q \in DOMAIN records : With(r)[q] = records[q]
           /\ With(r)[created + 1] = r
<1> DEFINE rs == With(r)
<1>1. \A q \in DOMAIN records : q \in Nat /\ q >= 1 /\ q <= created
    BY DEF IInv, RecordsOK, Typed
<1>2. created \in Nat /\ now \in Nat
    BY DEF IInv
<1>3. /\ DOMAIN rs = DOMAIN records \cup {created + 1}
      /\ \A q \in DOMAIN records : rs[q] = records[q]
      /\ rs[created + 1] = r
    BY <1>1, <1>2 DEF \oplus, With
<1> HIDE DEF rs
<1>4. Typed(rs, created + 1)
    BY <1>1, <1>2, <1>3 DEF IInv, RecordsOK, Typed
<1>5. Paired(rs)
    BY <1>3 DEF IInv, RecordsOK, Paired
<1>6. Separate(rs)
    BY <1>3 DEF IInv, RecordsOK, Paired, Separate
<1>7. OneHasAsked(rs, {})
    BY <1>3 DEF IInv, RecordsOK, Paired, OneHasAsked
<1>8. DelayedAskedFirst(rs)
    BY <1>3 DEF IInv, RecordsOK, Paired, DelayedAskedFirst
<1>9. Past(rs, now)
    BY <1>2, <1>3 DEF IInv, RecordsOK, Past
<1>10. AskedLater(rs)
    BY <1>3 DEF IInv, RecordsOK, Paired, AskedLater
<1>11. (\A q \in DOMAIN records : Since(rs, q) = Since(records, q)) /\ Since(rs, created + 1) = now
    BY <1>3 DEF IInv, RecordsOK, Paired, Since
<1>12. InTurn(rs)
    BY <1>1, <1>2, <1>3, <1>11, SinceInPast DEF IInv, RecordsOK, InTurn
<1>13. PairsApart(rs)
    BY <1>3, <1>11 DEF IInv, RecordsOK, PairsApart
<1> QED  BY <1>3, <1>4, <1>5, <1>6, <1>7, <1>8, <1>9, <1>10, <1>12, <1>13 DEF RecordsOK, rs

\* An implicit request keeps the invariant.
LEMMA ImplicitStep ==
    ASSUME IInv, NEW req \in Requests, ImplicitRequest(req)
    PROVE  StepKeeps({req.monitor}) /\ GrantsHeldBut(req.monitor) /\ Untouched
<1> DEFINE h == MonitorNodes(req)
           st == InstanceState(h, records, MonitorState(req), req.subject, req.subjectInstance)
           earlier == IF req.subject \in DOMAIN h THEN ImplicitRecords(records, st, req.subject) ELSE {}
           weighed == /\ earlier # {}
                      /\ records[Latest(earlier)].processTime > now - RecordKeepInterval
           d == IF weighed THEN ImplicitVerdict(req, records[Latest(earlier)], st) ELSE Neutral
           st1 == IF weighed THEN ImplicitAged(req, records[Latest(earlier)], st) ELSE st
           blank == NewRecord(req.monitor, req.monitorInstance, req.subject, req.subjectInstance,
                              req.monitorLease, req.subjectLease, NoPeer, FALSE)
           new == [blank EXCEPT !.decision = d, !.arbitration1 = req.arbitration1,
                                !.arbitration2 = req.arbitration2]
           h1 == IF req.subject \in DOMAIN h /\ req.subjectInstance > h[req.subject].instance
                 THEN [h EXCEPT ![req.subject].instance = req.subjectInstance] ELSE h
<1>0. created \in Nat /\ now \in Nat /\ historyStart \in Nat /\ lastCompact \in Nat
    BY DEF IInv
<1>1. /\ nodes' = h1
      /\ records' = [q \in {created + 1} |-> new] \oplus records
      /\ state' = [q \in {created + 1} |-> "Implicit"] \oplus st1
      /\ created' = created + 1
      /\ UNCHANGED <<now, historyStart, lastCompact, delayed>>
    BY DEF ImplicitRequest
<1>2. NodesOK(h1)
    BY MonitorNodesOK, RequestFields DEF NodesOK
<1>3. StatesOf(DOMAIN records, Alone(records), st)
    BY MonitorStateOK, InstanceStateStates
<1>4. StatesOf(DOMAIN records, Alone(records), st1)
    <2> HIDE DEF st, earlier
    <2>1. StatesOf(DOMAIN records, Alone(records), Aged(records, st, req.monitor))
        BY <1>3, AgedStates
    <2>2. StatesOf(DOMAIN records, Alone(records), Aged(records, Aged(records, st, req.monitor), req.subject))
        BY <2>1, AgedStates
    <2> QED  BY <1>3, <2>2 DEF ImplicitAged
<1>5. d \in {Neutral, Grant, Reject}
    <2> HIDE DEF st, earlier
    <2>1. \A e : ImplicitVerdict(req, e, st) \in {Grant, Reject}
        BY DEF ImplicitVerdict, ByCounts, None, Grant, Reject
    <2> QED  BY <2>1
<1>6. blank \in RecordType /\ blank.peer = NoPeer /\ blank.processTime = now
    <2>1. blank \in RecordType
        BY RequestFields, NewRecordType DEF NoPeer
    <2> QED  BY <2>1 DEF NewRecord
<1> HIDE DEF h, h1, d, st, st1, blank
<1>7. new \in RecordType /\ new.peer = NoPeer /\ new.processTime = now /\ new.decision # Delay
    BY <1>5, <1>6, RequestFields DEF RecordType, Decisions, Neutral, Grant, Reject, Delay
<1> HIDE DEF new
<1>8. /\ RecordsOK(records', created + 1, now, {})
      /\ DOMAIN records' = DOMAIN records \cup {created + 1}
      /\ \A q \in DOMAIN records : records'[q] = records[q]
      /\ records'[created + 1] = new
    <2>1. records' = With(new)
        BY <1>1 DEF With
    <2> QED  BY <2>1, <1>7, AddedRecord
<1>9. StatesOf(DOMAIN records', Alone(records'), state')
    BY <1>1, <1>4, <1>7, <1>8 DEF StatesOf, \oplus, RecordStates, Alone
<1>10. DelayedTracked'
    BY <1>1, <1>7, <1>8 DEF IInv, DelayedTracked
<1>11. GrantsHeldBut(req.monitor)
    BY <1>8 DEF GrantsHeldBut
<1>12. IInv'
    BY <1>0, <1>1, <1>2, <1>8, <1>9, <1>10 DEF IInv
<1>13. ToldBut({req.monitor}) /\ (SimpleFirm => SimpleFirm')
    BY <1>7, <1>8 DEF ToldBut, SimpleFirm
<1>14. Untouched
    BY <1>7, <1>8 DEF Untouched
<1> QED  BY <1>11, <1>12, <1>13, <1>14 DEF StepKeeps

\* The requests that touch no record.
LEMMA OtherRequestStep ==
    ASSUME IInv, NEW req \in Requests, KeepAliveRequest(req) \/ RejectDown(req) \/ QueryRequest(req)
    PROVE  StepKeeps({req.monitor}) /\ GrantsHeldBut(req.monitor) /\ Untouched
<1>1. /\ UNCHANGED <<now, historyStart, lastCompact, records, delayed, created>>
      /\ \/ nodes' = MonitorNodes(req)
         \/ nodes' = CreatedNodes(TouchedNodes(req.monitor, req.monitorInstance), req.monitor, req.monitorInstance)
         \/ nodes' = TouchedNodes(req.subject, req.subjectInstance)
      /\ \/ state' = MonitorState(req)
         \/ state' = InstanceState(nodes, records, state, req.subject, req.subjectInstance)
    BY DEF KeepAliveRequest, RejectDown, QueryRequest
<1>2. NodesOK(nodes')
    BY <1>1, RequestFields, MonitorNodesOK, TouchedNodesOK, CreatedNodesOK
<1>3. StatesOf(DOMAIN records, Alone(records), state)
    BY DEF IInv
<1>4. StatesOf(DOMAIN records, Alone(records), state')
    BY <1>1, <1>3, MonitorStateOK, InstanceStateStates
<1>5. DelayedTracked'
    BY <1>1 DEF IInv, DelayedTracked
<1>6. GrantsHeldBut(req.monitor)
    BY <1>1 DEF GrantsHeldBut
<1>7. IInv'
    BY <1>1, <1>2, <1>4, <1>5 DEF IInv
<1>8. ToldBut({req.monitor}) /\ (SimpleFirm => SimpleFirm')
    BY <1>1 DEF ToldBut, SimpleFirm
<1>9. Untouched
    BY <1>1 DEF Untouched
<1> QED  BY <1>6, <1>7, <1>8, <1>9 DEF StepKeeps

\* Compact grants what was delayed long enough, and only then drops old pairs.
\* A delayed grant is younger than DelayInterval after the first part, so its
\* pair, of which it asked first, is younger than RecordKeepInterval.
LEMMA CompactStep ==
    ASSUME IInv, Compact
    PROVE  /\ StepKeeps({}) /\ Compacts
           /\ \A r \in DOMAIN records \cap DOMAIN records' :
                records[r].decision = Grant => records'[r].decision = Grant
<1>0. created \in Nat /\ now \in Nat /\ historyStart \in Nat /\ lastCompact \in Nat
    BY DEF IInv
<1>1. RecordKeepInterval \in Nat /\ DelayInterval \in Nat /\ DelayInterval <= RecordKeepInterval
    BY TimeAssumption DEF RecordKeepInterval
<1> DEFINE bound == now - RecordKeepInterval
<1>p. PICK P, R : /\ R \subseteq {r \in DOMAIN records : \E q \in PairOf(r) : Old(q)}
                  /\ \A r \in R : PairOf(r) \subseteq R
                  /\ \A r \in R : \E q \in PairOf(r) : Older(q) \subseteq R
                  /\ Remaining(P, R)
    BY DEF Compact, Compacted
<1> DEFINE gone == {n \in P : {r \in DOMAIN records \ R : records[r].node = n} = {}
                             /\ nodes[n].lastReceived < bound}
<1>2. /\ R \subseteq {r \in DOMAIN records : \E q \in PairOf(r) : Old(q)}
      /\ \A r \in R : PairOf(r) \subseteq R
      /\ records' = [r \in DOMAIN records \ R |-> DelayGranted[r]]
      /\ state' = [r \in DOMAIN records \ R |-> DelayGrantedState[r]]
      /\ nodes' = [n \in DOMAIN nodes \ gone |-> nodes[n]]
      /\ delayed' = {r \in delayed \ DelayExpired : records[r].decision = Delay}
      /\ historyStart' = IF CleanupDue /\ bound > historyStart THEN bound ELSE historyStart
      /\ lastCompact' = IF CleanupDue THEN now ELSE lastCompact
      /\ now' = now /\ created' = created
      /\ sent' = {DelayedReply(DelayGranted[r], Grant, FALSE) : r \in DelayExpired}
    BY <1>p DEF Remaining
<1> HIDE DEF gone
<1> DEFINE kept == DOMAIN records \ R
<1>3. NodesOK(nodes')
    BY <1>2 DEF IInv, NodesOK
<1>4. historyStart' \in Nat /\ lastCompact' \in Nat
    BY <1>0, <1>1, <1>2
<1>5. DOMAIN records' = kept /\ \A r \in kept : records'[r] = DelayGranted[r]
    BY <1>2
<1>6. \A r \in DOMAIN records :
        DelayGranted[r] = IF r \in DelayExpired THEN [records[r] EXCEPT !.decision = Grant, !.delayed = FALSE]
                          ELSE records[r]
    BY DEF DelayGranted
<1>7. DelayExpired \subseteq DOMAIN records /\ \A r \in DelayExpired : records[r].decision = Delay
    BY DEF IInv, DelayedTracked, DelayExpired
<1>8. \A r \in DOMAIN records : records[r] \in RecordType
    BY DEF IInv, RecordsOK, Typed
<1>9. \A r \in kept :
        /\ records'[r] \in RecordType
        /\ SameSide(records[r], records'[r]) /\ records'[r].processTime = records[r].processTime
        /\ \/ records'[r].decision = records[r].decision /\ r \notin DelayExpired
           \/ records[r].decision = Delay /\ records'[r].decision = Grant
    <2> TAKE r \in kept
    <2>1. CASE r \in DelayExpired
        <3>1. records'[r] = [records[r] EXCEPT !.decision = Grant, !.delayed = FALSE]
            BY <2>1, <1>5, <1>6
        <3> QED  BY <2>1, <3>1, <1>7, <1>8 DEF RecordType, Decisions, SameSide
    <2>2. CASE r \notin DelayExpired
        BY <2>2, <1>5, <1>6, <1>8 DEF SameSide
    <2> QED  BY <2>1, <2>2
<1>10. \A r \in kept : records[r].peer # NoPeer => records[r].peer \in kept
    <2> TAKE r \in kept
    <2> HAVE records[r].peer # NoPeer
    <2>1. /\ records[r].peer \in DOMAIN records /\ records[records[r].peer].peer = r
          /\ r # NoPeer
        BY DEF IInv, RecordsOK, Paired, Typed, NoPeer
    <2>2. r \in PairOf(records[r].peer)
        BY <2>1 DEF PairOf
    <2> QED  BY <2>1, <2>2, <1>2
<1> HIDE DEF kept
<1>11. kept \subseteq DOMAIN records
    BY DEF kept
<1>12. Typed(records', created)
    BY <1>5, <1>9, <1>11 DEF IInv, RecordsOK, Typed
<1>13. Paired(records')
    BY <1>5, <1>9, <1>10, <1>11 DEF SameSide, IInv, RecordsOK, Paired, Mirrored
<1>14. Separate(records')
    BY <1>5, <1>9, <1>10, <1>11 DEF SameSide, IInv, RecordsOK, Separate, Opposed, Grant, Delay, None, Reject
<1>15. OneHasAsked(records', {})
    BY <1>5, <1>9, <1>10, <1>11 DEF SameSide, IInv, RecordsOK, OneHasAsked, IsPresent, Grant, None
<1>16. DelayedAskedFirst(records')
    BY <1>5, <1>9, <1>10, <1>11 DEF SameSide, IInv, RecordsOK, DelayedAskedFirst, Grant, Delay
<1>17. Past(records', now)
    BY <1>5, <1>9, <1>11 DEF SameSide, IInv, RecordsOK, Past
<1>22. AskedLater(records')
    BY <1>5, <1>9, <1>10, <1>11 DEF SameSide, IInv, RecordsOK, AskedLater, IsPresent, Grant, None
<1>23. \A r \in kept : Since(records', r) = Since(records, r)
    BY <1>5, <1>9, <1>10, <1>11 DEF SameSide, Since
<1>24. InTurn(records')
    BY <1>5, <1>11, <1>23 DEF IInv, RecordsOK, InTurn
<1>25. PairsApart(records')
    <2>1. \A r, q \in kept : OneLease(records'[r], records'[q]) => OneLease(records[r], records[q])
        BY <1>9 DEF SameSide, OneLease
    <2>2. \A r \in kept : records'[r].peer = records[r].peer
        BY <1>9 DEF SameSide
    <2> QED  BY <2>1, <2>2, <1>5, <1>11, <1>23 DEF IInv, RecordsOK, PairsApart
<1>26. Alone(records') = Alone(records) \cap kept
    BY <1>5, <1>9, <1>11 DEF SameSide, Alone
<1>18. StatesOf(DOMAIN records', Alone(records'), state')
    <2> DEFINE confirmed == {r \in DelayExpired : state[r] = "Pending"}
               silent == {r \in DOMAIN records :
                            records[r].peer \in DelayExpired /\ ~IsPresent(records[r].decision)}
               f1 == [r \in confirmed |-> "Confirmed"]
               f2 == [r \in silent |-> "Rejected"]
    <2>1. DelayGrantedState = Settled(records, state, f1 \oplus f2 \oplus state)
        BY DEF DelayGrantedState
    <2>2. confirmed \subseteq DOMAIN records /\ silent \subseteq DOMAIN records
        BY <1>7
    <2> HIDE DEF confirmed, silent
    <2>3. StatesOf(DOMAIN records, Alone(records), f1 \oplus f2 \oplus state)
        <3>1. StatesOf(DOMAIN records, Alone(records), state)
            BY DEF IInv
        <3> QED  BY <3>1, <2>2 DEF StatesOf, \oplus, RecordStates
    <2> HIDE DEF f1, f2
    <2>4. StatesOf(DOMAIN records, Alone(records), DelayGrantedState)
        BY <2>1, <2>3, SettledStates
    <2> QED  BY <2>4, <1>2, <1>5, <1>11, <1>26 DEF StatesOf, kept
<1>19. ASSUME NEW r \in delayed' PROVE r \in kept
    <2>1. r \in delayed /\ r \notin DelayExpired /\ records[r].decision = Delay /\ r \in DOMAIN records
        BY <1>2, <1>19 DEF IInv, DelayedTracked
    <2>2. records[r].processTime > now - DelayInterval
        BY <2>1, <1>0, <1>1, <1>8 DEF DelayExpired, RecordType
    <2>3. ~Old(r)
        BY <2>1, <2>2, <1>0, <1>1, <1>8 DEF Old, RecordType
    <2>4. /\ records[r].peer # NoPeer /\ records[r].peer \in DOMAIN records
          /\ records[records[r].peer].processTime >= records[r].processTime
        BY <2>1 DEF IInv, RecordsOK, DelayedAskedFirst, Paired
    <2>5. ~Old(records[r].peer)
        <3> DEFINE x == records[r].processTime
                   y == records[records[r].peer].processTime
        <3>1. x \in Int /\ y \in Int /\ y >= x /\ x > now - DelayInterval
            BY <2>1, <2>2, <2>4, <1>8 DEF RecordType
        <3> HIDE DEF x, y
        <3>2. ~(y < now - RecordKeepInterval)
            BY <3>1, <1>0, <1>1
        <3> QED  BY <3>2 DEF Old, y
    <2>6. \A q \in PairOf(r) : ~Old(q)
        BY <2>3, <2>5 DEF PairOf
    <2> QED  BY <2>1, <2>6, <1>2 DEF kept
<1>20. DelayedTracked'
    <2>1. ASSUME NEW r \in DOMAIN records', records'[r].decision = Delay PROVE r \in delayed'
        <3>1. r \in kept /\ r \notin DelayExpired /\ records[r].decision = Delay
            BY <2>1, <1>5, <1>9 DEF Grant, Delay
        <3> QED  BY <3>1, <1>2, <1>11 DEF IInv, DelayedTracked
    <2> QED  BY <2>1, <1>5, <1>19 DEF DelayedTracked
<1>21. \A r \in DOMAIN records \cap DOMAIN records' :
            records[r].decision = Grant => records'[r].decision = Grant
    BY <1>5, <1>9 DEF Grant, Delay
<1>27. IInv'
    BY <1>0, <1>2, <1>3, <1>4, <1>12, <1>13, <1>14, <1>15, <1>16, <1>17, <1>18, <1>20, <1>22, <1>24, <1>25
       DEF IInv, RecordsOK
<1>28. ToldBut({})
    <2> SUFFICES ASSUME NEW r \in kept, records'[r].decision # records[r].decision PROVE Told(r)
        BY <1>5 DEF ToldBut
    <2> DEFINE x == DelayedReply(DelayGranted[r], Grant, FALSE)
    <2>1. r \in DelayExpired /\ records'[r].decision = Grant
        <3>1. records'[r].decision = Grant
            BY <1>9
        <3>2. r \notin DelayExpired => records'[r] = records[r]
            BY <1>5, <1>6, <1>11
        <3> QED  BY <3>1, <3>2
    <2>2. x \in sent'
        <3>1. sent' = {DelayedReply(DelayGranted[q], Grant, FALSE) : q \in DelayExpired}
            BY <1>2
        <3> QED  BY <2>1, <3>1
    <2>3. x.kind = "delayed" /\ x.to = records[r].node /\ x.granted = TRUE /\ x.rejected = FALSE
        <3>1. DelayGranted[r].node = records[r].node
            BY <1>5, <1>9 DEF SameSide
        <3> QED  BY <3>1 DEF DelayedReply, Grant, Reject
    <2> HIDE DEF x
    <2> QED  BY <2>1, <2>2, <2>3 DEF Told, Grant, Reject
<1>29. SimpleFirm => SimpleFirm'
    <2> SUFFICES ASSUME SimpleFirm, NEW r \in kept, records'[r].peer # NoPeer, Simple(records'[r])
                 PROVE  records'[r].decision \in Firm
        BY <1>5 DEF SimpleFirm
    <2>1. records[r].peer # NoPeer /\ Simple(records[r])
        BY <1>9, SameEnds DEF SameSide
    <2>2. records[r].decision \in Firm
        BY <2>1, <1>11 DEF SimpleFirm
    <2> QED  BY <2>2, <1>9 DEF Firm, Grant
<1>30. Compacts
    <2>1. R \in SUBSET DOMAIN records /\ DOMAIN records' = DOMAIN records \ R
        BY <1>2, <1>5 DEF kept
    <2>2. \A r \in R : PairOf(r) \subseteq R /\ \E q \in PairOf(r) : Older(q) \subseteq R
        BY <1>p
    <2>3. \A r \in DOMAIN records \ R :
            /\ SameSide(records[r], records'[r])
            /\ \/ records'[r].decision = records[r].decision
               \/ records[r].decision = Delay /\ records'[r].decision = Grant
        BY <1>9 DEF kept
    <2> QED  BY <2>1, <2>2, <2>3 DEF Compacts
<1> QED  BY <1>21, <1>27, <1>28, <1>29, <1>30 DEF StepKeeps

\* An empty table satisfies the invariant.
LEMMA RestartStep == ASSUME IInv, Restart PROVE IInv'
BY DEF IInv, Restart, NodesOK, RecordsOK, Typed, Paired, Separate, OneHasAsked, DelayedAskedFirst, Past,
       AskedLater, InTurn, PairsApart, StatesOf, Alone, DelayedTracked

\* Time passing keeps the invariant: the records only get older.
LEMMA TickStep == ASSUME IInv, Tick PROVE IInv'
<1>1. now' \in Nat /\ now' = now + 1 /\ now \in Nat
    BY DEF IInv, Tick
<1>2. UNCHANGED <<historyStart, lastCompact, nodes, records, state, delayed, created>>
    BY DEF Tick
<1>3. Past(records, now')
    BY <1>1, <1>2 DEF IInv, RecordsOK, Past, Typed, RecordType
<1>4. RecordsOK(records', created', now', {})
    BY <1>2, <1>3 DEF IInv, RecordsOK
<1>5. StatesOf(DOMAIN records', Alone(records'), state') /\ NodesOK(nodes')
    BY <1>2 DEF IInv
<1> QED  BY <1>1, <1>2, <1>4, <1>5 DEF IInv, DelayedTracked

\* The table starts empty and satisfies the invariant.
LEMMA InitIInv == Init => IInv
BY TimeAssumption DEF Init, IInv, NodesOK, RecordsOK, Typed, Paired, Separate, OneHasAsked,
   DelayedAskedFirst, Past, AskedLater, InTurn, PairsApart, StatesOf, Alone, DelayedTracked

\* Every step of the table keeps the invariant.
LEMMA NextIInv == IInv /\ [Next]_vars => IInv'
<1> SUFFICES ASSUME IInv, [Next]_vars PROVE IInv'
    OBVIOUS
<1>1. ASSUME NEW req \in Requests, ProcessRequest(req) PROVE IInv'
    BY <1>1, ArbitrateStep, RevertStep, ImplicitStep, OtherRequestStep DEF ProcessRequest, StepKeeps
<1>2. CASE UNCHANGED vars
    <2>1. /\ UNCHANGED <<now, historyStart, lastCompact, nodes, records, state, delayed, created>>
        BY <1>2 DEF vars
    <2>2. /\ RecordsOK(records', created', now', {}) /\ NodesOK(nodes')
          /\ StatesOf(DOMAIN records', Alone(records'), state')
        BY <2>1 DEF IInv
    <2> QED  BY <2>1, <2>2 DEF IInv, DelayedTracked
<1> QED  BY <1>1, <1>2, CompactStep, RestartStep, TickStep DEF Next, StepKeeps

-----------------------------------------------------------------------------
(***************************************************************************)
(* The theorems.                                                           *)
(***************************************************************************)

\* The inductive invariant holds in every reachable state.
THEOREM Invariance == Spec => []IInv
BY InitIInv, NextIInv, PTL DEF Spec

\* The table is well formed: node histories, records, states and delayed_ have
\* their types after any sequence of requests, compactions and restarts.
THEOREM TypeCorrect == Spec => []TypeOK
BY Invariance, IInvImplies, PTL

\* A record with a peer_ always has a live one that points back to it, for the
\* same two nodes: Remove deletes a record together with its peer.
THEOREM PeersAreConsistent == Spec => []PeersMatch
BY Invariance, IInvImplies, PTL

\* MakeDecision, ProcessRevertRequest and the end of a delay in Compact never
\* let one side of a lease hold or await a grant unless the other side has
\* not asked or is rejected.
THEOREM GrantsAreExclusive == Spec => []NoOpposingGrants
BY Invariance, IInvImplies, PTL

\* delayed_ never holds a pointer to a deleted record, although CompactInternal
\* deletes records without consulting it, provided ArbitrationDelayInterval
\* is at most the time records are kept; and every delayed decision is in
\* delayed_, so that Compact will find it.
THEOREM DelayedAreAlive == Spec => []DelayedTracked
BY Invariance, IInvImplies, PTL

\* A grant is withdrawn only by a request of the node that holds it: neither
\* the other side, nor a delay that ends, nor compaction can do it.
THEOREM GrantsAreKept == Spec => GrantKept
<1> DEFINE Kept == \A r \in DOMAIN records :
                records[r].decision = Grant /\ r \in DOMAIN records' /\ records'[r].decision # Grant
                    => \E req \in Requests : req.monitor = records[r].node /\ ProcessRequest(req)
<1>1. IInv /\ [Next]_vars => [Kept]_vars
    <2> SUFFICES ASSUME IInv, Next PROVE Kept
        OBVIOUS
    <2>1. ASSUME NEW req \in Requests, ProcessRequest(req) PROVE Kept
        <3>1. GrantsHeldBut(req.monitor)
            BY <2>1, ArbitrateStep, RevertStep, ImplicitStep, OtherRequestStep DEF ProcessRequest
        <3> QED  BY <2>1, <3>1 DEF GrantsHeldBut
    <2>2. CASE Compact
        BY <2>2, CompactStep
    <2>3. CASE Restart
        BY <2>3 DEF Restart
    <2>4. CASE Tick
        BY <2>4 DEF Tick
    <2> QED  BY <2>1, <2>2, <2>3, <2>4 DEF Next
<1> QED  BY <1>1, Invariance, PTL DEF Spec, GrantKept

\* A second pair of records for one lease comes only when the first is older than the
\* suspicion interval, although GetRecord stops at the first old record of a list that
\* is not sorted by time: before that, whoever asks is decided on the pair there is.
THEOREM OnePairAtATime == Spec => []OnePairPerLease
BY Invariance, IInvImplies, PTL

\* A decision that changes without its node asking is sent to the node in the same
\* step, with its new value: when a delay ends, when the other side reports, and when
\* the other side gives its grant back.
THEOREM ChangesAreTold == Spec => ToldOfChange
<1> DEFINE Change == \A r \in DOMAIN records \cap DOMAIN records' :
        /\ IsPresent(records[r].decision) /\ records'[r].decision # records[r].decision
        /\ records[r].monitorLease > 0
        => \/ \E m \in sent' : /\ m.kind = "delayed" /\ m.to = records[r].node
                               /\ m.granted <=> records'[r].decision = Grant
                               /\ m.rejected <=> records'[r].decision = Reject
           \/ \E req \in Requests : req.monitor = records[r].node /\ ProcessRequest(req)
<1>1. IInv /\ [Next]_vars => [Change]_vars
    <2> SUFFICES ASSUME IInv, Next PROVE Change
        OBVIOUS
    <2>1. ASSUME NEW req \in Requests, ProcessRequest(req) PROVE Change
        <3>1. ToldBut({req.monitor})
            BY <2>1, ArbitrateStep, RevertStep, ImplicitStep, OtherRequestStep DEF ProcessRequest, StepKeeps
        <3> QED  BY <2>1, <3>1 DEF ToldBut, Told
    <2>2. CASE Compact
        <3>1. ToldBut({})
            BY <2>2, CompactStep DEF StepKeeps
        <3> QED  BY <3>1 DEF ToldBut, Told
    <2>3. CASE Restart
        BY <2>3 DEF Restart
    <2>4. CASE Tick
        BY <2>4 DEF Tick
    <2> QED  BY <2>1, <2>2, <2>3, <2>4 DEF Next
<1> QED  BY <1>1, Invariance, PTL DEF Spec, ToldOfChange

\* MakeDecision's assertion never fails: a TwoWaySimple request meets no neutral or
\* delayed subject, provided that the kind of arbitration follows from the lease
\* versions of the two agents.
THEOREM SimpleIsFirm == ASSUME OneVersion PROVE Spec => []SimpleMeetsNoNeutral
<1>1. Init => SimpleFirm
    BY DEF Init, SimpleFirm
<1>2. IInv /\ SimpleFirm /\ [Next]_vars => SimpleFirm'
    <2> SUFFICES ASSUME IInv, SimpleFirm, [Next]_vars PROVE SimpleFirm'
        OBVIOUS
    <2>1. ASSUME NEW req \in Requests, ProcessRequest(req) PROVE SimpleFirm'
        BY <2>1, ArbitrateStep, RevertStep, ImplicitStep, OtherRequestStep DEF ProcessRequest, StepKeeps
    <2>2. CASE Compact
        BY <2>2, CompactStep DEF StepKeeps
    <2>3. CASE Restart
        BY <2>3 DEF Restart, SimpleFirm
    <2>4. CASE Tick \/ UNCHANGED vars
        BY <2>4 DEF Tick, vars, SimpleFirm
    <2> QED  BY <2>1, <2>2, <2>3, <2>4 DEF Next
<1>3. IInv /\ SimpleFirm => SimpleMeetsNoNeutral
    <2> SUFFICES ASSUME IInv, SimpleFirm, NEW req \in Requests, req.type = TwoWaySimple,
                        Matching(records, state, req) # {},
                        records[Latest(Matching(records, state, req))].peer # NoPeer
                 PROVE  records[records[Latest(Matching(records, state, req))].peer].decision
                            \in {None, Grant, Reject}
        BY DEF SimpleMeetsNoNeutral
    <2> DEFINE m == Latest(Matching(records, state, req))
               s == records[m].peer
    <2>1. m \in DOMAIN records /\ Between(req, records[m])
        BY FoundRecord DEF RecordsOf
    <2> HIDE DEF m
    <2>2. s # NoPeer
        BY DEF m
    <2>3. s \in DOMAIN records /\ records[s].peer = m /\ m # NoPeer /\ Mirrored(records[m], records[s])
        BY <2>1, <2>2 DEF IInv, RecordsOK, Paired, Typed, NoPeer
    <2>4. Simple(records[s])
        BY <2>1, <2>3 DEF Simple, Between, Mirrored
    <2>5. records[s].decision \in Firm
        BY <2>3, <2>4 DEF SimpleFirm
    <2> QED  BY <2>5 DEF Firm, m
<1> QED  BY <1>1, <1>2, <1>3, Invariance, PTL DEF Spec

=============================================================================
