------------------------ MODULE Arbitration_proofs ------------------------
(***************************************************************************)
(* Theorems about Arbitration, for any set of arbiters and any kinds of    *)
(* leases: the types, and that the two sides of a lease do not get         *)
(* verdicts that contradict each other.                                    *)
(***************************************************************************)
EXTENDS Arbitration, FiniteSetTheorems, TLAPS

-----------------------------------------------------------------------------
(***************************************************************************)
(* The inductive invariant.                                                *)
(***************************************************************************)

Vote == [answered: BOOLEAN, granted: BOOLEAN, safe: BOOLEAN, reported: BOOLEAN,
         strong: BOOLEAN, continuous: BOOLEAN, delayed: BOOLEAN,
         count: Nat, pending: BOOLEAN, reverted: BOOLEAN]

Operation == [started: BOOLEAN, revert: TwoWayTypes \cup RevertTypes, canRetry: BOOLEAN,
              local: BOOLEAN, remoteDown: BOOLEAN, partial: BOOLEAN,
              completed: BOOLEAN, assertFailed: BOOLEAN]

Arbiter == [decision: [Sides -> Decisions], strong: [Sides -> BOOLEAN], restarted: BOOLEAN]

Req == [from: Sides, to: Votes, number: Nat, type: TwoWayTypes \cup RevertTypes]

Reply == [kind: {"reply", "delayed"}, to: Sides, from: Votes, number: Nat, granted: BOOLEAN,
          rejected: BOOLEAN, reported: BOOLEAN, strong: BOOLEAN, continuous: BOOLEAN, delayed: BOOLEAN]

Types ==
    /\ lease \in Leases
    /\ arbiter \in [Votes -> Arbiter]
    /\ vote \in [Sides -> [Votes -> Vote]]
    /\ op \in [Sides -> Operation]
    /\ requests \subseteq Req /\ calls \subseteq Req /\ replies \subseteq Reply

\* The decisions of an arbiter that may stand together.
Agree(d, e) ==
    /\ d = Grant => e \in {None, Reject}
    /\ d = Delay => e = None
    /\ d = Neutral => e \in {None, Neutral}

ArbiterOK(a) ==
    /\ \A x \in Sides : Agree(a.decision[x], a.decision[Other(x)])
    /\ a.restarted => \A x \in Sides : a.decision[x] \in {None, Reject}

\* A vote that was given back has no grant, and no outcome but a rejection if
\* it was given back as one.
VoteOK(w) == (w.granted => w.answered /\ w.safe) /\ (w.reverted => ~w.granted)

\* A request to give back belongs to an operation and a vote that do so.
RequestOK(r) ==
    r.type \in RevertTypes =>
        /\ op[r.from].revert = r.type /\ vote[r.from][r.to].reverted
        /\ r.type = RevertToReject => ~vote[r.from][r.to].safe

\* x has, or is told, a grant at arbiter v.
Hold(x, v) ==
    \/ vote[x][v].granted
    \/ ~vote[x][v].reverted /\ \E m \in replies : m.to = x /\ m.from = v /\ m.granted

\* x has, or is told, a grant or a neutral outcome at arbiter v.
Share(x, v) ==
    \/ vote[x][v].answered /\ vote[x][v].safe
    \/ ~vote[x][v].reverted /\ \E m \in replies : m.to = x /\ m.from = v /\ ~m.rejected

\* The outcome of z at an arbiter is no rejection, and it is a grant.  An arbiter that
\* restarted gives nothing to anybody.
Live(a, z) == a.restarted \/ a.decision[z] \in {Grant, Delay, Neutral}
Owns(a, z) == a.restarted \/ a.decision[z] = Grant

\* Arbiter v gives x no grant as long as its peer does not give back one, and
\* gives the peer of x a rejection as long as x does not give back.
Withholds(v, x) == Live(arbiter[v], Other(x))
Grants(v, x) == Owns(arbiter[v], x)

Keeps(x) == op[x].revert = Type

Majority(Q) == Q \subseteq Votes /\ Cardinality(Q) >= Quorum

\* What a side has at an arbiter, the other cannot have there.
Exclusive(x) ==
    Keeps(x) => \A v \in Votes :
        /\ Hold(x, v) => Grants(v, x)
        /\ Share(Other(x), v) => ~Hold(x, v) /\ Withholds(v, x)

\* A side that may live, and gives back no grant as a rejection, has a majority
\* that gives the other no grant.
LocalHolds(x) ==
    Keeps(x) /\ op[Other(x)].local /\ op[Other(x)].revert # RevertToReject =>
        \E Q : Majority(Q) /\ \A v \in Q : ~Hold(x, v) /\ Withholds(v, x)

\* A side that is told its peer is down has a majority that gives the peer
\* rejections.
WonHolds(x) ==
    op[x].remoteDown =>
        /\ Keeps(x) /\ op[x].completed /\ op[x].local
        /\ \E Q : Majority(Q) /\ \A v \in Q : ~Share(Other(x), v) /\ Grants(v, x)

\* The peer of a side that has won may only live if it gave back its grants.
OneVerdict(x) ==
    op[x].remoteDown /\ op[Other(x)].local => op[Other(x)].revert = RevertToReject

IInv ==
    /\ Types
    /\ \A v \in Votes : ArbiterOK(arbiter[v])
    /\ \A x \in Sides, v \in Votes : VoteOK(vote[x][v])
    /\ \A r \in requests \cup calls : RequestOK(r)
    /\ \A m \in replies : m.rejected => ~m.granted /\ m.kind = "reply"
    /\ \A x \in Sides : op[x].local <=> op[x].partial
    /\ \A x \in Sides : Exclusive(x) /\ LocalHolds(x) /\ WonHolds(x) /\ OneVerdict(x)

(***************************************************************************)
(* Leases of which all arbiters know the same.                             *)
(***************************************************************************)

\* Every arbiter compares the two sides, or none does.
Compared == Type = TwoWaySimple \/ Continuous = Votes
Unknown == Type = TwoWayExtended /\ Continuous = {}

\* A vote that is not neutral: what is not rejected is granted.
Even(w) == w.answered => (w.safe => w.granted) /\ (Type = TwoWayExtended => w.continuous)

ComparedOK ==
    /\ \A v \in Votes, x \in Sides : arbiter[v].decision[x] \in {None, Grant, Reject}
    /\ \A m \in replies : (m.rejected \/ m.granted) /\ (Type = TwoWayExtended => m.continuous)
    /\ \A x \in Sides : op[x].revert # RevertToNeutral /\ \A v \in Votes : Even(vote[x][v])

\* Once y gives back its grants as rejections, it has none and does not get to live.
GivesBack(y) ==
    /\ \A v \in Votes : vote[y][v].granted => ~vote[y][v].pending
    /\ op[y].revert = RevertToReject =>
          /\ ~op[y].local
          /\ op[y].completed \/ (Quorum > 1 /\ \A v \in Votes : ~vote[y][v].granted)

\* While x gives nothing back, its peer gets no delayed reply, and gives all it has at once.
PeerGivesBack(x) ==
    Keeps(x) => GivesBack(Other(x)) /\ \A m \in replies : m.to = Other(x) => m.kind = "reply"

\* Grants are given back as neutral outcomes, or at the end.
UnknownOK ==
    /\ \A m \in replies : ~m.continuous
    /\ \A x \in Sides : /\ \A v \in Votes : ~vote[x][v].continuous
                        /\ op[x].revert = RevertToReject => op[x].completed /\ ~op[x].local

SameMemory == Compared \/ Unknown

\* Nothing is granted before anything is asked.
Unstarted(x) == ~op[x].started => \A v \in Votes : ~vote[x][v].granted

UInv ==
    /\ Compared => ComparedOK /\ \A x \in Sides : PeerGivesBack(x)
    /\ Unknown => UnknownOK
    /\ \A x \in Sides : Unstarted(x) /\ op[x].revert \in {Type} \cup RevertTypes

-----------------------------------------------------------------------------
(***************************************************************************)
(* Sides, leases, majorities.                                              *)
(***************************************************************************)

\* The two sides.
LEMMA OtherOK ==
    ASSUME NEW x \in Sides
    PROVE  /\ Other(x) \in Sides /\ Other(x) # x /\ Other(Other(x)) = x
           /\ Sides = {x, Other(x)}
<1>1. PICK a, b \in Sides : a # b /\ Sides = {a, b}
  BY SidesAssumption
<1>2. \E y \in Sides : y # x
  BY <1>1
<1>3. Other(x) \in Sides /\ Other(x) # x
  BY <1>2 DEF Other
<1>4. \E y \in Sides : y # Other(x)
  BY <1>3
<1>5. Other(Other(x)) \in Sides /\ Other(Other(x)) # Other(x)
  BY <1>4 DEF Other
<1>6. QED
  BY <1>1, <1>3, <1>5

\* The kind of lease.
LEMMA LeaseOK ==
    ASSUME lease \in Leases
    PROVE  /\ Type \in {"TwoWaySimple", "TwoWayExtended"} /\ Continuous \in SUBSET Votes
           /\ Type # RevertToReject /\ Type # RevertToNeutral
  BY SidesAssumption DEF Type, Continuous, TwoWayTypes, TwoWaySimple, TwoWayExtended,
                         RevertToReject, RevertToNeutral

\* A majority is a number of arbiters, more than half of them.
LEMMA QuorumOK ==
    /\ IsFiniteSet(Votes) /\ Cardinality(Votes) \in Nat
    /\ Quorum \in Nat \ {0} /\ 2 * Quorum > Cardinality(Votes)
<1>1. IsFiniteSet(Votes) /\ Cardinality(Votes) \in Nat
  BY SidesAssumption, FS_CardinalityType
<1>2. QED
  BY <1>1 DEF Quorum

\* Two majorities have an arbiter in common.
LEMMA MajoritiesMeet ==
    ASSUME NEW P, NEW Q, Majority(P), Majority(Q)
    PROVE  \E v \in Votes : v \in P /\ v \in Q
<1>1. IsFiniteSet(P) /\ IsFiniteSet(Q) /\ IsFiniteSet(P \cup Q) /\ IsFiniteSet(P \cap Q)
  BY QuorumOK, FS_Subset DEF Majority
<1>2. /\ Cardinality(P) \in Nat /\ Cardinality(Q) \in Nat /\ Cardinality(P \cap Q) \in Nat
      /\ Cardinality(P \cup Q) = Cardinality(P) + Cardinality(Q) - Cardinality(P \cap Q)
  BY <1>1, FS_Union, FS_CardinalityType
<1>3. Cardinality(P \cup Q) <= Cardinality(Votes)
  BY QuorumOK, FS_Subset DEF Majority
<1>4. Cardinality(P \cap Q) # 0
  BY <1>2, <1>3, QuorumOK DEF Majority
<1>5. P \cap Q # {}
  BY <1>4, FS_EmptySet
<1>6. QED
  BY <1>5 DEF Majority

\* The counts of CheckState: the granted votes, and with the neutral ones those that
\* have an answer that lets the side live.
LEMMA TallyOK ==
    ASSUME NEW w \in [Votes -> Vote]
    PROVE  LET t == Tally(w)
               A == {v \in Votes : w[v].answered /\ w[v].safe}
               G == {v \in Votes : w[v].answered /\ w[v].safe /\ w[v].granted}
           IN  /\ t.grant \in Nat /\ t.neutral \in Nat
               /\ t.grant = Cardinality(G)
               /\ t.grant + t.neutral = Cardinality(A)
<1> DEFINE t == Tally(w)
           A == {v \in Votes : w[v].answered /\ w[v].safe}
           G == {v \in Votes : w[v].answered /\ w[v].safe /\ w[v].granted}
           U == {v \in Votes : w[v].answered /\ w[v].safe /\ ~w[v].granted}
<1>1. t.grant = Cardinality(G) /\ t.neutral = Cardinality(U)
  BY DEF Tally, Count, IsGrant, IsNeutral, HasResult
<1>2. IsFiniteSet(G) /\ IsFiniteSet(U) /\ G \cap U = {} /\ G \cup U = A
  BY QuorumOK, FS_Subset
<1>3. Cardinality(G) \in Nat /\ Cardinality(U) \in Nat
  BY <1>2, FS_CardinalityType
<1>4. Cardinality(A) = Cardinality(G) + Cardinality(U)
  <2> HIDE DEF A, G, U
  <2>1. Cardinality({}) = 0
    BY FS_EmptySet
  <2>2. Cardinality(G \cup U) = Cardinality(G) + Cardinality(U) - Cardinality(G \cap U)
    BY <1>2, FS_Union
  <2>3. Cardinality(G \cup U) = Cardinality(A) /\ Cardinality(G \cap U) = Cardinality({})
    BY <1>2
  <2>4. QED
    BY <1>3, <2>1, <2>2, <2>3
<1>5. QED
  BY <1>1, <1>3, <1>4

-----------------------------------------------------------------------------
(***************************************************************************)
(* The steps of an arbiter.                                                *)
(***************************************************************************)

\* z asked arbiter v to give back a grant.
Backs(v, z, types) == \E r \in requests : r.from = z /\ r.to = v /\ r.type \in types

\* Arbiter v becomes b.  Nobody loses an outcome but by giving back, and where all is
\* granted or rejected it stays so unless a grant is given back as a neutral outcome.
Turn(v, b) ==
    /\ b \in Arbiter /\ ArbiterOK(b)
    /\ \A z \in Sides :
          /\ Live(arbiter[v], z) => Live(b, z) \/ Backs(v, z, {RevertToReject})
          /\ Owns(arbiter[v], z) => Owns(b, z) \/ Backs(v, z, RevertTypes)
    /\ /\ Compared /\ \A z \in Sides : arbiter[v].decision[z] \in {None, Grant, Reject}
       /\ ~ \E z \in Sides : Backs(v, z, {RevertToNeutral})
       => \A z \in Sides : b.decision[z] \in {None, Grant, Reject}

\* m is what arbiter v, which is now b, tells of its decision.
Tells(v, b, m) ==
    /\ m \in Reply /\ m.from = v /\ m.continuous = (v \in Continuous)
    /\ m.granted <=> b.decision[m.to] = Grant
    /\ m.rejected => b.decision[m.to] = Reject /\ m.kind = "reply"
    /\ ~m.rejected => b.decision[m.to] \in {Grant, Delay, Neutral}
    /\ m.kind = "delayed" => arbiter[v].decision[m.to] = Delay \/ Backs(v, Other(m.to), RevertTypes)

ArbiterTurn ==
    /\ \E v \in Votes : \E b :
          /\ Turn(v, b) /\ arbiter' = [arbiter EXCEPT ![v] = b]
          /\ \A m \in replies' : m \in replies \/ Tells(v, b, m)
    /\ requests' \subseteq requests /\ UNCHANGED <<lease, vote, op, calls>>

\* What x gets when it asks, and its peer then has.
LEMMA AskOK ==
    ASSUME NEW a \in Arbiter, ArbiterOK(a), ~a.restarted, NEW x \in Sides,
           NEW cont \in BOOLEAN, NEW type \in TwoWayTypes,
           NEW d \in AskOutcomes(type, cont, a.decision, x, Other(x))
    PROVE  LET e == a.decision
               y == Other(x)
           IN  /\ d \in [Sides -> Decisions] /\ d[x] # None
               /\ Agree(d[x], d[y]) /\ Agree(d[y], d[x])
               /\ d[y] # e[y] => e[y] = Delay /\ d[y] = Neutral
               /\ \A z \in Sides : e[z] = Grant => d[z] = Grant
               /\ \A z \in Sides : e[z] \in {Grant, Delay, Neutral} => d[z] \in {Grant, Delay, Neutral}
               /\ /\ type = TwoWaySimple \/ cont
                  /\ \A z \in Sides : e[z] \in {None, Grant, Reject}
                  => \A z \in Sides : d[z] \in {None, Grant, Reject}
<1> DEFINE e == a.decision
           y == Other(x)
<1>1. y \in Sides /\ y # x /\ Other(y) = x /\ Sides = {x, y}
  BY OtherOK
<1>2. e \in [Sides -> Decisions] /\ Agree(e[x], e[y]) /\ Agree(e[y], e[x])
  BY <1>1 DEF Arbiter, ArbiterOK
<1>3. d \in AskOutcomes(type, cont, e, x, y)
  OBVIOUS
<1> HIDE DEF e, y
<1>4. type # OneWay
  BY DEF TwoWayTypes, TwoWaySimple, TwoWayExtended, OneWay
<1>5. CASE e[y] # None
  <2>1. d = [e EXCEPT ![x] = AgainstPresent(type, e[y]), ![y] = SubjectAfterReport(@)]
    BY <1>3, <1>5 DEF AskOutcomes, IsPresent
  <2>2. d \in [Sides -> Decisions \cup {AgainstPresent(type, e[y]), SubjectAfterReport(e[y])}]
        /\ d[x] = AgainstPresent(type, e[y]) /\ d[y] = SubjectAfterReport(e[y])
    BY <1>1, <1>2, <2>1
  <2>3. AgainstPresent(type, e[y]) \in Decisions /\ SubjectAfterReport(e[y]) \in Decisions
    BY <1>1, <1>2 DEF AgainstPresent, SubjectAfterReport, Decisions
  <2>4. d \in [Sides -> Decisions]
    BY <2>2, <2>3
  <2>5. QED
    BY <1>1, <1>2, <1>4, <1>5, <2>2, <2>4
    DEF AgainstPresent, SubjectAfterReport, Agree, Decisions, None, Grant, Reject, Delay, Neutral, e, y
<1>6. CASE e[y] = None /\ e[x] # None
  <2>1. d = e
    BY <1>3, <1>4, <1>6 DEF AskOutcomes, IsPresent
  <2>2. QED
    BY <1>1, <1>2, <1>6, <2>1 DEF e, y
<1>7. CASE e[y] = None /\ e[x] = None
  <2>1. PICK c \in FirstVerdicts(type, cont) : d = [e EXCEPT ![x] = c]
    BY <1>3, <1>4, <1>7 DEF AskOutcomes, IsPresent
  <2>2. c \in {Grant, Reject, Delay} /\ (type = TwoWaySimple \/ cont => c \in {Grant, Reject})
    BY DEF FirstVerdicts, TwoWaySimple, TwoWayExtended
  <2>3. d \in [Sides -> Decisions] /\ d[x] = c /\ d[y] = e[y]
    BY <1>1, <1>2, <2>1, <2>2 DEF Decisions
  <2>4. QED
    BY <1>1, <1>7, <2>2, <2>3 DEF Agree, None, Grant, Reject, Delay, Neutral, e, y
<1>8. QED
  BY <1>5, <1>6, <1>7

\* An arbiter with new decisions.
LEMMA NewDecision ==
    ASSUME NEW a \in Arbiter, NEW d \in [Sides -> Decisions]
    PROVE  /\ [a EXCEPT !.decision = d] \in Arbiter
           /\ [a EXCEPT !.decision = d].decision = d
           /\ [a EXCEPT !.decision = d].strong = a.strong
           /\ [a EXCEPT !.decision = d].restarted = a.restarted
  BY DEF Arbiter

\* What the arbiter of a request replies.
LEMMA ReplyOK ==
    ASSUME NEW r \in Req, NEW b \in Arbiter, b.decision[r.from] # None
    PROVE  Tells(r.to, b, ReplyTo(r, b))
<1>1. Other(r.from) \in Sides
  BY OtherOK DEF Req
<1>2. b.decision[r.from] \in Decisions /\ b.strong[r.from] \in BOOLEAN
  BY DEF Arbiter, Req
<1>3. ReplyTo(r, b) \in Reply
  BY <1>1, <1>2 DEF ReplyTo, Reply, Req, IsPresent
<1>4. QED
  BY <1>2, <1>3 DEF Tells, ReplyTo, Decisions, None, Grant, Reject, Delay, Neutral

\* What it tells of an outcome that came late.
LEMMA DelayedReplyOK ==
    ASSUME NEW v \in Votes, NEW b \in Arbiter, NEW z \in Sides, NEW reported \in BOOLEAN,
           b.decision[z] \in {Grant, Delay, Neutral},
           arbiter[v].decision[z] = Delay \/ Backs(v, Other(z), RevertTypes)
    PROVE  Tells(v, b, DelayedReplyTo(z, v, b, reported))
<1>1. b.strong[z] \in BOOLEAN
  BY DEF Arbiter
<1>2. DelayedReplyTo(z, v, b, reported) \in Reply
  BY <1>1 DEF DelayedReplyTo, Reply
<1>3. QED
  BY <1>2 DEF Tells, DelayedReplyTo

\* A decision.
LEMMA DecideOK ==
    ASSUME IInv, Decide
    PROVE  ArbiterTurn
<1>1. PICK r \in requests :
         LET v == r.to
             x == r.from
             y == Other(x)
             a == arbiter[v]
             first == ~IsPresent(a.decision[x]) /\ ~IsPresent(a.decision[y])
             compared == first /\ FirstVerdicts(Type, v \in Continuous) = {Grant, Reject}
         IN  /\ \E d \in IF a.restarted THEN {[a.decision EXCEPT ![x] = Reject]}
                         ELSE AskOutcomes(Type, v \in Continuous, a.decision, x, y) :
                \E strong \in IF a.restarted \/ ~compared
                              THEN {a.strong[x] \/ (~a.restarted /\ IsPresent(a.decision[y]) /\ a.strong[y])}
                              ELSE BOOLEAN :
                 LET b == [a EXCEPT !.decision = d, !.strong = [@ EXCEPT ![x] = strong]]
                 IN  /\ arbiter' = [arbiter EXCEPT ![v] = b]
                     /\ replies' = replies \cup Answer(r, b)
                           \cup (IF d[y] # a.decision[y] THEN {DelayedReplyTo(y, v, b, TRUE)} ELSE {})
             /\ requests' = requests \ {r}
             /\ UNCHANGED <<lease, vote, op, calls, failures>>
  BY DEF Decide
<1> DEFINE v == r.to
           x == r.from
           y == Other(x)
           a == arbiter[v]
<1>2. /\ r \in Req /\ v \in Votes /\ x \in Sides
      /\ a \in Arbiter /\ ArbiterOK(a) /\ lease \in Leases
  BY DEF IInv, Types, Req
<1>3. y \in Sides /\ y # x /\ Other(y) = x /\ Sides = {x, y}
  BY <1>2, OtherOK
<1>4. requests' \subseteq requests /\ UNCHANGED <<lease, vote, op, calls>>
  BY <1>1
<1>5. PICK d, s :
         /\ d \in IF a.restarted THEN {[a.decision EXCEPT ![x] = Reject]}
                  ELSE AskOutcomes(Type, v \in Continuous, a.decision, x, y)
         /\ s \in BOOLEAN
         /\ arbiter' = [arbiter EXCEPT ![v] = [a EXCEPT !.decision = d, !.strong = [@ EXCEPT ![x] = s]]]
         /\ replies' = replies \cup Answer(r, [a EXCEPT !.decision = d, !.strong = [@ EXCEPT ![x] = s]])
               \cup (IF d[y] # a.decision[y]
                     THEN {DelayedReplyTo(y, v, [a EXCEPT !.decision = d, !.strong = [@ EXCEPT ![x] = s]], TRUE)}
                     ELSE {})
  <2> DEFINE first == ~IsPresent(a.decision[x]) /\ ~IsPresent(a.decision[y])
             compared == first /\ FirstVerdicts(Type, v \in Continuous) = {Grant, Reject}
             kept == a.strong[x] \/ (~a.restarted /\ IsPresent(a.decision[y]) /\ a.strong[y])
             strengths == IF a.restarted \/ ~compared THEN {kept} ELSE BOOLEAN
             nextArbiter(d, s) == [a EXCEPT !.decision = d, !.strong = [@ EXCEPT ![x] = s]]
  <2>1. kept \in BOOLEAN
    <3>1. a.strong[x] \in BOOLEAN /\ a.strong[y] \in BOOLEAN /\ a.restarted \in BOOLEAN
      BY <1>2, <1>3 DEF Arbiter
    <3>2. QED
      BY <3>1
  <2>2. PICK d \in IF a.restarted THEN {[a.decision EXCEPT ![x] = Reject]}
                   ELSE AskOutcomes(Type, v \in Continuous, a.decision, x, y),
             s \in strengths :
          /\ arbiter' = [arbiter EXCEPT ![v] = nextArbiter(d, s)]
          /\ replies' = replies \cup Answer(r, nextArbiter(d, s))
                \cup (IF d[y] # a.decision[y] THEN {DelayedReplyTo(y, v, nextArbiter(d, s), TRUE)} ELSE {})
    BY <1>1, Zenon
  <2>3. s \in BOOLEAN
    <3> HIDE DEF kept, compared
    <3>1. s \in {kept} \/ s \in BOOLEAN
      OBVIOUS
    <3>2. QED
      BY <2>1, <3>1
  <2> HIDE DEF strengths
  <2>4. QED
    BY <2>2, <2>3, Zenon
<1> DEFINE b == [a EXCEPT !.decision = d, !.strong = [a.strong EXCEPT ![x] = s]]
<1>6. /\ arbiter' = [arbiter EXCEPT ![v] = b]
      /\ replies' = replies \cup Answer(r, b)
            \cup (IF d[y] # a.decision[y] THEN {DelayedReplyTo(y, v, b, TRUE)} ELSE {})
  BY <1>5
<1>7. /\ d \in [Sides -> Decisions] /\ d[x] # None
      /\ Agree(d[x], d[y]) /\ Agree(d[y], d[x])
      /\ d[y] # a.decision[y] => a.decision[y] = Delay /\ d[y] = Neutral
      /\ \A z \in Sides : a.decision[z] = Grant => d[z] = Grant
      /\ \A z \in Sides : a.decision[z] \in {Grant, Delay, Neutral} => d[z] \in {Grant, Delay, Neutral}
      /\ a.restarted => \A z \in Sides : d[z] \in {None, Reject}
      /\ /\ Compared /\ \A z \in Sides : a.decision[z] \in {None, Grant, Reject}
         => \A z \in Sides : d[z] \in {None, Grant, Reject}
  <2>1. CASE a.restarted
    <3>1. a.decision \in [Sides -> Decisions] /\ \A z \in Sides : a.decision[z] \in {None, Reject}
      BY <1>2, <2>1 DEF ArbiterOK, Arbiter
    <3>2. d = [a.decision EXCEPT ![x] = Reject]
      BY <1>5, <2>1
    <3> HIDE DEF a, x, y
    <3>3. /\ d \in [Sides -> Decisions] /\ d[x] = Reject /\ d[y] = a.decision[y]
          /\ \A z \in Sides : d[z] \in {None, Reject}
      BY <1>2, <1>3, <3>1, <3>2 DEF Decisions
    <3>4. QED
      BY <1>3, <3>1, <3>3 DEF Agree, None, Reject, Grant, Delay, Neutral
  <2>2. CASE ~a.restarted
    <3>1. d \in AskOutcomes(Type, v \in Continuous, a.decision, x, y)
      BY <1>5, <2>2
    <3>2. Type \in TwoWayTypes /\ (v \in Continuous) \in BOOLEAN
          /\ (Compared => Type = TwoWaySimple \/ v \in Continuous)
      BY <1>2, LeaseOK DEF TwoWayTypes, TwoWaySimple, TwoWayExtended, Compared
    <3> DEFINE cont == v \in Continuous
    <3>3. cont \in BOOLEAN /\ d \in AskOutcomes(Type, cont, a.decision, x, Other(x))
      BY <3>1, <3>2
    <3> HIDE DEF a, x, cont
    <3>4. /\ d \in [Sides -> Decisions] /\ d[x] # None
          /\ Agree(d[x], d[y]) /\ Agree(d[y], d[x])
          /\ d[y] # a.decision[y] => a.decision[y] = Delay /\ d[y] = Neutral
          /\ \A z \in Sides : a.decision[z] = Grant => d[z] = Grant
          /\ \A z \in Sides : a.decision[z] \in {Grant, Delay, Neutral} => d[z] \in {Grant, Delay, Neutral}
          /\ /\ Type = TwoWaySimple \/ cont
             /\ \A z \in Sides : a.decision[z] \in {None, Grant, Reject}
             => \A z \in Sides : d[z] \in {None, Grant, Reject}
      BY <1>2, <2>2, <3>2, <3>3, AskOK
    <3>5. QED
      BY <2>2, <3>2, <3>4 DEF cont
  <2>3. QED
    BY <2>1, <2>2
<1>8. [a.strong EXCEPT ![x] = s] \in [Sides -> BOOLEAN]
  BY <1>2, <1>5 DEF Arbiter
<1>9. b \in Arbiter /\ b.decision = d /\ b.restarted = a.restarted
  <2> DEFINE strong == [a.strong EXCEPT ![x] = s]
  <2>1. strong \in [Sides -> BOOLEAN] /\ b = [a EXCEPT !.decision = d, !.strong = strong]
    BY <1>8
  <2>2. a \in Arbiter /\ d \in [Sides -> Decisions]
    BY <1>2, <1>7
  <2> HIDE DEF b, a, strong
  <2>3. QED
    BY <2>1, <2>2 DEF Arbiter
<1> HIDE DEF b
<1>10. Turn(v, b)
  <2>1. ArbiterOK(b)
    BY <1>3, <1>7, <1>9 DEF ArbiterOK
  <2>2. \A z \in Sides : (Live(a, z) => Live(b, z)) /\ (Owns(a, z) => Owns(b, z))
    BY <1>7, <1>9 DEF Live, Owns
  <2>3. QED
    BY <1>7, <1>9, <2>1, <2>2 DEF Turn
<1>11. ASSUME NEW m \in replies', m \notin replies
       PROVE  Tells(v, b, m)
  <2>1. CASE m = ReplyTo(r, b)
    BY <1>2, <1>7, <1>9, <2>1, ReplyOK
  <2>2. CASE d[y] # a.decision[y] /\ m = DelayedReplyTo(y, v, b, TRUE)
    <3>1. b.decision[y] \in {Grant, Delay, Neutral} /\ arbiter[v].decision[y] = Delay
      BY <1>7, <1>9, <2>2
    <3> HIDE DEF v, y
    <3>2. QED
      BY <1>2, <1>3, <1>9, <2>2, <3>1, DelayedReplyOK
  <2>3. QED
    BY <1>6, <1>11, <2>1, <2>2 DEF Answer
<1>12. QED
  BY <1>2, <1>4, <1>6, <1>10, <1>11 DEF ArbiterTurn

\* A grant is given back.
LEMMA HandleRevertOK ==
    ASSUME IInv, HandleRevert
    PROVE  ArbiterTurn
<1>1. PICK r \in requests :
         LET v == r.to
             y == Other(r.from)
             a == arbiter[v]
             b == [a EXCEPT !.decision = RevertOutcome(r.type, @, r.from, y)]
         IN  /\ r.type \in RevertTypes
             /\ arbiter' = [arbiter EXCEPT ![v] = b]
             /\ replies' = replies \cup (IF b.decision[y] # a.decision[y]
                                         THEN {DelayedReplyTo(y, v, b, TRUE)} ELSE {})
             /\ requests' = requests \ {r}
             /\ UNCHANGED <<lease, vote, op, calls, failures>>
  BY DEF HandleRevert
<1> DEFINE v == r.to
           x == r.from
           y == Other(x)
           a == arbiter[v]
           d == RevertOutcome(r.type, a.decision, x, y)
           b == [a EXCEPT !.decision = d]
<1>2. /\ r \in Req /\ v \in Votes /\ x \in Sides /\ r.type \in RevertTypes
      /\ a \in Arbiter /\ ArbiterOK(a)
  BY <1>1 DEF IInv, Types, Req
<1>3. y \in Sides /\ y # x /\ y = Other(x) /\ Other(y) = x /\ Sides = {x, y}
  BY <1>2, OtherOK
<1>4. requests' \subseteq requests /\ UNCHANGED <<lease, vote, op, calls>>
  BY <1>1
<1>5. /\ arbiter' = [arbiter EXCEPT ![v] = b]
      /\ replies' = replies \cup (IF b.decision[y] # a.decision[y]
                                  THEN {DelayedReplyTo(y, v, b, TRUE)} ELSE {})
  BY <1>1
<1>6. /\ a.decision \in [Sides -> Decisions]
      /\ Agree(a.decision[x], a.decision[y]) /\ Agree(a.decision[y], a.decision[x])
  BY <1>2, <1>3 DEF Arbiter, ArbiterOK
<1>7. CASE a.decision[x] # Grant
  <2>1. d = a.decision
    BY <1>7 DEF RevertOutcome
  <2>2. b \in Arbiter /\ b.decision = a.decision /\ b.restarted = a.restarted
    BY <1>2, <1>6, <2>1, NewDecision
  <2> HIDE DEF b, a
  <2>3. Turn(v, b)
    BY <1>2, <2>2 DEF Turn, ArbiterOK, Live, Owns, a
  <2>4. replies' = replies
    BY <1>5, <2>2
  <2>5. QED
    BY <1>2, <1>4, <1>5, <2>3, <2>4 DEF ArbiterTurn
<1>8. CASE a.decision[x] = Grant
  <2>1. ~a.restarted /\ a.decision[y] \in {None, Reject}
    BY <1>2, <1>6, <1>8 DEF ArbiterOK, Agree, None, Reject, Grant
  <2>2. d = [a.decision EXCEPT ![x] = RevertedMonitor(r.type),
                               ![y] = IF IsPresent(@) THEN RevertedSubject(r.type) ELSE @]
    BY <1>8 DEF RevertOutcome
  <2>3. /\ RevertedMonitor(r.type) = (IF r.type = RevertToNeutral THEN Neutral ELSE Reject)
        /\ RevertedSubject(r.type) = (IF r.type = RevertToNeutral THEN Neutral ELSE Grant)
    BY DEF RevertedMonitor, RevertedSubject
  <2> DEFINE p == RevertedMonitor(r.type)
             q == IF IsPresent(a.decision[y]) THEN RevertedSubject(r.type) ELSE a.decision[y]
  <2>4. d \in [Sides -> Decisions] /\ d[x] = p /\ d[y] = q
    <3>1. p \in Decisions /\ q \in Decisions
      BY <1>3, <1>6, <2>3 DEF Decisions
    <3>2. d = [a.decision EXCEPT ![x] = p, ![y] = q]
      BY <1>3, <1>6, <2>2
    <3> HIDE DEF d, a, p, q
    <3>3. QED
      BY <1>3, <1>6, <3>1, <3>2
  <2>5. b \in Arbiter /\ b.decision = d /\ b.restarted = a.restarted
    BY <1>2, <2>4, NewDecision
  <2>6. /\ d[y] = a.decision[y] \/ d[y] \in {Grant, Neutral}
        /\ Agree(d[x], d[y]) /\ Agree(d[y], d[x])
        /\ r.type # RevertToNeutral => d[x] = Reject /\ d[y] \in {None, Grant}
        /\ r.type = RevertToNeutral => d[x] = Neutral
    BY <2>1, <2>3, <2>4 DEF IsPresent, Agree, None, Grant, Reject, Delay, Neutral
  <2>7. Backs(v, x, RevertTypes) /\ Backs(v, x, {r.type})
    BY <1>2 DEF Backs
  <2> HIDE DEF b, d, a, v, x, y
  <2>8. Turn(v, b)
    <3>1. ArbiterOK(b)
      BY <1>3, <2>1, <2>5, <2>6 DEF ArbiterOK
    <3>2. \A z \in Sides : Live(a, z) => Live(b, z) \/ Backs(v, z, {RevertToReject})
      <4>1. Live(a, x) => Live(b, x) \/ Backs(v, x, {RevertToReject})
        BY <1>2, <2>5, <2>6, <2>7 DEF Live, RevertTypes
      <4>2. ~Live(a, y)
        BY <2>1 DEF Live, None, Reject, Grant, Delay, Neutral
      <4>3. QED
        BY <1>3, <4>1, <4>2
    <3>3. \A z \in Sides : Owns(a, z) => Owns(b, z) \/ Backs(v, z, RevertTypes)
      <4>1. ~Owns(a, y)
        BY <2>1 DEF Owns, None, Reject, Grant
      <4>2. QED
        BY <1>3, <2>7, <4>1
    <3>4. ASSUME ~ \E z \in Sides : Backs(v, z, {RevertToNeutral})
          PROVE  \A z \in Sides : b.decision[z] \in {None, Grant, Reject}
      <4>1. r.type # RevertToNeutral
        BY <1>2, <2>7, <3>4
      <4>2. QED
        BY <1>3, <2>5, <2>6, <4>1
    <3>5. a = arbiter[v]
      BY DEF a, v
    <3>6. QED
      BY <2>5, <3>1, <3>2, <3>3, <3>4, <3>5 DEF Turn
  <2>9. ASSUME NEW m \in replies', m \notin replies
        PROVE  Tells(v, b, m)
    <3>1. b.decision[y] # a.decision[y] /\ m = DelayedReplyTo(y, v, b, TRUE)
      BY <1>5, <2>9 DEF a, v, y, x
    <3>2. b.decision[y] \in {Grant, Delay, Neutral}
      BY <2>5, <2>6, <3>1
    <3>3. QED
      BY <1>2, <1>3, <2>5, <2>7, <3>1, <3>2, DelayedReplyOK
  <2>10. v \in Votes /\ arbiter' = [arbiter EXCEPT ![v] = b]
    BY <1>2, <1>5
  <2>11. QED
    BY <1>4, <2>8, <2>9, <2>10 DEF ArbiterTurn
<1>9. QED
  BY <1>7, <1>8

\* A delay ends.
LEMMA GrantDelayedOK ==
    ASSUME IInv, GrantDelayed
    PROVE  ArbiterTurn
<1>1. PICK v \in Votes, x \in Sides :
         LET b == [arbiter[v] EXCEPT !.decision = [@ EXCEPT ![x] = Grant]]
         IN  /\ arbiter[v].decision[x] = Delay
             /\ arbiter' = [arbiter EXCEPT ![v] = b]
             /\ replies' = replies \cup {DelayedReplyTo(x, v, b, FALSE)}
             /\ UNCHANGED <<lease, vote, op, requests, calls, failures>>
  BY DEF GrantDelayed
<1> DEFINE y == Other(x)
           a == arbiter[v]
           d == [a.decision EXCEPT ![x] = Grant]
           b == [a EXCEPT !.decision = d]
<1>2. a \in Arbiter /\ ArbiterOK(a) /\ a.decision[x] = Delay
  BY <1>1 DEF IInv, Types
<1>3. y \in Sides /\ y # x /\ y = Other(x) /\ Other(y) = x /\ Sides = {x, y}
  BY OtherOK
<1>4. a.decision \in [Sides -> Decisions] /\ a.decision[y] = None /\ ~a.restarted
  BY <1>2, <1>3 DEF Arbiter, ArbiterOK, Agree, None, Reject, Delay
<1>5. d \in [Sides -> Decisions] /\ d[x] = Grant /\ d[y] = None
  BY <1>3, <1>4 DEF Decisions
<1>6. b \in Arbiter /\ b.decision = d /\ b.restarted = a.restarted
  BY <1>2, <1>5, NewDecision
<1>7. /\ arbiter' = [arbiter EXCEPT ![v] = b] /\ replies' = replies \cup {DelayedReplyTo(x, v, b, FALSE)}
      /\ requests' \subseteq requests /\ UNCHANGED <<lease, vote, op, calls>>
  BY <1>1
<1> HIDE DEF b, d, y
<1>8. Turn(v, b)
  <2>1. ArbiterOK(b)
    BY <1>3, <1>4, <1>5, <1>6 DEF ArbiterOK, Agree, None, Grant, Reject, Delay, Neutral
  <2>2. \A z \in Sides : (Live(a, z) => Live(b, z)) /\ (Owns(a, z) => Owns(b, z))
    BY <1>2, <1>3, <1>4, <1>5, <1>6 DEF Live, Owns, None, Grant, Delay, Neutral
  <2>3. ~(a.decision[x] \in {None, Grant, Reject})
    BY <1>2 DEF None, Grant, Reject, Delay
  <2>4. QED
    BY <1>6, <2>1, <2>2, <2>3 DEF Turn
<1>9. Tells(v, b, DelayedReplyTo(x, v, b, FALSE))
  BY <1>2, <1>5, <1>6, DelayedReplyOK
<1>10. QED
  BY <1>7, <1>8, <1>9 DEF ArbiterTurn

\* An arbiter that restarts has no decisions.
LEMMA RestartOK ==
    ASSUME IInv, RestartArbiter
    PROVE  ArbiterTurn
<1>1. PICK v \in Votes :
         /\ arbiter' = [arbiter EXCEPT ![v] = FreshArbiter(TRUE)]
         /\ UNCHANGED <<lease, vote, op, requests, calls, replies>>
  BY DEF RestartArbiter
<1> DEFINE b == FreshArbiter(TRUE)
<1>2. b \in Arbiter /\ b.restarted /\ \A z \in Sides : b.decision[z] = None
  BY DEF FreshArbiter, Arbiter, Decisions
<1> HIDE DEF b
<1>3. ArbiterOK(b)
  BY <1>2, OtherOK DEF ArbiterOK, Agree, None, Grant, Delay, Neutral
<1>4. Turn(v, b)
  BY <1>2, <1>3 DEF Turn, Live, Owns
<1>5. QED
  BY <1>1, <1>4 DEF ArbiterTurn, b

\* Every step of an arbiter.
LEMMA ArbiterStepOK ==
    ASSUME IInv, ArbiterStep
    PROVE  ArbiterTurn
  BY DecideOK, HandleRevertOK, GrantDelayedOK, RestartOK DEF ArbiterStep

\* Who gives back has decided to, and has nothing left of what it gives back as a
\* rejection.
LEMMA BacksOK ==
    ASSUME IInv, NEW z \in Sides, NEW v \in Votes
    PROVE  /\ Backs(v, z, RevertTypes) => ~Keeps(z)
           /\ Backs(v, z, {RevertToReject}) => op[z].revert = RevertToReject /\ ~Share(z, v)
<1>1. lease \in Leases /\ \A r \in requests : RequestOK(r)
  BY DEF IInv, Types
<1>2. \A r \in requests : r.from = z /\ r.to = v /\ r.type \in RevertTypes =>
         /\ op[z].revert = r.type /\ vote[z][v].reverted
         /\ r.type = RevertToReject => ~vote[z][v].safe
  BY <1>1 DEF RequestOK
<1>3. Backs(v, z, RevertTypes) => ~Keeps(z)
  BY <1>1, <1>2, LeaseOK DEF Backs, Keeps, RevertTypes
<1>4. Backs(v, z, {RevertToReject}) => op[z].revert = RevertToReject /\ ~Share(z, v)
  BY <1>2 DEF Backs, RevertTypes, Share
<1>5. QED
  BY <1>3, <1>4

\* An arbiter that gives one side something gives the other nothing.
LEMMA ArbiterExcludes ==
    ASSUME NEW a, ArbiterOK(a), NEW z \in Sides
    PROVE  /\ Live(a, z) => a.decision[Other(z)] # Grant
           /\ Owns(a, z) => ~(a.decision[Other(z)] \in {Grant, Delay, Neutral})
  BY OtherOK DEF ArbiterOK, Agree, Live, Owns, None, Grant, Reject, Delay, Neutral

\* What a step of an arbiter changes, for every arbiter and side.
LEMMA TurnFrame ==
    ASSUME IInv, ArbiterTurn
    PROVE  /\ arbiter' \in [Votes -> Arbiter]
           /\ \A v \in Votes : ArbiterOK(arbiter'[v])
           /\ replies' \subseteq Reply /\ \A m \in replies' : m.rejected => ~m.granted /\ m.kind = "reply"
           /\ \A v \in Votes, z \in Sides :
                 /\ Live(arbiter[v], z) => Live(arbiter'[v], z) \/ Backs(v, z, {RevertToReject})
                 /\ Owns(arbiter[v], z) => Owns(arbiter'[v], z) \/ Backs(v, z, RevertTypes)
                 /\ Hold(z, v)' => Hold(z, v) \/ arbiter'[v].decision[z] = Grant
                 /\ Share(z, v)' => Share(z, v) \/ arbiter'[v].decision[z] \in {Grant, Delay, Neutral}
<1>1. PICK v, b :
         /\ v \in Votes
         /\ Turn(v, b) /\ arbiter' = [arbiter EXCEPT ![v] = b]
         /\ \A m \in replies' : m \in replies \/ Tells(v, b, m)
  BY DEF ArbiterTurn
<1>2. /\ arbiter \in [Votes -> Arbiter] /\ \A u \in Votes : ArbiterOK(arbiter[u])
      /\ replies \subseteq Reply /\ \A m \in replies : m.rejected => ~m.granted /\ m.kind = "reply"
  BY DEF IInv, Types
<1>3. /\ b \in Arbiter /\ ArbiterOK(b)
      /\ \A z \in Sides :
            /\ Live(arbiter[v], z) => Live(b, z) \/ Backs(v, z, {RevertToReject})
            /\ Owns(arbiter[v], z) => Owns(b, z) \/ Backs(v, z, RevertTypes)
  BY <1>1 DEF Turn
<1>4. /\ arbiter' \in [Votes -> Arbiter] /\ arbiter'[v] = b
      /\ \A u \in Votes \ {v} : arbiter'[u] = arbiter[u]
  BY <1>1, <1>2, <1>3
<1>5. \A m \in replies' :
         m \in replies \/ /\ m \in Reply /\ m.from = v
                          /\ m.granted => b.decision[m.to] = Grant
                          /\ m.rejected => b.decision[m.to] = Reject /\ m.kind = "reply"
                          /\ ~m.rejected => b.decision[m.to] \in {Grant, Delay, Neutral}
  BY <1>1 DEF Tells
<1>6. UNCHANGED vote
  BY DEF ArbiterTurn
<1>7. ASSUME NEW u \in Votes, NEW z \in Sides
      PROVE  /\ Hold(z, u)' => Hold(z, u) \/ arbiter'[u].decision[z] = Grant
             /\ Share(z, u)' => Share(z, u) \/ arbiter'[u].decision[z] \in {Grant, Delay, Neutral}
  BY <1>4, <1>5, <1>6 DEF Hold, Share
<1>8. replies' \subseteq Reply /\ \A m \in replies' : m.rejected => ~m.granted /\ m.kind = "reply"
  BY <1>2, <1>5 DEF Grant, Reject
<1>9. \A u \in Votes : ArbiterOK(arbiter'[u])
  BY <1>2, <1>3, <1>4
<1>10. \A u \in Votes, z \in Sides :
          /\ Live(arbiter[u], z) => Live(arbiter'[u], z) \/ Backs(u, z, {RevertToReject})
          /\ Owns(arbiter[u], z) => Owns(arbiter'[u], z) \/ Backs(u, z, RevertTypes)
  BY <1>3, <1>4
<1>11. QED
  BY <1>4, <1>7, <1>8, <1>9, <1>10

\* The invariant after a step of an arbiter.
LEMMA ArbiterTurnInv ==
    ASSUME IInv, ArbiterTurn
    PROVE  IInv'
<1>1. requests' \subseteq requests /\ UNCHANGED <<lease, vote, op, calls>>
  BY DEF ArbiterTurn
<1>2. /\ arbiter' \in [Votes -> Arbiter] /\ \A v \in Votes : ArbiterOK(arbiter'[v])
      /\ replies' \subseteq Reply /\ \A m \in replies' : m.rejected => ~m.granted /\ m.kind = "reply"
      /\ \A v \in Votes, z \in Sides :
            /\ Live(arbiter[v], z) => Live(arbiter'[v], z) \/ Backs(v, z, {RevertToReject})
            /\ Owns(arbiter[v], z) => Owns(arbiter'[v], z) \/ Backs(v, z, RevertTypes)
            /\ Hold(z, v)' => Hold(z, v) \/ arbiter'[v].decision[z] = Grant
            /\ Share(z, v)' => Share(z, v) \/ arbiter'[v].decision[z] \in {Grant, Delay, Neutral}
  BY TurnFrame
<1>3. Types'
  BY <1>1, <1>2 DEF IInv, Types
<1>4. \A r \in requests' \cup calls' : RequestOK(r)'
  BY <1>1 DEF IInv, RequestOK
<1>5. ASSUME NEW x \in Sides
      PROVE  Exclusive(x)' /\ LocalHolds(x)' /\ WonHolds(x)' /\ OneVerdict(x)'
  <2> DEFINE y == Other(x)
  <2>1. y \in Sides /\ Other(y) = x
    BY OtherOK
  <2>2. Exclusive(x) /\ LocalHolds(x) /\ WonHolds(x) /\ OneVerdict(x)
    BY DEF IInv
  <2>3. Keeps(x)' <=> Keeps(x)
    BY <1>1 DEF Keeps, Type
  <2>4. \A v \in Votes :
           /\ Live(arbiter'[v], y) => arbiter'[v].decision[x] # Grant
           /\ Owns(arbiter'[v], x) => ~(arbiter'[v].decision[y] \in {Grant, Delay, Neutral})
    BY <1>2, <2>1, ArbiterExcludes
  <2>5. \A v \in Votes : Keeps(x) /\ Owns(arbiter[v], x) => Owns(arbiter'[v], x)
    BY <1>2, BacksOK
  <2>6. \A v \in Votes : Live(arbiter[v], y) /\ (Share(y, v) \/ op[y].revert # RevertToReject)
                            => Live(arbiter'[v], y)
    BY <1>2, <2>1, BacksOK
  <2> HIDE DEF y
  <2>7. Exclusive(x)'
    <3>1. SUFFICES ASSUME Keeps(x), NEW v \in Votes
                   PROVE  /\ Hold(x, v)' => Owns(arbiter'[v], x)
                          /\ Share(y, v)' => ~Hold(x, v)' /\ Live(arbiter'[v], y)
      BY <2>3 DEF Exclusive, Grants, Withholds, y
    <3>2. /\ Hold(x, v) => Owns(arbiter[v], x)
          /\ Share(y, v) => ~Hold(x, v) /\ Live(arbiter[v], y)
      BY <2>2, <3>1 DEF Exclusive, Grants, Withholds, y
    <3>3. Hold(x, v)' => Owns(arbiter'[v], x)
      BY <1>2, <2>5, <3>1, <3>2 DEF Owns
    <3>4. Share(y, v)' => Live(arbiter'[v], y)
      BY <1>2, <2>1, <2>6, <3>2 DEF Live
    <3>5. ASSUME Share(y, v)', Hold(x, v)'
          PROVE  FALSE
      <4>1. arbiter'[v].decision[x] # Grant /\ ~(arbiter'[v].decision[y] \in {Grant, Delay, Neutral})
        BY <2>4, <3>3, <3>4, <3>5
      <4>2. Share(y, v) /\ Hold(x, v)
        BY <1>2, <2>1, <3>5, <4>1
      <4>3. QED
        BY <3>2, <4>2
    <3>6. QED
      BY <3>3, <3>4, <3>5
  <2>8. LocalHolds(x)'
    <3>1. SUFFICES ASSUME Keeps(x), op[y].local, op[y].revert # RevertToReject
                   PROVE  \E Q : Majority(Q) /\ \A v \in Q : ~Hold(x, v)' /\ Live(arbiter'[v], y)
      BY <1>1, <2>3 DEF LocalHolds, Withholds, Majority, y
    <3>2. PICK Q : Majority(Q) /\ \A v \in Q : ~Hold(x, v) /\ Live(arbiter[v], y)
      BY <2>2, <3>1 DEF LocalHolds, Withholds, y
    <3>3. \A v \in Q : Live(arbiter'[v], y)
      BY <2>6, <3>1, <3>2 DEF Majority
    <3>4. \A v \in Q : ~Hold(x, v)'
      BY <1>2, <2>4, <3>2, <3>3 DEF Majority
    <3>5. QED
      BY <3>2, <3>3, <3>4
  <2>9. WonHolds(x)'
    <3>1. SUFFICES ASSUME op[x].remoteDown
                   PROVE  /\ Keeps(x) /\ op[x].completed /\ op[x].local
                          /\ \E Q : Majority(Q) /\ \A v \in Q : ~Share(y, v)' /\ Owns(arbiter'[v], x)
      BY <1>1, <2>3 DEF WonHolds, Grants, Majority, y
    <3>2. /\ Keeps(x) /\ op[x].completed /\ op[x].local
          /\ \E Q : Majority(Q) /\ \A v \in Q : ~Share(y, v) /\ Owns(arbiter[v], x)
      BY <2>2, <3>1 DEF WonHolds, Grants, y
    <3>3. PICK Q : Majority(Q) /\ \A v \in Q : ~Share(y, v) /\ Owns(arbiter[v], x)
      BY <3>2
    <3>4. \A v \in Q : Owns(arbiter'[v], x)
      BY <2>5, <3>2, <3>3 DEF Majority
    <3>5. \A v \in Q : ~Share(y, v)'
      BY <1>2, <2>1, <2>4, <3>3, <3>4 DEF Majority
    <3>6. QED
      BY <3>2, <3>3, <3>4, <3>5
  <2>10. OneVerdict(x)'
    BY <1>1, <2>2 DEF OneVerdict
  <2>11. QED
    BY <2>7, <2>8, <2>9, <2>10
<1>6. /\ \A x \in Sides, v \in Votes : VoteOK(vote'[x][v])
      /\ \A x \in Sides : op'[x].local <=> op'[x].partial
  BY <1>1 DEF IInv
<1>7. QED
  BY <1>2, <1>3, <1>4, <1>5, <1>6 DEF IInv

-----------------------------------------------------------------------------
(***************************************************************************)
(* The steps of a side.                                                    *)
(***************************************************************************)

\* How CheckState may change the operation o, with votes w.  It gives back nothing as a
\* rejection once the side may live.
OperationTurn(w, o, p) ==
    /\ p \in Operation
    /\ o.revert \in RevertTypes => p.revert = o.revert
    /\ p.revert = Type => o.revert = Type
    /\ p.local <=> p.partial
    /\ o.local => p.local /\ (p.revert = RevertToReject => o.revert = RevertToReject)
    /\ p.local /\ ~o.local => Majority({v \in Votes : w[v].answered /\ w[v].safe})
    /\ p.remoteDown =>
          /\ p.completed /\ p.local /\ (o.revert = Type => p.revert = Type)
          /\ ~o.remoteDown => p.revert = Type /\ Majority({v \in Votes : w[v].granted})

\* The operation after CheckState.
LEMMA CheckStateOK ==
    ASSUME lease \in Leases, NEW x \in Sides, NEW w \in [Votes -> Vote],
           \A v \in Votes : VoteOK(w[v]),
           NEW o \in Operation, o.local <=> o.partial, o.remoteDown => o.completed /\ o.local,
           NEW late \in BOOLEAN, NEW ends \in BOOLEAN
    PROVE  OperationTurn(w, o, CheckState(x, o, Tally(w), late, ends))
<1> DEFINE t == Tally(w)
           p == CheckState(x, o, t, late, ends)
           A == {v \in Votes : w[v].answered /\ w[v].safe}
           G == {v \in Votes : w[v].granted}
           rc == RevertChoice(x, o, t, late)
           revert == IF ~LocalGranted(t) /\ t.reject - (IF CanRetry(t) THEN t.retryable ELSE 0) >= Quorum
                        /\ rc \in TwoWayTypes
                     THEN RevertToReject ELSE rc
           settled == LocalGranted(t) /\ (rc # Type \/ t.reject + t.neutral - t.delay >= Quorum)
           won == LocalGranted(t) /\ ~settled /\ t.grant >= Quorum
<1> SUFFICES OperationTurn(w, o, p)
  OBVIOUS
<1>1. /\ Type \in {TwoWaySimple, TwoWayExtended}
      /\ Type # RevertToReject /\ Type # RevertToNeutral /\ Type \notin RevertTypes
  BY LeaseOK DEF TwoWaySimple, TwoWayExtended, RevertTypes
<1>2. LocalGranted(t) => Majority(A)
  <2>1. t.grant + t.neutral = Cardinality(A)
    BY TallyOK
  <2>2. QED
    BY <2>1 DEF LocalGranted, Majority
<1>3. t.grant >= Quorum => Majority(G)
  <2>1. t.grant = Cardinality({v \in Votes : w[v].answered /\ w[v].safe /\ w[v].granted})
    BY TallyOK
  <2>2. {v \in Votes : w[v].answered /\ w[v].safe /\ w[v].granted} = G
    BY DEF VoteOK
  <2>3. QED
    BY <2>1, <2>2 DEF Majority
<1>4. /\ LocalGranted(t) \in BOOLEAN /\ CanRetry(t) \in BOOLEAN /\ settled \in BOOLEAN /\ won \in BOOLEAN
  BY DEF LocalGranted, CanRetry
<1> HIDE DEF t, A, G
<1>5. /\ rc \in {o.revert, RevertToNeutral, RevertToReject}
      /\ o.revert # Type => rc = o.revert
      /\ rc = RevertToReject => o.revert = RevertToReject \/ ~LocalGranted(t)
  <2>1. rc = o.revert \/ (o.revert = Type /\ rc = RevertToNeutral)
           \/ (o.revert = Type /\ rc = RevertToReject /\ ~LocalGranted(t))
    BY DEF RevertChoice
  <2>2. QED
    BY <1>1, <2>1 DEF RevertToNeutral, RevertToReject
<1> HIDE DEF rc
<1>6. CASE o.completed
  <2>1. p = o
    BY <1>6 DEF CheckState
  <2> HIDE DEF p
  <2>2. QED
    BY <2>1 DEF OperationTurn
<1>7. CASE ~o.completed /\ ~LocalGranted(t) /\ o.partial
  <2>1. p = [o EXCEPT !.assertFailed = TRUE]
    BY <1>7 DEF CheckState
  <2> HIDE DEF p
  <2>2. /\ p \in Operation /\ p.revert = o.revert /\ p.local = o.local /\ p.partial = o.partial
        /\ p.remoteDown = o.remoteDown /\ p.completed = o.completed
    BY <2>1 DEF Operation
  <2>3. QED
    BY <2>2 DEF OperationTurn
<1>8. CASE ~o.completed /\ ~(~LocalGranted(t) /\ o.partial)
  <2>1. \E lost \in BOOLEAN :
           p = [o EXCEPT !.revert = revert, !.canRetry = CanRetry(t),
                         !.local = @ \/ LocalGranted(t), !.partial = @ \/ LocalGranted(t),
                         !.remoteDown = won, !.completed = settled \/ won \/ lost \/ ends]
    BY <1>8 DEF CheckState, rc
  <2>2. revert \in TwoWayTypes \cup RevertTypes
    BY <1>5 DEF Operation, RevertTypes
  <2> HIDE DEF p, revert, settled, won
  <2>3. /\ p \in Operation /\ p.revert = revert /\ p.local = (o.local \/ LocalGranted(t))
        /\ p.partial = (o.partial \/ LocalGranted(t)) /\ p.remoteDown = won
        /\ (won => p.completed)
    BY <1>4, <2>1, <2>2 DEF Operation
  <2>4. /\ o.revert \in RevertTypes => revert = o.revert
        /\ revert = Type => o.revert = Type
        /\ LocalGranted(t) => revert = rc
    BY <1>1, <1>5 DEF revert, RevertTypes, TwoWayTypes, TwoWaySimple, TwoWayExtended,
                      RevertToReject, RevertToNeutral
  <2>5. o.local => LocalGranted(t)
    BY <1>8
  <2>6. won => LocalGranted(t) /\ rc = Type /\ t.grant >= Quorum
    BY DEF won, settled
  <2>7. QED
    BY <1>2, <1>3, <1>5, <2>3, <2>4, <2>5, <2>6 DEF OperationTurn, A, G
<1>9. QED
  BY <1>6, <1>7, <1>8

\* w are the votes of x with one reply counted.
Counted(x, w) ==
    /\ w \in [Votes -> Vote]
    /\ \A v \in Votes :
          /\ VoteOK(w[v])
          /\ w[v].granted => Hold(x, v)
          /\ w[v].answered /\ w[v].safe => Share(x, v)
          /\ w[v].reverted <=> vote[x][v].reverted
          /\ w[v].reverted /\ ~vote[x][v].safe => ~w[v].safe

\* What a step of x may change: its operation, its votes, what it asks for.
SideTurn(x) ==
    /\ \E p : /\ op' = [op EXCEPT ![x] = p]
              /\ \E w \in [Votes -> Vote] : OperationTurn(w, op[x], p) /\ Counted(x, w)
    /\ \E w \in [Votes -> Vote] :
          /\ vote' = [vote EXCEPT ![x] = w]
          /\ \A v \in Votes :
                /\ VoteOK(w[v])
                /\ w[v].granted => Hold(x, v)
                /\ w[v].answered /\ w[v].safe => Share(x, v)
                /\ vote[x][v].reverted => w[v].reverted /\ (~vote[x][v].safe => ~w[v].safe)
    /\ \A r \in requests' \cup calls' :
          r \in requests \cup calls \/ (r \in Req /\ r.from = x /\ RequestOK(r)')
    /\ replies' \subseteq replies /\ UNCHANGED <<lease, arbiter>>

\* A vote that is given back or asked again.
LEMMA VoteTurns ==
    ASSUME NEW w \in Vote, VoteOK(w), NEW type
    PROVE  /\ Asked(w) \in Vote /\ VoteOK(Asked(w)) /\ Asked(w).reverted = w.reverted
           /\ Asked(w).granted = w.granted /\ Asked(w).answered = w.answered /\ Asked(w).safe = w.safe
           /\ Asked(w).continuous = w.continuous /\ Asked(w).pending
           /\ Reverted(w, type) \in Vote /\ VoteOK(Reverted(w, type)) /\ Reverted(w, type).reverted
           /\ ~Reverted(w, type).granted
           /\ Reverted(w, type).safe => w.safe /\ type # RevertToReject
           /\ Reverted(w, type).answered = w.answered /\ Reverted(w, type).continuous = w.continuous
<1>1. w.count + 1 \in Nat
  BY DEF Vote
<1>2. QED
  BY <1>1 DEF Asked, Reverted, Vote, VoteOK

\* CheckState and GenerationActions.
LEMMA RunOK ==
    ASSUME IInv, NEW x \in Sides, NEW w, Counted(x, w), NEW due, NEW late \in BOOLEAN,
           NEW ends \in BOOLEAN, NEW otherCalls, otherCalls \subseteq calls,
           RunStateMachine(x, w, due, late, ends, otherCalls),
           replies' \subseteq replies, UNCHANGED <<lease, arbiter>>
    PROVE  SideTurn(x)
<1> DEFINE p == CheckState(x, op[x], Tally(w), late, ends)
           R == ToRevert(p, w)
           K == ToAsk(p, w, due)
           new == {Request(x, v, w, p.revert) : v \in R} \cup {Request(x, v, w, Type) : v \in K}
           u == [v \in Votes |-> CASE v \in R -> Reverted(w[v], p.revert)
                                   [] v \in K -> Asked(w[v])
                                   [] OTHER -> w[v]]
<1>1. /\ op' = [op EXCEPT ![x] = p] /\ vote' = [vote EXCEPT ![x] = u]
      /\ requests' = requests \cup new
      /\ calls' = otherCalls \cup {r \in new : IsCall(r)}
  BY DEF RunStateMachine
<1>2. /\ w \in [Votes -> Vote] /\ \A v \in Votes : VoteOK(w[v])
      /\ op[x] \in Operation /\ lease \in Leases
      /\ op[x].local <=> op[x].partial
      /\ op[x].remoteDown => op[x].completed /\ op[x].local
  BY DEF Counted, IInv, Types, WonHolds
<1>3. OperationTurn(w, op[x], p)
  BY <1>2, CheckStateOK
<1>4. R \subseteq Votes /\ K \subseteq Votes \ R /\ \A v \in R : p.revert # Type
  BY DEF ToRevert, ToAsk
<1> HIDE DEF p, R, K
<1>5. \A v \in Votes :
         /\ u[v] \in Vote /\ VoteOK(u[v])
         /\ u[v].granted => w[v].granted
         /\ u[v].answered /\ u[v].safe => w[v].answered /\ w[v].safe
         /\ w[v].reverted => u[v].reverted
         /\ u[v].safe => w[v].safe
         /\ v \in R => u[v].reverted /\ (p.revert = RevertToReject => ~u[v].safe)
  <2> TAKE v \in Votes
  <2>1. w[v] \in Vote /\ VoteOK(w[v])
    BY <1>2
  <2>2. CASE v \in R
    <3>1. u[v] = Reverted(w[v], p.revert)
      BY <1>4, <2>2
    <3> HIDE DEF u
    <3>2. QED
      BY <2>1, <3>1, VoteTurns
  <2>3. CASE v \notin R /\ v \in K
    <3>1. u[v] = Asked(w[v])
      BY <2>3
    <3> HIDE DEF u
    <3>2. QED
      BY <2>1, <2>3, <3>1, VoteTurns
  <2>4. CASE v \notin R /\ v \notin K
    <3>1. u[v] = w[v]
      BY <2>4
    <3> HIDE DEF u
    <3>2. QED
      BY <2>1, <2>4, <3>1
  <2>5. QED
    BY <2>2, <2>3, <2>4
<1>6. u \in [Votes -> Vote]
  BY <1>5
<1> HIDE DEF u
<1>7. op'[x] = p /\ vote'[x] = u
  BY <1>1 DEF IInv, Types
<1>8. ASSUME NEW r \in new
      PROVE  r \in Req /\ r.from = x /\ RequestOK(r)'
  <2>1. Type \in TwoWayTypes /\ Type \notin RevertTypes /\ p.revert \in TwoWayTypes \cup RevertTypes
    BY <1>2, <1>3, LeaseOK DEF OperationTurn, Operation, TwoWayTypes, TwoWaySimple, TwoWayExtended,
                               RevertTypes, RevertToReject, RevertToNeutral
  <2>2. \A v \in Votes : w[v].count + 1 \in Nat
    BY <1>2 DEF Vote
  <2>3. PICK v \in R \cup K : r = Request(x, v, w, IF v \in R THEN p.revert ELSE Type)
    BY <1>4
  <2>4. r \in Req /\ r.from = x /\ r.to = v /\ r.type = IF v \in R THEN p.revert ELSE Type
    BY <1>4, <2>1, <2>2, <2>3 DEF Request, Req
  <2>5. r.type \in RevertTypes => v \in R /\ r.type = p.revert
    BY <2>1, <2>4
  <2>6. QED
    BY <1>4, <1>5, <1>7, <2>4, <2>5 DEF RequestOK
<1> HIDE DEF new
<1>9. \A r \in requests' \cup calls' :
         r \in requests \cup calls \/ (r \in Req /\ r.from = x /\ RequestOK(r)')
  BY <1>1, <1>8
<1>10. \A v \in Votes :
          /\ u[v].granted => Hold(x, v)
          /\ u[v].answered /\ u[v].safe => Share(x, v)
          /\ vote[x][v].reverted => u[v].reverted /\ (~vote[x][v].safe => ~u[v].safe)
  BY <1>5 DEF Counted
<1>11. QED
  BY <1>1, <1>2, <1>3, <1>5, <1>6, <1>9, <1>10 DEF SideTurn

\* The same, when all arbiters know the same of the lease.
EvenVotes(x, w) ==
    /\ Counted(x, w)
    /\ Compared =>
          /\ \A v \in Votes : Even(w[v])
          /\ Keeps(Other(x)) =>
                /\ \A v \in Votes : w[v].granted => ~w[v].pending
                /\ \E a : \A v \in Votes \ {a} : w[v].granted => vote[x][v].granted
    /\ Unknown => \A v \in Votes : ~w[v].continuous

EvenTurn(x) ==
    /\ Compared =>
          /\ op'[x].revert # RevertToNeutral /\ \A v \in Votes : Even(vote'[x][v])
          /\ Keeps(Other(x)) => GivesBack(x)'
    /\ Unknown =>
          /\ op'[x].revert = RevertToReject => op'[x].completed /\ ~op'[x].local
          /\ \A v \in Votes : ~vote'[x][v].continuous
    /\ Unstarted(x)' /\ op'[x].revert \in {Type} \cup RevertTypes

\* When CheckState gives back the grants among the votes w.
Reverting(w, o, p) ==
    LET t == Tally(w)
    IN  /\ p.started = o.started /\ p.revert \in {o.revert} \cup RevertTypes
        /\ o.completed => p = o
        /\ p.revert = RevertToNeutral => o.revert = p.revert \/ (CanCoexist(t) /\ t.grant > 0)
        /\ p.revert = RevertToReject /\ ~o.completed =>
              /\ ~o.local => ~p.assertFailed
              /\ ~LocalGranted(t) => (p.local => o.local)
              /\ o.revert # RevertToReject =>
                    /\ ~o.local /\ ~LocalGranted(t)
                    /\ p.completed \/ (t.grant > 0 /\ ~CanCoexist(t))

LEMMA CheckStateReverts ==
    ASSUME lease \in Leases, NEW x \in Sides, NEW w \in [Votes -> Vote],
           \A v \in Votes : VoteOK(w[v]),
           NEW o \in Operation, o.local <=> o.partial, ~o.assertFailed,
           NEW late \in BOOLEAN, NEW ends \in BOOLEAN
    PROVE  Reverting(w, o, CheckState(x, o, Tally(w), late, ends))
<1> DEFINE t == Tally(w)
           p == CheckState(x, o, t, late, ends)
           rc == RevertChoice(x, o, t, late)
           lost == ~LocalGranted(t) /\ t.reject - (IF CanRetry(t) THEN t.retryable ELSE 0) >= Quorum
           revert == IF lost /\ rc \in TwoWayTypes THEN RevertToReject ELSE rc
           settled == LocalGranted(t) /\ (rc # Type \/ t.reject + t.neutral - t.delay >= Quorum)
           won == LocalGranted(t) /\ ~settled /\ t.grant >= Quorum
<1>1. /\ Type \in {TwoWaySimple, TwoWayExtended}
      /\ Type # RevertToReject /\ Type # RevertToNeutral /\ RevertToNeutral # RevertToReject
      /\ RevertToNeutral \notin TwoWayTypes
  BY LeaseOK DEF TwoWaySimple, TwoWayExtended, TwoWayTypes, RevertToNeutral, RevertToReject
<1>2. /\ LocalGranted(t) \in BOOLEAN /\ CanRetry(t) \in BOOLEAN /\ settled \in BOOLEAN
      /\ won \in BOOLEAN /\ lost \in BOOLEAN
  BY DEF LocalGranted, CanRetry
<1> SUFFICES /\ p.started = o.started /\ p.revert \in {o.revert} \cup RevertTypes
             /\ o.completed => p = o
             /\ p.revert = RevertToNeutral => o.revert = p.revert \/ (CanCoexist(t) /\ t.grant > 0)
             /\ p.revert = RevertToReject /\ ~o.completed =>
                   /\ ~o.local => ~p.assertFailed
                   /\ ~LocalGranted(t) => (p.local => o.local)
                   /\ o.revert # RevertToReject =>
                         /\ ~o.local /\ ~LocalGranted(t)
                         /\ p.completed \/ (t.grant > 0 /\ ~CanCoexist(t))
  BY DEF Reverting
<1> HIDE DEF t
<1>3. \/ rc = o.revert
      \/ rc = RevertToNeutral /\ CanCoexist(t) /\ t.grant > 0
      \/ rc = RevertToReject /\ ~LocalGranted(t) /\ ~CanCoexist(t) /\ t.grant > 0
  BY DEF RevertChoice
<1> HIDE DEF rc
<1>4. CASE o.completed
  <2>1. p = o
    BY <1>4 DEF CheckState
  <2> HIDE DEF p
  <2>2. QED
    BY <1>4, <2>1
<1>5. CASE ~o.completed /\ ~LocalGranted(t) /\ o.partial
  <2>1. p = [o EXCEPT !.assertFailed = TRUE]
    BY <1>5 DEF CheckState
  <2> HIDE DEF p
  <2>2. p.revert = o.revert /\ p.local = o.local /\ p.started = o.started
    BY <2>1 DEF Operation
  <2>3. QED
    BY <1>5, <2>2
<1>6. CASE ~o.completed /\ ~(~LocalGranted(t) /\ o.partial)
  <2> DEFINE may == o.local \/ LocalGranted(t)
             retry == CanRetry(t)
             part == o.partial \/ LocalGranted(t)
             over == settled \/ won \/ lost \/ ends
  <2>1. p = [o EXCEPT !.revert = revert, !.canRetry = retry, !.local = may, !.partial = part,
                      !.remoteDown = won, !.completed = over]
    BY <1>6 DEF CheckState, rc
  <2>5. may \in BOOLEAN /\ over \in BOOLEAN /\ (may <=> o.local \/ LocalGranted(t)) /\ (lost => over)
    BY <1>2
  <2> HIDE DEF p, revert, settled, won, lost, may, over, retry, part
  <2>6. p.revert = revert /\ p.local = may /\ p.completed = over
        /\ p.started = o.started /\ p.assertFailed = o.assertFailed
    BY <2>1 DEF Operation
  <2>2. /\ p.revert = revert /\ (p.local <=> o.local \/ LocalGranted(t)) /\ p.started = o.started
        /\ (p.assertFailed <=> o.assertFailed) /\ (lost => p.completed)
    BY <2>5, <2>6
  <2>3. /\ revert = RevertToNeutral => rc = RevertToNeutral
        /\ revert = RevertToReject => rc = RevertToReject \/ lost
        /\ lost => ~LocalGranted(t)
        /\ revert \in {o.revert} \cup RevertTypes
    BY <1>1, <1>3 DEF revert, lost, RevertTypes
  <2>4. QED
    BY <1>1, <1>3, <1>6, <2>2, <2>3
<1>7. QED
  BY <1>4, <1>5, <1>6

\* Counting votes that are not neutral, and votes of arbiters that know nothing.
LEMMA EvenTally ==
    ASSUME lease \in Leases, NEW w \in [Votes -> Vote], \A v \in Votes : VoteOK(w[v])
    PROVE  LET t == Tally(w)
           IN  /\ Compared /\ (\A v \in Votes : Even(w[v])) =>
                     /\ t.grant > 0 => ~CanCoexist(t)
                     /\ \A a : (\A v \in Votes \ {a} : ~w[v].granted) /\ Quorum > 1 => ~LocalGranted(t)
               /\ Unknown /\ (\A v \in Votes : ~w[v].continuous) => CanCoexist(t)
               /\ t.grant > 0 /\ ~LocalGranted(t) => Quorum > 1
<1> DEFINE t == Tally(w)
           A == {v \in Votes : w[v].answered /\ w[v].safe}
           G == {v \in Votes : w[v].answered /\ w[v].safe /\ w[v].granted}
<1>1. /\ t.grant \in Nat /\ t.neutral \in Nat
      /\ t.grant = Cardinality(G)
      /\ t.grant + t.neutral = Cardinality(A)
  BY TallyOK
<1>2. t.continuous <=> \E v \in Votes : w[v].answered /\ w[v].continuous
  BY DEF Tally, HasResult
<1>3. ASSUME Compared, \A v \in Votes : Even(w[v]), t.grant > 0
      PROVE  ~CanCoexist(t)
  <2> HIDE DEF t
  <2>1. G # {}
    <3>1. Cardinality({}) = 0
      BY FS_EmptySet
    <3>2. Cardinality(G) # 0
      BY <1>1, <1>3
    <3> HIDE DEF G
    <3>3. QED
      BY <3>1, <3>2
  <2>2. PICK v \in Votes : w[v].answered
    BY <2>1
  <2>3. QED
    BY <1>2, <1>3, <2>2 DEF Even, CanCoexist
<1>4. ASSUME Compared, \A v \in Votes : Even(w[v]), Quorum > 1,
             NEW a, \A v \in Votes \ {a} : ~w[v].granted
      PROVE  ~LocalGranted(t)
  <2>1. A \subseteq {a}
    BY <1>4 DEF Even
  <2>2. IsFiniteSet({a}) /\ Cardinality({a}) = 1
    BY FS_Singleton
  <2> HIDE DEF A
  <2>3. Cardinality(A) \in Nat /\ Cardinality(A) <= 1
    BY <2>1, <2>2, FS_Subset, FS_CardinalityType
  <2> HIDE DEF t
  <2>4. QED
    BY <1>1, <1>4, <2>3, QuorumOK DEF LocalGranted
<1> HIDE DEF t
<1>5. Unknown /\ (\A v \in Votes : ~w[v].continuous) => CanCoexist(t)
  BY <1>2 DEF Unknown, CanCoexist
<1>6. t.grant > 0 /\ ~LocalGranted(t) => Quorum > 1
  BY <1>1, QuorumOK DEF LocalGranted
<1>7. QED
  BY <1>3, <1>4, <1>5, <1>6 DEF t

\* CheckState and GenerationActions, on votes of arbiters that know the same.
LEMMA RunEven ==
    ASSUME IInv, UInv, NEW x \in Sides, NEW w, EvenVotes(x, w), NEW due, NEW late \in BOOLEAN,
           NEW ends \in BOOLEAN, NEW otherCalls, Running(x),
           RunStateMachine(x, w, due, late, ends, otherCalls), UNCHANGED lease
    PROVE  EvenTurn(x)
<1> DEFINE o == op[x]
           t == Tally(w)
           p == CheckState(x, o, t, late, ends)
           R == ToRevert(p, w)
           K == ToAsk(p, w, due)
           u == [v \in Votes |-> CASE v \in R -> Reverted(w[v], p.revert)
                                   [] v \in K -> Asked(w[v])
                                   [] OTHER -> w[v]]
<1>1. op' = [op EXCEPT ![x] = p] /\ vote' = [vote EXCEPT ![x] = u]
  BY DEF RunStateMachine
<1>2. /\ w \in [Votes -> Vote] /\ \A v \in Votes : VoteOK(w[v])
      /\ o \in Operation /\ lease \in Leases /\ (o.local <=> o.partial) /\ o.started /\ ~o.assertFailed
  BY DEF EvenVotes, Counted, IInv, Types, Running
<1>3. /\ p.started = o.started /\ p.revert \in {o.revert} \cup RevertTypes
      /\ o.completed => p = o
      /\ p.revert = RevertToNeutral => o.revert = p.revert \/ (CanCoexist(t) /\ t.grant > 0)
      /\ p.revert = RevertToReject /\ ~o.completed =>
            /\ ~o.local => ~p.assertFailed
            /\ ~LocalGranted(t) => (p.local => o.local)
            /\ o.revert # RevertToReject =>
                  /\ ~o.local /\ ~LocalGranted(t)
                  /\ p.completed \/ (t.grant > 0 /\ ~CanCoexist(t))
  <2>1. Reverting(w, o, p)
    BY <1>2, CheckStateReverts
  <2> HIDE DEF p, t
  <2>2. QED
    BY <2>1 DEF Reverting, t
<1>4. /\ Compared /\ (\A v \in Votes : Even(w[v])) =>
            /\ t.grant > 0 => ~CanCoexist(t)
            /\ \A a : (\A v \in Votes \ {a} : ~w[v].granted) /\ Quorum > 1 => ~LocalGranted(t)
      /\ Unknown /\ (\A v \in Votes : ~w[v].continuous) => CanCoexist(t)
      /\ t.grant > 0 /\ ~LocalGranted(t) => Quorum > 1
  BY <1>2, EvenTally
<1>5. Type # RevertToReject /\ Type # RevertToNeutral /\ RevertToReject # RevertToNeutral
  BY <1>2, LeaseOK DEF RevertToReject, RevertToNeutral
<1>6. \A v \in Votes :
         /\ v \in R => p.revert # Type
         /\ v \in K => v \notin R /\ (w[v].answered => ~w[v].safe)
         /\ w[v].granted /\ ~w[v].pending /\ ~p.assertFailed /\ p.revert # Type => v \in R
  BY <1>2 DEF ToRevert, ToAsk, CanRevert, HasResult, VoteOK
<1> HIDE DEF t, p, R, K
<1>7. \A v \in Votes :
         /\ u[v].answered = w[v].answered /\ u[v].continuous = w[v].continuous
         /\ u[v].granted => v \notin R /\ u[v] = w[v]
         /\ v \in R => (u[v].safe => p.revert # RevertToReject)
         /\ v \notin R => u[v].safe = w[v].safe /\ u[v].granted = w[v].granted
  <2> TAKE v \in Votes
  <2>1. w[v] \in Vote /\ VoteOK(w[v])
    BY <1>2
  <2>2. CASE v \in R
    <3>1. u[v] = Reverted(w[v], p.revert)
      BY <1>6, <2>2
    <3> HIDE DEF u
    <3>2. QED
      BY <2>1, <2>2, <3>1, VoteTurns
  <2>3. CASE v \notin R /\ v \in K
    <3>1. u[v] = Asked(w[v])
      BY <2>3
    <3>2. w[v].granted => w[v].answered /\ w[v].safe
      BY <2>1 DEF VoteOK
    <3> HIDE DEF u
    <3>3. QED
      BY <1>6, <2>1, <2>3, <3>1, <3>2, VoteTurns
  <2>4. CASE v \notin R /\ v \notin K
    <3>1. u[v] = w[v]
      BY <2>4
    <3> HIDE DEF u
    <3>2. QED
      BY <2>4, <3>1
  <2>5. QED
    BY <2>2, <2>3, <2>4
<1> HIDE DEF u
<1>8. op'[x] = p /\ vote'[x] = u
  BY <1>1 DEF IInv, Types
<1>9. /\ Type' = Type /\ (Compared' <=> Compared) /\ Quorum' = Quorum
      /\ o.revert \in {Type} \cup RevertTypes
  BY DEF UInv, Type, Compared, Continuous
<1>10. p.revert \in {Type} \cup RevertTypes
  BY <1>3, <1>9
<1>11. ASSUME Compared
       PROVE  p.revert # RevertToNeutral /\ \A v \in Votes : Even(u[v])
  <2>1. o.revert # RevertToNeutral /\ \A v \in Votes : Even(w[v])
    BY <1>11 DEF UInv, ComparedOK, EvenVotes
  <2>2. p.revert # RevertToNeutral
    BY <1>3, <1>4, <1>11, <2>1
  <2>3. \A v \in Votes : v \in R => p.revert = RevertToReject
    BY <1>6, <1>10, <2>2 DEF RevertTypes
  <2>4. QED
    BY <1>7, <1>9, <2>1, <2>2, <2>3 DEF Even
<1>12. ASSUME Compared, Keeps(Other(x))
       PROVE  /\ \A v \in Votes : u[v].granted => ~u[v].pending
              /\ p.revert = RevertToReject =>
                    /\ ~p.local
                    /\ p.completed \/ (Quorum > 1 /\ \A v \in Votes : ~u[v].granted)
  <2>1. \A v \in Votes : Even(w[v]) /\ (w[v].granted => ~w[v].pending)
    BY <1>12 DEF EvenVotes
  <2>2. \A v \in Votes : u[v].granted => ~u[v].pending
    BY <1>7, <2>1
  <2>3. o.revert = RevertToReject =>
           ~o.local /\ (o.completed \/ (Quorum > 1 /\ \A v \in Votes : ~vote[x][v].granted))
    BY <1>12, OtherOK DEF UInv, PeerGivesBack, GivesBack
  <2>4. p.revert = RevertToReject /\ ~p.assertFailed => \A v \in Votes : ~u[v].granted
    BY <1>5, <1>6, <1>7, <2>1
  <2>5. PICK a : \A v \in Votes \ {a} : w[v].granted => vote[x][v].granted
    BY <1>12 DEF EvenVotes
  <2>6. o.revert = RevertToReject /\ ~o.completed => ~LocalGranted(t)
    BY <1>4, <1>12, <2>1, <2>3, <2>5
  <2>7. QED
    BY <1>3, <1>4, <2>2, <2>3, <2>4, <2>6
<1>13. ASSUME Unknown
       PROVE  /\ p.revert = RevertToReject => p.completed /\ ~p.local
              /\ \A v \in Votes : ~u[v].continuous
  <2>1. (o.revert = RevertToReject => o.completed /\ ~o.local) /\ \A v \in Votes : ~w[v].continuous
    BY <1>13 DEF UInv, UnknownOK, EvenVotes
  <2>2. QED
    BY <1>3, <1>4, <1>7, <1>13, <2>1
<1>14. (Unstarted(x))'
  BY <1>2, <1>3, <1>8 DEF Unstarted
<1>15. Compared /\ Keeps(Other(x)) => GivesBack(x)'
  BY <1>8, <1>9, <1>12 DEF GivesBack
<1>16. QED
  BY <1>8, <1>9, <1>10, <1>11, <1>13, <1>14, <1>15 DEF EvenTurn

\* The votes of x with one of them changed by a reply.
LEMMA CountedOK ==
    ASSUME IInv, NEW x \in Sides, NEW v \in Votes, NEW n \in Vote, VoteOK(n),
           n.granted => Hold(x, v),
           n.answered /\ n.safe => Share(x, v),
           n.reverted <=> vote[x][v].reverted,
           n.reverted /\ ~vote[x][v].safe => ~n.safe
    PROVE  Counted(x, [vote[x] EXCEPT ![v] = n])
<1> DEFINE w == [vote[x] EXCEPT ![v] = n]
<1>1. vote[x] \in [Votes -> Vote] /\ \A u \in Votes : VoteOK(vote[x][u])
  BY DEF IInv, Types
<1>2. w \in [Votes -> Vote] /\ w[v] = n /\ \A u \in Votes \ {v} : w[u] = vote[x][u]
  BY <1>1
<1> HIDE DEF w
<1>3. \A u \in Votes : (vote[x][u].granted => Hold(x, u))
                       /\ (vote[x][u].answered /\ vote[x][u].safe => Share(x, u))
  BY DEF Hold, Share
<1>4. Counted(x, w)
  BY <1>1, <1>2, <1>3 DEF Counted
<1>5. QED
  BY <1>4 DEF w

\* The votes of x as they are.
LEMMA SameVotes ==
    ASSUME IInv, NEW x \in Sides
    PROVE  Counted(x, vote[x])
  BY DEF Counted, IInv, Types, Hold, Share

\* The same when all arbiters know the same of the lease.
LEMMA EvenOne ==
    ASSUME IInv, UInv, NEW x \in Sides, NEW v \in Votes, NEW n \in Vote,
           Counted(x, [vote[x] EXCEPT ![v] = n]),
           Compared => Even(n) /\ (Keeps(Other(x)) => (n.granted => ~n.pending)),
           Unknown => ~n.continuous
    PROVE  EvenVotes(x, [vote[x] EXCEPT ![v] = n])
<1> DEFINE w == [vote[x] EXCEPT ![v] = n]
           y == Other(x)
<1>1. w[v] = n /\ \A u \in Votes \ {v} : w[u] = vote[x][u]
  BY DEF IInv, Types
<1>2. y \in Sides /\ Other(y) = x
  BY OtherOK
<1> HIDE DEF y
<1>3. /\ Compared => \A u \in Votes : Even(vote[x][u])
      /\ Compared /\ Keeps(y) => \A u \in Votes : vote[x][u].granted => ~vote[x][u].pending
      /\ Unknown => \A u \in Votes : ~vote[x][u].continuous
  BY <1>2 DEF UInv, ComparedOK, UnknownOK, PeerGivesBack, GivesBack
<1>4. Counted(x, w) /\ (Compared => Even(n) /\ (Keeps(y) => (n.granted => ~n.pending)))
  BY DEF y
<1> HIDE DEF w
<1>5. /\ Compared => \A u \in Votes : Even(w[u])
      /\ Compared /\ Keeps(y) => \A u \in Votes : w[u].granted => ~w[u].pending
      /\ Unknown => \A u \in Votes : ~w[u].continuous
  BY <1>1, <1>3, <1>4
<1>6. \A u \in Votes \ {v} : w[u].granted => vote[x][u].granted
  BY <1>1
<1>7. EvenVotes(x, w)
  BY <1>4, <1>5, <1>6 DEF EvenVotes, y
<1>8. QED
  BY <1>7 DEF w

\* And with none of them changed.
LEMMA SameEven ==
    ASSUME IInv, UInv, NEW x \in Sides
    PROVE  EvenVotes(x, vote[x])
<1> DEFINE y == Other(x)
<1>1. y \in Sides /\ Other(y) = x
  BY OtherOK
<1>2. Counted(x, vote[x])
  BY SameVotes
<1> HIDE DEF y
<1>3. /\ Compared => \A u \in Votes : Even(vote[x][u])
      /\ Compared /\ Keeps(y) => \A u \in Votes : vote[x][u].granted => ~vote[x][u].pending
      /\ Unknown => \A u \in Votes : ~vote[x][u].continuous
  BY <1>1 DEF UInv, ComparedOK, UnknownOK, PeerGivesBack, GivesBack
<1>4. QED
  BY <1>2, <1>3 DEF EvenVotes, y

\* A step that only takes a call or a reply away.
LEMMA IdleOK ==
    ASSUME IInv, NEW x \in Sides, calls' \subseteq calls, replies' \subseteq replies,
           UNCHANGED <<lease, arbiter, vote, op, requests>>
    PROVE  SideTurn(x) /\ (UInv => EvenTurn(x))
<1>1. /\ op \in [Sides -> Operation] /\ vote \in [Sides -> [Votes -> Vote]]
      /\ op[x].local <=> op[x].partial
      /\ op[x].remoteDown => op[x].completed /\ op[x].local
  BY DEF IInv, Types, WonHolds
<1>2. OperationTurn(vote[x], op[x], op[x])
  BY <1>1 DEF OperationTurn
<1>3. op' = [op EXCEPT ![x] = op[x]] /\ vote' = [vote EXCEPT ![x] = vote[x]]
  BY <1>1
<1>4. Counted(x, vote[x])
  BY SameVotes
<1>5. \A v \in Votes :
          /\ VoteOK(vote[x][v])
          /\ vote[x][v].granted => Hold(x, v)
          /\ vote[x][v].answered /\ vote[x][v].safe => Share(x, v)
  BY <1>4 DEF Counted
<1>6. SideTurn(x)
  BY <1>1, <1>2, <1>3, <1>4, <1>5 DEF SideTurn
<1>7. ASSUME UInv
      PROVE  EvenTurn(x)
  <2>1. Other(x) \in Sides /\ Other(Other(x)) = x
    BY OtherOK
  <2>2. /\ Compared => ComparedOK /\ (Keeps(Other(x)) => GivesBack(x))
        /\ Unknown => UnknownOK
        /\ Unstarted(x) /\ op[x].revert \in {Type} \cup RevertTypes
    BY <1>7, <2>1 DEF UInv, PeerGivesBack
  <2>3. Unstarted(x)' /\ (GivesBack(x) => GivesBack(x)')
    BY <2>2 DEF Unstarted, GivesBack, Quorum
  <2>4. QED
    BY <2>2, <2>3 DEF EvenTurn, ComparedOK, UnknownOK
<1>8. QED
  BY <1>6, <1>7

\* Every arbiter is asked.
LEMMA StartOK ==
    ASSUME IInv, NEW x \in Sides, Start(x)
    PROVE  SideTurn(x) /\ (UInv => EvenTurn(x))
<1> DEFINE p == [op[x] EXCEPT !.started = TRUE]
           u == [v \in Votes |-> Asked(vote[x][v])]
           new == {Request(x, v, vote[x], Type) : v \in Votes}
<1>1. /\ op \in [Sides -> Operation] /\ op[x] \in Operation /\ vote[x] \in [Votes -> Vote]
      /\ op[x].local <=> op[x].partial
      /\ op[x].remoteDown => op[x].completed /\ op[x].local
      /\ lease \in Leases
  BY DEF IInv, Types, WonHolds
<1>2. /\ op' = [op EXCEPT ![x] = p] /\ vote' = [vote EXCEPT ![x] = u]
      /\ requests' = requests \cup new /\ calls' = calls \cup new
      /\ UNCHANGED <<lease, arbiter, replies>>
  BY <1>1 DEF Start
<1>3. Counted(x, vote[x])
  BY SameVotes
<1>4. \A v \in Votes :
          /\ u[v] \in Vote /\ VoteOK(u[v]) /\ u[v].reverted = vote[x][v].reverted
          /\ u[v].granted = vote[x][v].granted /\ u[v].answered = vote[x][v].answered
          /\ u[v].safe = vote[x][v].safe /\ u[v].continuous = vote[x][v].continuous
  <2> TAKE v \in Votes
  <2>1. vote[x][v] \in Vote /\ VoteOK(vote[x][v]) /\ u[v] = Asked(vote[x][v])
    BY <1>1, <1>3 DEF Counted
  <2> HIDE DEF u
  <2>2. QED
    BY <2>1, VoteTurns
<1>5. u \in [Votes -> Vote]
  BY <1>4
<1> HIDE DEF u
<1>10. /\ p \in Operation /\ p.revert = op[x].revert /\ p.local = op[x].local
       /\ p.completed = op[x].completed /\ p.started
  BY <1>1 DEF Operation
<1>6. OperationTurn(vote[x], op[x], p)
  <2>1. /\ p \in Operation /\ p.revert = op[x].revert /\ p.local = op[x].local
        /\ p.partial = op[x].partial /\ p.remoteDown = op[x].remoteDown /\ p.completed = op[x].completed
    BY <1>1 DEF Operation
  <2> HIDE DEF p
  <2>2. QED
    BY <1>1, <2>1 DEF OperationTurn
<1> HIDE DEF p
<1>7. \A r \in new : r \in Req /\ r.from = x /\ RequestOK(r)'
  <2>1. Type \in TwoWayTypes /\ Type \notin RevertTypes
    BY <1>1, LeaseOK DEF TwoWayTypes, TwoWaySimple, TwoWayExtended,
                         RevertTypes, RevertToReject, RevertToNeutral
  <2>2. \A v \in Votes : vote[x][v].count + 1 \in Nat
    BY <1>1 DEF Vote
  <2>3. \A r \in new : r \in Req /\ r.from = x /\ r.type = Type
    BY <2>1, <2>2 DEF Request, Req
  <2>4. QED
    BY <2>1, <2>3 DEF RequestOK
<1> HIDE DEF new
<1>8. \A v \in Votes :
          /\ VoteOK(u[v])
          /\ u[v].granted => Hold(x, v)
          /\ u[v].answered /\ u[v].safe => Share(x, v)
          /\ vote[x][v].reverted => u[v].reverted /\ (~vote[x][v].safe => ~u[v].safe)
  BY <1>3, <1>4 DEF Counted
<1>9. SideTurn(x)
  BY <1>1, <1>2, <1>3, <1>5, <1>6, <1>7, <1>8 DEF SideTurn
<1>11. op'[x] = p /\ vote'[x] = u
  BY <1>2 DEF IInv, Types
<1>12. ASSUME UInv
       PROVE  EvenTurn(x)
  <2>1. Other(x) \in Sides /\ Other(Other(x)) = x
    BY OtherOK
  <2>2. /\ Compared => ComparedOK /\ (Keeps(Other(x)) => GivesBack(x))
        /\ Unknown => UnknownOK
        /\ op[x].revert \in {Type} \cup RevertTypes
        /\ \A v \in Votes : ~vote[x][v].granted
    BY <1>12, <2>1 DEF UInv, PeerGivesBack, Unstarted, Start
  <2>3. Unstarted(x)' /\ (GivesBack(x) => GivesBack(x)')
    BY <1>2, <1>4, <1>10, <1>11, <2>2 DEF Unstarted, GivesBack, Quorum
  <2>4. Compared => \A v \in Votes : Even(u[v])
    BY <1>4, <2>2 DEF ComparedOK, Even
  <2>5. Unknown => \A v \in Votes : ~u[v].continuous
    BY <1>4, <2>2 DEF UnknownOK
  <2>6. QED
    BY <1>10, <1>11, <2>2, <2>3, <2>4, <2>5 DEF EvenTurn, ComparedOK, UnknownOK
<1>13. QED
  BY <1>9, <1>12

\* A vote with the answer of a reply.
AnsweredBy(o, m) ==
    [o EXCEPT !.pending = FALSE, !.answered = TRUE, !.granted = m.granted, !.safe = ~m.rejected,
              !.reported = m.reported, !.strong = m.strong, !.continuous = m.continuous,
              !.delayed = m.delayed]

LEMMA AnsweredOK ==
    ASSUME NEW o \in Vote, NEW m \in Reply
    PROVE  /\ AnsweredBy(o, m) \in Vote /\ AnsweredBy(o, m).answered
           /\ AnsweredBy(o, m).reverted = o.reverted
           /\ AnsweredBy(o, m).granted <=> m.granted
           /\ AnsweredBy(o, m).safe <=> ~m.rejected
           /\ AnsweredBy(o, m).continuous <=> m.continuous
           /\ ~AnsweredBy(o, m).pending
<1> DEFINE n == AnsweredBy(o, m)
           g == m.granted
           f == ~m.rejected
           r == m.reported
           s == m.strong
           k == m.continuous
           d == m.delayed
<1>1. n = [o EXCEPT !.pending = FALSE, !.answered = TRUE, !.granted = g, !.safe = f,
                    !.reported = r, !.strong = s, !.continuous = k, !.delayed = d]
  BY DEF AnsweredBy
<1>2. /\ g \in BOOLEAN /\ f \in BOOLEAN /\ r \in BOOLEAN /\ s \in BOOLEAN /\ k \in BOOLEAN
      /\ d \in BOOLEAN
  BY DEF Reply
<1> SUFFICES /\ n \in Vote /\ n.answered /\ n.reverted = o.reverted
             /\ n.granted <=> g
             /\ n.safe <=> f
             /\ n.continuous <=> k
             /\ ~n.pending
  BY DEF g, f, k
<1> HIDE DEF n, g, f, r, s, k, d
<1>3. n = [answered |-> TRUE, granted |-> g, safe |-> f, reported |-> r, strong |-> s,
           continuous |-> k, delayed |-> d, count |-> o.count, pending |-> FALSE, reverted |-> o.reverted]
  BY <1>1 DEF Vote
<1>4. o.count \in Nat /\ o.reverted \in BOOLEAN
  BY DEF Vote
<1>5. n \in Vote
  BY <1>2, <1>3, <1>4, Zenon DEF Vote
<1>6. n.granted = g /\ n.answered = TRUE /\ n.safe = f /\ n.reverted = o.reverted
      /\ n.continuous = k /\ n.pending = FALSE
  BY <1>3
<1>7. QED
  BY <1>5, <1>6

\* A reply.
LEMMA ProcessReplyOK ==
    ASSUME IInv, NEW x \in Sides, ProcessReply(x)
    PROVE  SideTurn(x) /\ (UInv => EvenTurn(x))
<1>1. PICK m \in replies, due \in Retries(x) :
        LET v == m.from
            w == [vote[x] EXCEPT ![v] =
                    IF @.reverted THEN [@ EXCEPT !.pending = FALSE]
                    ELSE [@ EXCEPT !.pending = FALSE, !.answered = TRUE, !.granted = m.granted,
                                   !.safe = ~m.rejected, !.reported = m.reported,
                                   !.strong = m.strong, !.continuous = m.continuous,
                                   !.delayed = m.delayed]]
        IN  /\ Running(x) /\ m.to = x /\ m.kind = "reply"
            /\ replies' = replies \ {m}
            /\ \E c \in calls :
                /\ c.from = x /\ c.to = v /\ c.number = m.number
                /\ IF vote[x][v].pending
                   THEN RunStateMachine(x, w, due, FALSE, FALSE, calls \ {c})
                   ELSE due = {} /\ calls' = calls \ {c} /\ UNCHANGED <<op, vote, requests>>
            /\ UNCHANGED <<lease, arbiter, failures>>
  BY DEF ProcessReply
<1> DEFINE v == m.from
           o == vote[x][v]
           n == IF o.reverted THEN [o EXCEPT !.pending = FALSE] ELSE AnsweredBy(o, m)
           w == [vote[x] EXCEPT ![v] = n]
<1>2. /\ m \in Reply /\ v \in Votes /\ m.to = x /\ (m.granted => ~m.rejected)
      /\ o \in Vote /\ VoteOK(o) /\ vote[x] \in [Votes -> Vote]
  BY <1>1 DEF IInv, Types, Reply
<1>3. PICK c \in calls :
         IF o.pending
         THEN RunStateMachine(x, w, due, FALSE, FALSE, calls \ {c})
         ELSE due = {} /\ calls' = calls \ {c} /\ UNCHANGED <<op, vote, requests>>
  <2>1. w = [vote[x] EXCEPT ![v] = IF @.reverted THEN [@ EXCEPT !.pending = FALSE]
                    ELSE [@ EXCEPT !.pending = FALSE, !.answered = TRUE, !.granted = m.granted,
                                   !.safe = ~m.rejected, !.reported = m.reported,
                                   !.strong = m.strong, !.continuous = m.continuous,
                                   !.delayed = m.delayed]]
    BY <1>2 DEF AnsweredBy
  <2> HIDE DEF w
  <2>2. QED
    BY <1>1, <2>1
<1>4. replies' \subseteq replies /\ UNCHANGED <<lease, arbiter>>
  BY <1>1
<1>5. Counted(x, w)
  <2>1. ~o.reverted /\ m.granted => Hold(x, v)
    BY <1>1 DEF Hold
  <2>2. ~o.reverted /\ ~m.rejected => Share(x, v)
    BY <1>1 DEF Share
  <2>3. (o.granted => Hold(x, v)) /\ (o.answered /\ o.safe => Share(x, v))
    BY DEF Hold, Share
  <2> HIDE DEF o
  <2>4. CASE o.reverted
    <3>1. n = [o EXCEPT !.pending = FALSE]
      BY <2>4
    <3> HIDE DEF n
    <3>2. /\ n \in Vote /\ n.granted = o.granted /\ n.answered = o.answered /\ n.safe = o.safe
          /\ n.reverted = o.reverted
      BY <1>2, <3>1 DEF Vote
    <3> HIDE DEF v
    <3>3. QED
      BY <1>2, <2>3, <3>2, CountedOK DEF VoteOK, o
  <2>5. CASE ~o.reverted
    <3>1. n = AnsweredBy(o, m)
      BY <2>5
    <3> HIDE DEF n
    <3>2. /\ n \in Vote /\ n.answered /\ n.reverted = o.reverted
          /\ n.granted <=> m.granted
          /\ n.safe <=> ~m.rejected
      BY <1>2, <3>1, AnsweredOK
    <3> HIDE DEF v
    <3>3. QED
      BY <1>2, <2>1, <2>2, <2>5, <3>2, CountedOK DEF VoteOK, o
  <2>6. QED
    BY <2>4, <2>5
<1>9. ASSUME UInv
      PROVE  EvenVotes(x, w)
  <2>1. /\ Compared => Even(o) /\ (m.rejected \/ m.granted) /\ (Type = TwoWayExtended => m.continuous)
        /\ Unknown => ~o.continuous /\ ~m.continuous
    BY <1>2, <1>9 DEF UInv, ComparedOK, UnknownOK
  <2> HIDE DEF o
  <2>2. /\ n \in Vote /\ ~n.pending
        /\ Compared => Even(n)
        /\ Unknown => ~n.continuous
    <3>1. CASE o.reverted
      <4>1. n = [o EXCEPT !.pending = FALSE]
        BY <3>1
      <4> HIDE DEF n
      <4>2. /\ n \in Vote /\ n.granted = o.granted /\ n.answered = o.answered /\ n.safe = o.safe
            /\ n.continuous = o.continuous /\ ~n.pending
        BY <1>2, <4>1 DEF Vote
      <4>3. QED
        BY <2>1, <4>2 DEF Even
    <3>2. CASE ~o.reverted
      <4>1. n = AnsweredBy(o, m)
        BY <3>2
      <4> HIDE DEF n
      <4>2. QED
        BY <1>2, <2>1, <4>1, AnsweredOK DEF Even
    <3>3. QED
      BY <3>1, <3>2
  <2> HIDE DEF n, v
  <2>3. QED
    BY <1>2, <1>5, <1>9, <2>2, EvenOne
<1>6. CASE o.pending
  <2> HIDE DEF w
  <2>1. Running(x) /\ RunStateMachine(x, w, due, FALSE, FALSE, calls \ {c})
    BY <1>1, <1>3, <1>6
  <2> DEFINE other == calls \ {c}
  <2>2. other \subseteq calls /\ RunStateMachine(x, w, due, FALSE, FALSE, other)
    BY <2>1
  <2> HIDE DEF other
  <2>3. SideTurn(x)
    BY <1>4, <1>5, <2>2, RunOK
  <2>4. UInv => EvenTurn(x)
    BY <1>4, <1>9, <2>1, <2>2, RunEven
  <2>5. QED
    BY <2>3, <2>4
<1>7. CASE ~o.pending
  BY <1>3, <1>4, <1>7, IdleOK
<1>8. QED
  BY <1>6, <1>7

\* A vote and a delayed reply.
LEMMA DelayedVoteOK ==
    ASSUME NEW o \in Vote, VoteOK(o), NEW m \in Reply
    PROVE  LET n == DelayedVote(o, m)
           IN  /\ n \in Vote /\ VoteOK(n) /\ n.reverted = o.reverted
               /\ o.reverted => n = o
               /\ ~o.reverted => /\ n.granted => o.granted \/ m.granted
                                 /\ ~n.granted => ~o.granted /\ ~m.granted
                                 /\ n.answered
               /\ n.continuous \in {o.continuous, m.continuous}
               /\ o.answered => n.pending = o.pending
               /\ ~o.answered /\ ~o.reverted => n.continuous = m.continuous
               /\ ~o.answered /\ n.answered => ~n.pending
<1> DEFINE n == DelayedVote(o, m)
           g == m.granted
           r == m.reported
           s == m.strong
           k == m.continuous
           q == o.reported \/ r
<1>1. g \in BOOLEAN /\ r \in BOOLEAN /\ s \in BOOLEAN /\ k \in BOOLEAN
  BY DEF Reply
<1>2. /\ o.count \in Nat /\ o.answered \in BOOLEAN /\ o.granted \in BOOLEAN /\ o.safe \in BOOLEAN
      /\ o.reported \in BOOLEAN /\ o.strong \in BOOLEAN /\ o.continuous \in BOOLEAN
      /\ o.pending \in BOOLEAN /\ o.reverted \in BOOLEAN /\ o.delayed \in BOOLEAN
  BY DEF Vote
<1>3. q \in BOOLEAN
  OBVIOUS
<1> SUFFICES /\ n \in Vote /\ VoteOK(n) /\ n.reverted = o.reverted
             /\ o.reverted => n = o
             /\ ~o.reverted => /\ n.granted => o.granted \/ g
                               /\ ~n.granted => ~o.granted /\ ~g
                               /\ n.answered
             /\ n.continuous \in {o.continuous, k}
             /\ o.answered => n.pending = o.pending
             /\ ~o.answered /\ ~o.reverted => n.continuous = k
             /\ ~o.answered /\ n.answered => ~n.pending
  BY DEF VoteOK
<1>4. CASE o.reverted
  <2>1. n = o
    BY <1>4 DEF DelayedVote
  <2> HIDE DEF n
  <2>2. QED
    BY <1>2, <1>4, <2>1 DEF VoteOK
<1>5. CASE ~o.reverted /\ ~o.answered
  <2>1. n = [o EXCEPT !.answered = TRUE, !.pending = FALSE, !.granted = g, !.safe = TRUE,
                      !.reported = r, !.strong = s, !.continuous = k, !.delayed = FALSE]
    BY <1>5 DEF DelayedVote, HasResult
  <2> HIDE DEF n, g, r, s, k
  <2>2. n = [answered |-> TRUE, granted |-> g, safe |-> TRUE, reported |-> r, strong |-> s,
             continuous |-> k, delayed |-> FALSE, count |-> o.count, pending |-> FALSE,
             reverted |-> o.reverted]
    BY <2>1 DEF Vote
  <2>3. n \in Vote
    BY <1>1, <1>2, <2>2, Zenon DEF Vote
  <2>4. n.granted = g /\ n.answered = TRUE /\ n.safe = TRUE /\ n.reverted = o.reverted
        /\ n.continuous = k /\ n.pending = FALSE
    BY <2>2
  <2>5. QED
    BY <1>1, <1>2, <1>5, <2>3, <2>4 DEF VoteOK
<1>6. CASE ~o.reverted /\ o.answered
  <2> DEFINE mg == IF g /\ ~o.granted
                   THEN [[o EXCEPT !.strong = s, !.continuous = k] EXCEPT !.granted = TRUE, !.safe = TRUE]
                   ELSE IF ~g /\ ~o.safe THEN [[o EXCEPT !.strong = s, !.continuous = k] EXCEPT !.safe = TRUE]
                        ELSE o
  <2>1. n = [mg EXCEPT !.reported = @ \/ r, !.delayed = FALSE]
    BY <1>6 DEF DelayedVote, HasResult
  <2> HIDE DEF n, g, r, s, k
  <2>2. \E a, b, c, d \in BOOLEAN :
           /\ mg = [answered |-> TRUE, granted |-> a, safe |-> b, reported |-> o.reported, strong |-> c,
                    continuous |-> d, delayed |-> o.delayed, count |-> o.count, pending |-> o.pending,
                    reverted |-> o.reverted]
           /\ a = (o.granted \/ g) /\ (a => b) /\ d \in {o.continuous, k}
    <3>1. CASE g /\ ~o.granted
      <4>1. mg = [answered |-> TRUE, granted |-> TRUE, safe |-> TRUE, reported |-> o.reported, strong |-> s,
                  continuous |-> k, delayed |-> o.delayed, count |-> o.count, pending |-> o.pending,
                  reverted |-> o.reverted]
        BY <1>6, <3>1 DEF Vote
      <4> HIDE DEF mg
      <4>2. QED
        BY <1>1, <3>1, <4>1
    <3>2. CASE ~g /\ ~o.safe
      <4>1. mg = [answered |-> TRUE, granted |-> o.granted, safe |-> TRUE, reported |-> o.reported, strong |-> s,
                  continuous |-> k, delayed |-> o.delayed, count |-> o.count, pending |-> o.pending,
                  reverted |-> o.reverted]
        BY <1>6, <3>2 DEF Vote
      <4> HIDE DEF mg
      <4>2. QED
        BY <1>1, <1>2, <3>2, <4>1
    <3>3. CASE ~(g /\ ~o.granted) /\ ~(~g /\ ~o.safe)
      <4>1. mg = o
        BY <3>3
      <4>2. o = [answered |-> TRUE, granted |-> o.granted, safe |-> o.safe, reported |-> o.reported,
                 strong |-> o.strong, continuous |-> o.continuous, delayed |-> o.delayed,
                 count |-> o.count, pending |-> o.pending, reverted |-> o.reverted]
        BY <1>6 DEF Vote
      <4> HIDE DEF mg
      <4>3. QED
        BY <1>1, <1>2, <3>3, <4>1, <4>2 DEF VoteOK
    <3>4. QED
      BY <3>1, <3>2, <3>3
  <2> HIDE DEF mg
  <2>3. PICK a, b, c, d \in BOOLEAN :
           /\ mg = [answered |-> TRUE, granted |-> a, safe |-> b, reported |-> o.reported, strong |-> c,
                    continuous |-> d, delayed |-> o.delayed, count |-> o.count, pending |-> o.pending,
                    reverted |-> o.reverted]
           /\ a = (o.granted \/ g) /\ (a => b) /\ d \in {o.continuous, k}
    BY <2>2
  <2>4. n = [answered |-> TRUE, granted |-> a, safe |-> b, reported |-> q, strong |-> c,
             continuous |-> d, delayed |-> FALSE, count |-> o.count, pending |-> o.pending,
             reverted |-> o.reverted]
    BY <2>1, <2>3 DEF r
  <2> HIDE DEF q
  <2>5. n \in Vote
    BY <1>1, <1>2, <1>3, <2>4, Zenon DEF Vote
  <2>6. n.granted = a /\ n.answered = TRUE /\ n.safe = b /\ n.reverted = o.reverted
        /\ n.continuous = d /\ n.pending = o.pending
    BY <2>4
  <2>7. QED
    BY <1>2, <1>6, <2>3, <2>5, <2>6 DEF VoteOK
<1>7. QED
  BY <1>2, <1>4, <1>5, <1>6

\* A delayed reply.
LEMMA ProcessDelayedReplyOK ==
    ASSUME IInv, NEW x \in Sides, ProcessDelayedReply(x)
    PROVE  SideTurn(x) /\ (UInv => EvenTurn(x))
<1>1. PICK m \in replies, due \in Retries(x), ends \in BOOLEAN :
        /\ Running(x) /\ m.to = x /\ m.kind = "delayed"
        /\ replies' = replies \ {m}
        /\ RunStateMachine(x, [vote[x] EXCEPT ![m.from] = DelayedVote(@, m)], due, FALSE, ends, calls)
        /\ UNCHANGED <<lease, arbiter>>
  BY DEF ProcessDelayedReply
<1> DEFINE v == m.from
           o == vote[x][v]
           n == DelayedVote(o, m)
           w == [vote[x] EXCEPT ![v] = n]
<1>2. /\ m \in Reply /\ v \in Votes /\ ~m.rejected
      /\ o \in Vote /\ VoteOK(o) /\ vote[x] \in [Votes -> Vote]
  BY <1>1 DEF IInv, Types, Reply
<1>3. w = [vote[x] EXCEPT ![m.from] = DelayedVote(@, m)]
  BY <1>2
<1>4. Counted(x, w)
  <2>1. /\ n \in Vote /\ VoteOK(n) /\ n.reverted = o.reverted
        /\ o.reverted => n = o
        /\ ~o.reverted => (n.granted => o.granted \/ m.granted)
    BY <1>2, DelayedVoteOK
  <2> HIDE DEF n
  <2>2. ~o.reverted /\ m.granted => Hold(x, v)
    BY <1>1 DEF Hold
  <2>3. ~o.reverted => Share(x, v)
    BY <1>1, <1>2 DEF Share
  <2>4. (o.granted => Hold(x, v)) /\ (o.answered /\ o.safe => Share(x, v))
    BY DEF Hold, Share
  <2>5. /\ n.granted => Hold(x, v)
        /\ n.answered /\ n.safe => Share(x, v)
        /\ n.reverted /\ ~o.safe => ~n.safe
    BY <2>1, <2>2, <2>3, <2>4
  <2> HIDE DEF v
  <2>6. QED
    BY <1>2, <2>1, <2>5, CountedOK
<1>8. ASSUME UInv
      PROVE  EvenVotes(x, w)
  <2>1. /\ Compared => Even(o) /\ m.granted /\ (Type = TwoWayExtended => m.continuous)
        /\ Unknown => ~o.continuous /\ ~m.continuous
    BY <1>1, <1>2, <1>8 DEF UInv, ComparedOK, UnknownOK
  <2>2. Compared => ~Keeps(Other(x))
    BY <1>1, <1>8, OtherOK DEF UInv, PeerGivesBack
  <2>3. /\ n \in Vote /\ VoteOK(n)
        /\ o.reverted => n = o
        /\ ~o.reverted => (~n.granted => ~m.granted)
        /\ n.continuous \in {o.continuous, m.continuous}
        /\ ~o.answered /\ ~o.reverted => n.continuous = m.continuous
    BY <1>2, DelayedVoteOK
  <2> HIDE DEF n, o
  <2>4. Compared => Even(n)
    BY <2>1, <2>3 DEF Even
  <2>5. Unknown => ~n.continuous
    BY <2>1, <2>3
  <2> HIDE DEF v
  <2>6. QED
    BY <1>2, <1>4, <1>8, <2>2, <2>3, <2>4, <2>5, EvenOne
<1> HIDE DEF w
<1>5. Running(x) /\ RunStateMachine(x, w, due, FALSE, ends, calls)
  BY <1>1, <1>3
<1>6. replies' \subseteq replies /\ UNCHANGED <<lease, arbiter>>
  BY <1>1
<1>7. calls \subseteq calls
  OBVIOUS
<1>9. SideTurn(x)
  BY <1>4, <1>5, <1>6, <1>7, RunOK
<1>10. UInv => EvenTurn(x)
  BY <1>5, <1>6, <1>8, RunEven
<1>11. QED
  BY <1>9, <1>10

\* An error.
LEMMA ProcessErrorOK ==
    ASSUME IInv, NEW x \in Sides, ProcessError(x)
    PROVE  SideTurn(x) /\ (UInv => EvenTurn(x))
<1>1. PICK c \in calls, due \in Retries(x), ends \in BOOLEAN :
        LET w == [vote[x] EXCEPT ![c.to].pending = FALSE]
        IN  /\ Running(x)
            /\ IF vote[x][c.to].pending
               THEN RunStateMachine(x, w, due, FALSE, ends, calls \ {c})
               ELSE /\ due = {} /\ ~ends
                    /\ calls' = calls \ {c} /\ UNCHANGED <<op, vote, requests>>
            /\ replies' = {m \in replies : ~(m.kind = "reply" /\ m.to = x /\ m.from = c.to /\ m.number = c.number)}
            /\ UNCHANGED <<lease, arbiter>>
  BY DEF ProcessError
<1> DEFINE v == c.to
           o == vote[x][v]
           n == [o EXCEPT !.pending = FALSE]
           w == [vote[x] EXCEPT ![v] = n]
           other == calls \ {c}
<1>2. v \in Votes /\ o \in Vote /\ VoteOK(o) /\ vote[x] \in [Votes -> Vote]
  BY DEF IInv, Types, Req
<1>3. w = [vote[x] EXCEPT ![c.to].pending = FALSE]
  BY <1>2
<1>4. Counted(x, w)
  <2>1. (o.granted => Hold(x, v)) /\ (o.answered /\ o.safe => Share(x, v))
    BY DEF Hold, Share
  <2>2. /\ n \in Vote /\ n.granted = o.granted /\ n.answered = o.answered /\ n.safe = o.safe
        /\ n.reverted = o.reverted
    BY <1>2 DEF Vote
  <2> HIDE DEF n, v
  <2>3. QED
    BY <1>2, <2>1, <2>2, CountedOK DEF VoteOK
<1>9. ASSUME UInv
      PROVE  EvenVotes(x, w)
  <2>1. /\ Compared => Even(o)
        /\ Unknown => ~o.continuous
    BY <1>2, <1>9 DEF UInv, ComparedOK, UnknownOK
  <2> HIDE DEF o
  <2>2. /\ n \in Vote /\ n.granted = o.granted /\ n.answered = o.answered /\ n.safe = o.safe
        /\ n.continuous = o.continuous /\ ~n.pending
    BY <1>2 DEF Vote
  <2> HIDE DEF n, v
  <2>3. QED
    BY <1>2, <1>4, <1>9, <2>1, <2>2, EvenOne DEF Even
<1> HIDE DEF w
<1>5. Running(x) /\ replies' \subseteq replies /\ UNCHANGED <<lease, arbiter>>
  BY <1>1
<1>6. CASE o.pending
  <2>1. other \subseteq calls /\ RunStateMachine(x, w, due, FALSE, ends, other)
    BY <1>1, <1>3, <1>6
  <2> HIDE DEF other
  <2>2. SideTurn(x)
    BY <1>4, <1>5, <2>1, RunOK
  <2>3. UInv => EvenTurn(x)
    BY <1>5, <1>9, <2>1, RunEven
  <2>4. QED
    BY <2>2, <2>3
<1>7. CASE ~o.pending
  <2>1. calls' \subseteq calls /\ UNCHANGED <<op, vote, requests>>
    BY <1>1, <1>7
  <2>2. QED
    BY <1>5, <2>1, IdleOK
<1>8. QED
  BY <1>6, <1>7

\* The timer.
LEMMA OnTimerOK ==
    ASSUME IInv, NEW x \in Sides, OnTimer(x)
    PROVE  SideTurn(x) /\ (UInv => EvenTurn(x))
<1>1. PICK due \in Retries(x), late, ends \in BOOLEAN :
        /\ Running(x) /\ RunStateMachine(x, vote[x], due, late, ends, calls)
        /\ UNCHANGED <<lease, arbiter, replies>>
  BY DEF OnTimer
<1>2. Counted(x, vote[x])
  BY SameVotes
<1> DEFINE w == vote[x]
<1>3. Counted(x, w) /\ RunStateMachine(x, w, due, late, ends, calls) /\ (UInv => EvenVotes(x, w))
  BY <1>1, <1>2, SameEven
<1> HIDE DEF w
<1>4. SideTurn(x)
  BY <1>1, <1>3, RunOK
<1>5. UInv => EvenTurn(x)
  BY <1>1, <1>3, RunEven
<1>6. QED
  BY <1>4, <1>5

\* Every step of a side.
LEMMA SideStepOK ==
    ASSUME IInv, NEW x \in Sides, SideStep(x)
    PROVE  SideTurn(x) /\ (UInv => EvenTurn(x))
  BY StartOK, ProcessReplyOK, ProcessErrorOK, ProcessDelayedReplyOK, OnTimerOK DEF SideStep

\* What a step of x changes, for every arbiter and side: nobody gets more.
LEMMA SideFrame ==
    ASSUME IInv, NEW x \in Sides, SideTurn(x)
    PROVE  /\ op' \in [Sides -> Operation] /\ vote' \in [Sides -> [Votes -> Vote]]
           /\ \E w \in [Votes -> Vote] : OperationTurn(w, op[x], op'[x]) /\ Counted(x, w)
           /\ op'[Other(x)] = op[Other(x)] /\ vote'[Other(x)] = vote[Other(x)]
           /\ \A z \in Sides, v \in Votes :
                 /\ VoteOK(vote'[z][v])
                 /\ Hold(z, v)' => Hold(z, v)
                 /\ Share(z, v)' => Share(z, v)
           /\ \A v \in Votes : vote[x][v].reverted => /\ vote'[x][v].reverted
                                                      /\ ~vote[x][v].safe => ~vote'[x][v].safe
<1> DEFINE y == Other(x)
<1>1. y \in Sides /\ y # x /\ Sides = {x, y}
  BY OtherOK
<1>2. /\ op \in [Sides -> Operation] /\ vote \in [Sides -> [Votes -> Vote]]
      /\ \A z \in Sides, v \in Votes : VoteOK(vote[z][v])
  BY DEF IInv, Types
<1>3. PICK p : /\ op' = [op EXCEPT ![x] = p]
               /\ \E w \in [Votes -> Vote] : OperationTurn(w, op[x], p) /\ Counted(x, w)
  BY DEF SideTurn
<1>4. PICK u \in [Votes -> Vote] :
          /\ vote' = [vote EXCEPT ![x] = u]
          /\ \A v \in Votes :
                /\ VoteOK(u[v])
                /\ u[v].granted => Hold(x, v)
                /\ u[v].answered /\ u[v].safe => Share(x, v)
                /\ vote[x][v].reverted => u[v].reverted /\ (~vote[x][v].safe => ~u[v].safe)
  BY DEF SideTurn
<1>5. p \in Operation
  BY <1>3 DEF OperationTurn
<1> HIDE DEF y
<1>6. op' \in [Sides -> Operation] /\ op'[x] = p /\ op'[y] = op[y]
  BY <1>1, <1>2, <1>3, <1>5
<1>7. vote' \in [Sides -> [Votes -> Vote]] /\ vote'[x] = u /\ vote'[y] = vote[y]
  BY <1>1, <1>2, <1>4
<1>8. replies' \subseteq replies
  BY DEF SideTurn
<1>9. \A v \in Votes : /\ VoteOK(vote'[x][v])
                       /\ Hold(x, v)' => Hold(x, v)
                       /\ Share(x, v)' => Share(x, v)
  BY <1>4, <1>7, <1>8 DEF Hold, Share
<1>10. \A v \in Votes : /\ VoteOK(vote'[y][v])
                        /\ Hold(y, v)' => Hold(y, v)
                        /\ Share(y, v)' => Share(y, v)
  BY <1>1, <1>2, <1>7, <1>8 DEF Hold, Share
<1>11. QED
  BY <1>1, <1>3, <1>4, <1>6, <1>7, <1>9, <1>10 DEF y

\* The invariant after a step of a side.
LEMMA SideTurnInv ==
    ASSUME IInv, NEW x \in Sides, SideTurn(x)
    PROVE  IInv'
<1> DEFINE y == Other(x)
<1>1. y \in Sides /\ y # x /\ Other(y) = x /\ Other(x) = y /\ Sides = {x, y}
  BY OtherOK
<1>2. PICK w \in [Votes -> Vote] : OperationTurn(w, op[x], op'[x]) /\ Counted(x, w)
  BY SideFrame
<1>3. /\ op' \in [Sides -> Operation] /\ vote' \in [Sides -> [Votes -> Vote]]
      /\ op'[y] = op[y] /\ vote'[y] = vote[y]
      /\ \A z \in Sides, v \in Votes :
            /\ VoteOK(vote'[z][v])
            /\ Hold(z, v)' => Hold(z, v)
            /\ Share(z, v)' => Share(z, v)
      /\ \A v \in Votes : vote[x][v].reverted => /\ vote'[x][v].reverted
                                                 /\ ~vote[x][v].safe => ~vote'[x][v].safe
  BY SideFrame
<1>4. /\ replies' \subseteq replies /\ UNCHANGED <<lease, arbiter>>
      /\ \A r \in requests' \cup calls' :
            r \in requests \cup calls \/ (r \in Req /\ r.from = x /\ RequestOK(r)')
  BY DEF SideTurn
<1> HIDE DEF y
<1>5. Types'
  <2>1. requests' \subseteq Req /\ calls' \subseteq Req
    BY <1>4 DEF IInv, Types
  <2>2. QED
    BY <1>3, <1>4, <2>1 DEF IInv, Types
<1>6. \A r \in requests' \cup calls' : RequestOK(r)'
  <2>1. SUFFICES ASSUME NEW r \in requests \cup calls
                 PROVE  RequestOK(r)'
    BY <1>4
  <2>2. RequestOK(r) /\ r \in Req /\ r.from \in Sides /\ r.to \in Votes
    BY DEF IInv, Types, Req
  <2>3. CASE r.from = x
    BY <1>2, <1>3, <2>2, <2>3 DEF RequestOK, OperationTurn
  <2>4. CASE r.from = y
    BY <1>3, <2>2, <2>4 DEF RequestOK
  <2>5. QED
    BY <1>1, <2>2, <2>3, <2>4
<1>7. \A z \in Sides : op'[z].local <=> op'[z].partial
  BY <1>1, <1>2, <1>3 DEF IInv, OperationTurn
<1>8. /\ Type' = Type
      /\ \A z \in Sides, v \in Votes : Grants(v, z)' = Grants(v, z) /\ Withholds(v, z)' = Withholds(v, z)
      /\ \A Q : Majority(Q)' <=> Majority(Q)
  BY <1>4 DEF Type, Grants, Withholds, Majority
<1>9. lease \in Leases /\ Type \notin RevertTypes /\ RevertToReject \in RevertTypes
  BY LeaseOK DEF IInv, Types, RevertTypes
<1>10. /\ Exclusive(x) /\ LocalHolds(x) /\ WonHolds(x) /\ OneVerdict(x)
       /\ Exclusive(y) /\ LocalHolds(y) /\ WonHolds(y) /\ OneVerdict(y)
  BY <1>1 DEF IInv
<1>11. /\ Keeps(x)' => Keeps(x)
       /\ Keeps(y)' <=> Keeps(y)
  BY <1>2, <1>3, <1>8 DEF Keeps, OperationTurn
<1>12. Exclusive(x)' /\ Exclusive(y)'
  <2>1. ASSUME NEW z \in Sides, Keeps(z)' => Keeps(z), Exclusive(z)
        PROVE  Exclusive(z)'
    BY <1>3, <1>8, <2>1, OtherOK DEF Exclusive
  <2>2. QED
    BY <1>1, <1>10, <1>11, <2>1
\* The votes by which x may live, and those by which it wins.
<1> DEFINE A == {v \in Votes : w[v].answered /\ w[v].safe}
           G == {v \in Votes : w[v].granted}
<1>13. /\ op'[x].local /\ ~op[x].local => Majority(A)
       /\ op'[x].remoteDown /\ ~op[x].remoteDown => Keeps(x) /\ Keeps(x)' /\ Majority(G)
       /\ \A v \in A : Share(x, v)
       /\ \A v \in G : Hold(x, v)
  BY <1>2, <1>8, <1>11 DEF OperationTurn, Counted, Keeps
<1> HIDE DEF A, G
<1>14. LocalHolds(x)'
  BY <1>1, <1>3, <1>8, <1>10, <1>11 DEF LocalHolds, Majority
<1>15. LocalHolds(y)'
  <2>1. SUFFICES ASSUME Keeps(y), op'[x].local, op'[x].revert # RevertToReject
                 PROVE  \E Q : Majority(Q) /\ \A v \in Q : ~Hold(y, v)' /\ Withholds(v, y)'
    BY <1>1, <1>8, <1>11 DEF LocalHolds
  <2>2. CASE op[x].local
    <3>1. op[x].revert # RevertToReject
      BY <1>2, <1>9, <2>1 DEF OperationTurn
    <3>2. QED
      BY <1>1, <1>3, <1>8, <1>10, <2>1, <2>2, <3>1 DEF LocalHolds, Majority
  <2>3. CASE ~op[x].local
    <3>1. Majority(A)
      BY <1>13, <2>1, <2>3
    <3>2. \A v \in A : ~Hold(y, v) /\ Withholds(v, y)
      BY <1>1, <1>10, <1>13, <2>1, <3>1 DEF Exclusive, Majority
    <3>3. \A v \in A : ~Hold(y, v)' /\ Withholds(v, y)'
      BY <1>1, <1>3, <1>8, <3>1, <3>2 DEF Majority
    <3>4. QED
      BY <3>1, <3>3
  <2>4. QED
    BY <2>2, <2>3
<1>16. WonHolds(x)'
  <2>1. SUFFICES ASSUME op'[x].remoteDown
                 PROVE  /\ Keeps(x)' /\ op'[x].completed /\ op'[x].local
                        /\ \E Q : Majority(Q) /\ \A v \in Q : ~Share(y, v)' /\ Grants(v, x)'
    BY <1>1, <1>8 DEF WonHolds
  <2>2. op'[x].completed /\ op'[x].local
    BY <1>2, <2>1 DEF OperationTurn
  <2>3. CASE op[x].remoteDown
    <3>1. Keeps(x) /\ Keeps(x)'
      BY <1>2, <1>8, <1>10, <2>1, <2>3 DEF WonHolds, Keeps, OperationTurn
    <3>2. PICK Q : Majority(Q) /\ \A v \in Q : ~Share(y, v) /\ Grants(v, x)
      BY <1>1, <1>10, <2>3 DEF WonHolds
    <3>3. \A v \in Q : ~Share(y, v)' /\ Grants(v, x)'
      BY <1>1, <1>3, <1>8, <3>2 DEF Majority
    <3>4. QED
      BY <2>2, <3>1, <3>2, <3>3
  <2>4. CASE ~op[x].remoteDown
    <3>1. Keeps(x) /\ Keeps(x)' /\ Majority(G)
      BY <1>13, <2>1, <2>4
    <3>2. \A v \in G : ~Share(y, v) /\ Grants(v, x)
      BY <1>1, <1>10, <1>13, <3>1 DEF Exclusive, Majority
    <3>3. \A v \in G : ~Share(y, v)' /\ Grants(v, x)'
      BY <1>1, <1>3, <1>8, <3>1, <3>2 DEF Majority
    <3>4. QED
      BY <2>2, <3>1, <3>3
  <2>5. QED
    BY <2>3, <2>4
<1>17. WonHolds(y)'
  <2>1. SUFFICES ASSUME op[y].remoteDown
                 PROVE  /\ Keeps(y)' /\ op'[y].completed /\ op'[y].local
                        /\ \E Q : Majority(Q) /\ \A v \in Q : ~Share(x, v)' /\ Grants(v, y)'
    BY <1>1, <1>3, <1>8 DEF WonHolds
  <2>2. Keeps(y) /\ op[y].completed /\ op[y].local
    BY <1>10, <2>1 DEF WonHolds
  <2>3. PICK Q : Majority(Q) /\ \A v \in Q : ~Share(x, v) /\ Grants(v, y)
    BY <1>1, <1>10, <2>1 DEF WonHolds
  <2>4. \A v \in Q : ~Share(x, v)' /\ Grants(v, y)'
    BY <1>1, <1>3, <1>8, <2>3 DEF Majority
  <2>5. QED
    BY <1>3, <1>11, <2>2, <2>3, <2>4
<1>18. OneVerdict(x)'
  <2>1. SUFFICES ASSUME op'[x].remoteDown, op[y].local, op[y].revert # RevertToReject
                 PROVE  FALSE
    BY <1>1, <1>3 DEF OneVerdict
  <2>2. ~op[x].remoteDown
    BY <1>1, <1>10, <2>1 DEF OneVerdict
  <2>3. Keeps(x) /\ Majority(G)
    BY <1>13, <2>1, <2>2
  <2>4. PICK Q : Majority(Q) /\ \A v \in Q : ~Hold(x, v)
    BY <1>1, <1>10, <2>1, <2>3 DEF LocalHolds
  <2>5. QED
    BY <1>13, <2>3, <2>4, MajoritiesMeet
<1>19. OneVerdict(y)'
  <2>1. SUFFICES ASSUME op[y].remoteDown, op'[x].local, op'[x].revert # RevertToReject
                 PROVE  FALSE
    BY <1>1, <1>3 DEF OneVerdict
  <2>2. ~op[x].local
    BY <1>1, <1>2, <1>9, <1>10, <2>1 DEF OneVerdict, OperationTurn
  <2>3. Majority(A)
    BY <1>13, <2>1, <2>2
  <2>4. PICK Q : Majority(Q) /\ \A v \in Q : ~Share(x, v)
    BY <1>1, <1>10, <2>1 DEF WonHolds
  <2>5. QED
    BY <1>13, <2>3, <2>4, MajoritiesMeet
<1>20. /\ \A v \in Votes : ArbiterOK(arbiter'[v])
       /\ \A m \in replies' : m.rejected => ~m.granted /\ m.kind = "reply"
  BY <1>4 DEF IInv
<1>21. \A z \in Sides : Exclusive(z)' /\ LocalHolds(z)' /\ WonHolds(z)' /\ OneVerdict(z)'
  BY <1>1, <1>12, <1>14, <1>15, <1>16, <1>17, <1>18, <1>19
<1>22. QED
  BY <1>3, <1>5, <1>6, <1>7, <1>20, <1>21 DEF IInv

-----------------------------------------------------------------------------
(***************************************************************************)
(* Types, and one verdict.                                                 *)
(***************************************************************************)

\* The invariant at the start: nobody has asked.
LEMMA InitInv ==
    ASSUME Init
    PROVE  IInv
<1>1. lease \in Leases /\ Type \in TwoWayTypes /\ Type # RevertToReject
  BY LeaseOK DEF Init, TwoWayTypes, TwoWaySimple, TwoWayExtended
<1>2. arbiter \in [Votes -> Arbiter] /\ \A v \in Votes : ArbiterOK(arbiter[v])
  <2>1. arbiter = [v \in Votes |-> FreshArbiter(FALSE)]
    BY DEF Init
  <2>2. FreshArbiter(FALSE) \in Arbiter /\ \A z \in Sides : FreshArbiter(FALSE).decision[z] = None
        /\ FreshArbiter(FALSE).restarted = FALSE
    BY DEF FreshArbiter, Arbiter, Decisions
  <2>3. ArbiterOK(FreshArbiter(FALSE))
    BY <2>2, OtherOK DEF ArbiterOK, Agree, None, Grant, Delay, Neutral
  <2>4. QED
    BY <2>1, <2>2, <2>3
<1>3. /\ vote \in [Sides -> [Votes -> Vote]]
      /\ \A x \in Sides, v \in Votes : ~vote[x][v].answered /\ ~vote[x][v].granted /\ ~vote[x][v].reverted
  BY DEF Init, Vote
<1>4. /\ op \in [Sides -> Operation]
      /\ \A x \in Sides : op[x].revert = Type /\ ~op[x].local /\ ~op[x].partial /\ ~op[x].remoteDown
  BY <1>1 DEF Init, Operation
<1>5. requests = {} /\ calls = {} /\ replies = {}
  BY DEF Init
<1>6. Types
  BY <1>1, <1>2, <1>3, <1>4, <1>5 DEF Types
<1>7. \A x \in Sides, v \in Votes : VoteOK(vote[x][v]) /\ ~Hold(x, v) /\ ~Share(x, v)
  BY <1>3, <1>5 DEF VoteOK, Hold, Share
<1>8. \A x \in Sides : Exclusive(x) /\ LocalHolds(x) /\ WonHolds(x) /\ OneVerdict(x)
  BY <1>4, <1>7, OtherOK DEF Exclusive, LocalHolds, WonHolds, OneVerdict
<1>9. QED
  BY <1>2, <1>4, <1>5, <1>6, <1>7, <1>8 DEF IInv

\* The invariant after every step.
LEMMA NextInv ==
    ASSUME IInv, [Next]_vars
    PROVE  IInv'
<1>1. CASE ArbiterStep
  BY <1>1, ArbiterStepOK, ArbiterTurnInv
<1>2. CASE \E x \in Sides : SideStep(x)
  BY <1>2, SideStepOK, SideTurnInv
<1>3. CASE UNCHANGED vars
  <2>1. UNCHANGED <<lease, arbiter, vote, op, requests, calls, replies>>
    BY <1>3 DEF vars
  <2>2. PICK x \in Sides : TRUE
    BY SidesAssumption
  <2>3. QED
    BY <2>1, IdleOK, SideTurnInv
<1>4. QED
  BY <1>1, <1>2, <1>3 DEF Next

-----------------------------------------------------------------------------
(***************************************************************************)
(* Leases of which all arbiters know the same.                             *)
(***************************************************************************)

\* A step of an arbiter.
LEMMA ArbiterTurnEven ==
    ASSUME IInv, UInv, ArbiterTurn
    PROVE  UInv'
<1>1. PICK v, b :
         /\ v \in Votes
         /\ Turn(v, b) /\ arbiter' = [arbiter EXCEPT ![v] = b]
         /\ \A m \in replies' : m \in replies \/ Tells(v, b, m)
  BY DEF ArbiterTurn
<1>v. v \in Votes
  BY <1>1
<1>2. UNCHANGED <<lease, vote, op>>
  BY DEF ArbiterTurn
<1>3. /\ arbiter \in [Votes -> Arbiter] /\ lease \in Leases /\ b \in Arbiter
      /\ replies \subseteq Reply
  BY <1>1 DEF IInv, Types, Turn
<1>4. /\ (Compared' <=> Compared) /\ (Unknown' <=> Unknown) /\ Type' = Type /\ Quorum' = Quorum
      /\ \A x \in Sides : (Keeps(x)' <=> Keeps(x)) /\ (GivesBack(x)' <=> GivesBack(x))
                             /\ (Unstarted(x)' <=> Unstarted(x))
  BY <1>2, OtherOK DEF Compared, Unknown, Keeps, GivesBack, Unstarted, Type, Continuous, Quorum
<1>5. \A m \in replies' :
         m \in replies \/ /\ m \in Reply /\ m.continuous = (v \in Continuous)
                          /\ m.granted <=> b.decision[m.to] = Grant
                          /\ ~m.rejected => b.decision[m.to] \in {Grant, Delay, Neutral}
                          /\ m.kind = "delayed" => arbiter[v].decision[m.to] = Delay
                                                    \/ Backs(v, Other(m.to), RevertTypes)
  BY <1>1 DEF Tells
<1>6. ASSUME Compared
      PROVE  ComparedOK' /\ \A x \in Sides : PeerGivesBack(x)'
  <2>1. ComparedOK /\ \A x \in Sides : PeerGivesBack(x)
    BY <1>6 DEF UInv
  <2>2. ~ \E z \in Sides : Backs(v, z, {RevertToNeutral})
    <3>1. \A r \in requests : RequestOK(r) /\ r.from \in Sides
      BY DEF IInv, Types, Req
    <3>2. QED
      BY <2>1, <3>1 DEF ComparedOK, RequestOK, Backs, RevertTypes
  <2>3. \A z \in Sides : b.decision[z] \in {None, Grant, Reject}
    BY <1>1, <1>6, <2>1, <2>2 DEF Turn, ComparedOK
  <2>4. \A u \in Votes, z \in Sides : arbiter'[u].decision[z] \in {None, Grant, Reject}
    BY <1>1, <1>3, <2>1, <2>3 DEF ComparedOK
  <2>5. ASSUME NEW m \in replies'
        PROVE  (m.rejected \/ m.granted) /\ (Type = TwoWayExtended => m.continuous)
    <3>1. CASE m \in replies
      BY <2>1, <3>1 DEF ComparedOK
    <3>2. CASE m \notin replies
      <4>1. m.to \in Sides /\ b.decision[m.to] \in {None, Grant, Reject}
        BY <1>5, <2>3, <3>2 DEF Reply
      <4>2. m.rejected \/ m.granted
        BY <1>5, <3>2, <4>1 DEF None, Grant, Reject, Delay, Neutral
      <4>3. Type = TwoWayExtended => v \in Continuous
        BY <1>6, <1>v DEF Compared, TwoWaySimple, TwoWayExtended
      <4>4. QED
        BY <1>5, <3>2, <4>2, <4>3
    <3>3. QED
      BY <3>1, <3>2
  <2>6. \A x \in Sides : op'[x].revert # RevertToNeutral /\ \A u \in Votes : Even(vote[x][u])'
    BY <1>2, <1>4, <2>1 DEF ComparedOK, Even
  <2>7. ASSUME NEW x \in Sides
        PROVE  PeerGivesBack(x)'
    <3>1. SUFFICES ASSUME Keeps(x), NEW m \in replies', m.to = Other(x)
                   PROVE  m.kind = "reply"
      BY <1>4, <2>1, OtherOK DEF PeerGivesBack
    <3>2. CASE m \in replies
      BY <2>1, <3>1, <3>2 DEF PeerGivesBack
    <3>3. CASE m \notin replies
      <4>1. ~Backs(v, x, RevertTypes)
        BY <3>1, <1>v, BacksOK
      <4>2. arbiter[v].decision[Other(x)] # Delay
        BY <2>1, <1>v, OtherOK DEF ComparedOK, None, Grant, Reject, Delay
      <4>3. Other(Other(x)) = x /\ m.kind \in {"reply", "delayed"}
        BY <1>5, <3>3, OtherOK DEF Reply
      <4>4. QED
        BY <1>5, <3>1, <3>3, <4>1, <4>2, <4>3
    <3>4. QED
      BY <3>2, <3>3
  <2>8. QED
    BY <1>4, <2>4, <2>5, <2>6, <2>7 DEF ComparedOK
<1>7. ASSUME Unknown
      PROVE  UnknownOK'
  BY <1>2, <1>5, <1>7 DEF UInv, UnknownOK, Unknown
<1>8. \A x \in Sides : Unstarted(x)' /\ op'[x].revert \in {Type'} \cup RevertTypes
  BY <1>2, <1>4 DEF UInv
<1>9. QED
  BY <1>4, <1>6, <1>7, <1>8 DEF UInv

\* A step of a side.
LEMMA SideTurnEven ==
    ASSUME IInv, UInv, NEW x \in Sides, SideTurn(x), EvenTurn(x)
    PROVE  UInv'
<1> DEFINE y == Other(x)
<1>1. y \in Sides /\ y # x /\ Other(y) = x /\ y = Other(x) /\ Sides = {x, y}
  BY OtherOK
<1>2. op'[y] = op[y] /\ vote'[y] = vote[y]
  BY SideFrame
<1>3. replies' \subseteq replies /\ UNCHANGED <<lease, arbiter>>
  BY DEF SideTurn
<1> HIDE DEF y
<1>4. (Compared' <=> Compared) /\ (Unknown' <=> Unknown) /\ Type' = Type /\ Quorum' = Quorum
  BY <1>3 DEF Compared, Unknown, Type, Continuous, Quorum
<1>5. /\ Keeps(y)' <=> Keeps(y)
      /\ Keeps(x)' => Keeps(x)
      /\ GivesBack(y)' <=> GivesBack(y)
      /\ Unstarted(y)' <=> Unstarted(y)
  <2>1. Keeps(x)' => Keeps(x)
    <3>1. PICK w \in [Votes -> Vote] : OperationTurn(w, op[x], op'[x])
      BY SideFrame
    <3>2. QED
      BY <1>4, <3>1 DEF OperationTurn, Keeps
  <2>2. QED
    BY <1>2, <1>4, <2>1 DEF Keeps, GivesBack, Unstarted
<1>6. ASSUME Compared
      PROVE  ComparedOK' /\ \A z \in Sides : PeerGivesBack(z)'
  <2>1. ComparedOK /\ PeerGivesBack(x) /\ PeerGivesBack(y)
    BY <1>1, <1>6 DEF UInv
  <2>2. /\ op'[x].revert # RevertToNeutral /\ \A v \in Votes : Even(vote'[x][v])
        /\ Keeps(y) => GivesBack(x)'
    BY <1>1, <1>6 DEF EvenTurn
  <2>3. \A z \in Sides : op'[z].revert # RevertToNeutral /\ \A v \in Votes : Even(vote'[z][v])
    BY <1>1, <1>2, <2>1, <2>2 DEF ComparedOK
  <2>4. \A z \in Sides, v \in Votes : Even(vote[z][v])'
    BY <1>4, <2>3 DEF Even
  <2>5. ComparedOK'
    BY <1>3, <1>4, <2>1, <2>3, <2>4 DEF ComparedOK
  <2>6. PeerGivesBack(x)'
    BY <1>1, <1>3, <1>5, <2>1 DEF PeerGivesBack
  <2>7. PeerGivesBack(y)'
    BY <1>1, <1>3, <1>5, <2>1, <2>2 DEF PeerGivesBack
  <2>8. QED
    BY <1>1, <2>5, <2>6, <2>7
<1>7. ASSUME Unknown
      PROVE  UnknownOK'
  <2>1. UnknownOK
    BY <1>7 DEF UInv
  <2>2. /\ op'[x].revert = RevertToReject => op'[x].completed /\ ~op'[x].local
        /\ \A v \in Votes : ~vote'[x][v].continuous
    BY <1>7 DEF EvenTurn
  <2>3. QED
    BY <1>1, <1>2, <1>3, <2>1, <2>2 DEF UnknownOK
<1>8. \A z \in Sides : Unstarted(z)' /\ op'[z].revert \in {Type'} \cup RevertTypes
  BY <1>1, <1>2, <1>4, <1>5 DEF UInv, EvenTurn
<1>9. QED
  BY <1>4, <1>6, <1>7, <1>8 DEF UInv

\* At the start.
LEMMA InitEven ==
    ASSUME Init
    PROVE  UInv
<1>1. /\ \A v \in Votes, x \in Sides : arbiter[v].decision[x] = None
      /\ \A x \in Sides : op[x].revert = Type
      /\ \A x \in Sides, v \in Votes : ~vote[x][v].answered /\ ~vote[x][v].granted /\ ~vote[x][v].continuous
      /\ replies = {}
  BY DEF Init, FreshArbiter
<1>2. lease \in Leases /\ Type # RevertToNeutral /\ Type # RevertToReject
  BY LeaseOK DEF Init
<1>3. UInv
  BY <1>1, <1>2, OtherOK DEF UInv, ComparedOK, UnknownOK, PeerGivesBack, GivesBack, Unstarted, Even
<1>4. QED
  BY <1>3

\* After every step.
LEMMA NextEven ==
    ASSUME IInv, UInv, [Next]_vars
    PROVE  UInv'
<1>1. CASE ArbiterStep
  BY <1>1, ArbiterStepOK, ArbiterTurnEven
<1>2. CASE \E x \in Sides : SideStep(x)
  BY <1>2, SideStepOK, SideTurnEven
<1>3. CASE UNCHANGED vars
  <2>1. UNCHANGED <<lease, arbiter, vote, op, requests, calls, replies>>
    BY <1>3 DEF vars
  <2>2. PICK x \in Sides : TRUE
    BY SidesAssumption
  <2>3. SideTurn(x) /\ EvenTurn(x)
    BY <2>1, IdleOK
  <2>4. QED
    BY <2>3, SideTurnEven
<1>4. QED
  BY <1>1, <1>2, <1>3 DEF Next

-----------------------------------------------------------------------------
(***************************************************************************)
(* The theorems.                                                           *)
(***************************************************************************)

\* The lease, the arbiters, and the ArbitrationVotes and ArbitrationOperation of each
\* side have the types their code declares, in every reachable state.
THEOREM TypeCorrect == Spec => []TypeOK
<1>1. IInv => TypeOK
  BY DEF IInv, Types, TypeOK, Arbiter, Vote, Operation
<1>2. QED
  BY <1>1, InitInv, NextInv, PTL DEF Spec

\* When one side is told that its peer is down (remoteDown, a majority of grants it did
\* not give back), the peer is never told the same, and may only have been told to live
\* if it gave back its own grants as rejections (RevertToReject), whatever the arbiters
\* remember of the lease and whatever is lost, late or restarted.
THEOREM WinnerIsAlone ==
    Spec => [](\A x \in Sides : OneVerdict(x) /\ ~(op[x].remoteDown /\ op[Other(x)].remoteDown))
<1>1. ASSUME IInv, NEW x \in Sides
      PROVE  OneVerdict(x) /\ ~(op[x].remoteDown /\ op[Other(x)].remoteDown)
  <2>1. OneVerdict(x) /\ WonHolds(Other(x)) /\ lease \in Leases
    BY <1>1, OtherOK DEF IInv, Types
  <2>2. QED
    BY <2>1, LeaseOK DEF OneVerdict, WonHolds, Keeps
<1>2. IInv => \A x \in Sides : OneVerdict(x) /\ ~(op[x].remoteDown /\ op[Other(x)].remoteDown)
  BY <1>1
<1>3. QED
  BY <1>2, InitInv, NextInv, PTL DEF Spec

\* When all the arbiters know the same of the lease, a side that is told its peer is
\* down and a peer that is told it may live exclude each other (CheckState's two
\* majorities, RevertToReject), for any number of arbiters.
THEOREM NoSplitVerdictSameMemory ==
    (\A l \in Leases : l.type = TwoWaySimple \/ l.continuous \in {{}, Votes})
        => (Spec => []NoSplitVerdict)
<1> SUFFICES ASSUME \A l \in Leases : l.type = TwoWaySimple \/ l.continuous \in {{}, Votes}
             PROVE  Spec => []NoSplitVerdict
  OBVIOUS
<1>1. IInv => Compared \/ Unknown
  BY LeaseOK DEF IInv, Types, Compared, Unknown, Type, Continuous, TwoWaySimple, TwoWayExtended
<1>2. ASSUME IInv, UInv, NEW x \in Sides, op[x].remoteDown, op[Other(x)].local
      PROVE  FALSE
  <2>1. Keeps(x) /\ op[Other(x)].revert = RevertToReject /\ Other(x) \in Sides
    BY <1>2, OtherOK DEF IInv, OneVerdict, WonHolds
  <2>2. QED
    BY <1>1, <1>2, <2>1 DEF UInv, UnknownOK, PeerGivesBack, GivesBack
<1>3. IInv /\ UInv => NoSplitVerdict
  BY <1>2 DEF NoSplitVerdict
<1>4. QED
  BY <1>3, InitInv, NextInv, InitEven, NextEven, PTL DEF Spec

=============================================================================
