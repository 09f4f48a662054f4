----------------------- MODULE Arbitration_survival -----------------------
(***************************************************************************)
(* A theorem about Arbitration, for any set of arbiters and any kinds of   *)
(* leases: as long as nothing fails, the two sides of a lease are not both *)
(* told to go down.                                                        *)
(***************************************************************************)
EXTENDS Arbitration_proofs

-----------------------------------------------------------------------------
(***************************************************************************)
(* The inductive invariant, of a system in which nothing failed.           *)
(***************************************************************************)

\* x has, or is told, a rejection at arbiter v that is not the grant it gave back.
Told(x, v) ==
    /\ ~vote[x][v].reverted
    /\ \/ ~vote[x][v].safe
       \/ \E m \in replies : m.to = x /\ m.from = v /\ m.rejected

\* Arbiter v has decided for x, against its peer.
For(d, x) == d[x] \in {None, Grant} /\ d[Other(x)] = Reject
Decided(x, v) == For(arbiter[v].decision, x)

\* The arbiters that do not reject x: the others cannot get x to go down.
Beat(x) == {v \in Votes : vote[x][v].reverted \/ (Decided(x, v) /\ ~Told(x, v))}

Down(x) == op[x].revert = RevertToReject \/ (op[x].completed /\ ~op[x].local)

\* A grant of arbiter v was given back as a neutral outcome.
NeutralBack(v) == \E z \in Sides : vote[z][v].reverted /\ vote[z][v].safe

\* Who is told a rejection has a peer for whom the arbiter has decided.
ToldOK(x) == \A v \in Votes : Told(x, v) => Decided(Other(x), v) \/ vote[Other(x)][v].reverted

\* A vote without an answer was asked once, and its call is pending.
VoteFresh(o, w) ==
    /\ ~w.answered => /\ w.count <= 1 /\ ~w.reverted /\ w.safe
                      /\ o.started => w.pending
                      /\ ~o.started => w.count = 0
    /\ ~o.started => ~w.answered
    /\ w.reverted => o.revert # Type /\ (w.safe <=> o.revert = RevertToNeutral)

Fresh(x) ==
    /\ ~op[x].started => op[x].revert = Type /\ ~op[x].completed
    /\ \A v \in Votes : VoteFresh(op[x], vote[x][v])

\* An arbiter compares the two sides with one result for both, and leaves neither out.
\* neutral: a grant of it was given back as a neutral outcome.
StrongArbiter(a, neutral) ==
    /\ ~a.restarted
    /\ \A x \in Sides :
          /\ ~IsPresent(a.decision[x]) => ~a.strong[x]
          /\ IsPresent(a.decision[x]) /\ IsPresent(a.decision[Other(x)]) => a.strong[x] = a.strong[Other(x)]
          /\ a.strong[x] /\ a.decision[x] \in {Neutral, Delay} => neutral
          /\ a.decision[x] = Delay => ~a.strong[x]
          /\ ~(a.decision[x] = Reject /\ a.decision[Other(x)] = Reject)

\* What the vote or the reply, w, of arbiter a says of x.
StrongVote(a, x, w, neutral) ==
    w.answered => /\ IsPresent(a.decision[x]) /\ w.strong = a.strong[x]
                  /\ w.safe /\ ~w.granted /\ w.strong => neutral

StrongReply(a, m, neutral) ==
    /\ IsPresent(a.decision[m.to]) /\ m.strong = a.strong[m.to]
    /\ m.strong /\ ~m.granted /\ ~m.rejected => neutral

Strong ==
    /\ \A v \in Votes : StrongArbiter(arbiter[v], NeutralBack(v))
    /\ \A v \in Votes, x \in Sides : StrongVote(arbiter[v], x, vote[x][v], NeutralBack(v))
    /\ \A m \in replies : StrongReply(arbiter[m.from], m, NeutralBack(m.from))

\* How many of the arbiters S found x the stronger side, or the weaker one.
Strongs(x, S) == {v \in S : arbiter[v].strong[x]}
SC(x, S) == Cardinality(Strongs(x, S))

\* x loses the tie of g strong grants against r strong rejections.
TieLost(x, g, r) ==
    IF Type = TwoWaySimple THEN x # Preferred ELSE g < r \/ (g = r /\ x # Preferred)

\* y gives way with half of the arbiters, B, against it.
Yields(y, B) ==
    /\ op[y].revert = RevertToReject
    /\ \A v \in Votes : vote[y][v].answered
    /\ TieLost(y, SC(y, Votes \ B), SC(y, B))

\* A side that goes down does so for a majority, or for a half that wins the tie, that
\* never rejects its peer.
DownOK(y) ==
    Down(y) => \/ Cardinality(Beat(Other(y))) >= Quorum
               \/ /\ 2 * Cardinality(Beat(Other(y))) = Cardinality(Votes)
                  /\ Yields(y, Beat(Other(y)))

Survival ==
    /\ \A x \in Sides : ToldOK(x) /\ Fresh(x) /\ DownOK(x) /\ ~(Down(x) /\ Down(Other(x)))
    /\ Strong

SInv == failures \in Nat /\ (failures = 0 => Survival)

-----------------------------------------------------------------------------
(***************************************************************************)
(* Counting arbiters.                                                      *)
(***************************************************************************)

\* A larger set of arbiters counts more, and one that counts the same is the same.
LEMMA SubsetCounts ==
    ASSUME NEW T, T \subseteq Votes, NEW S, S \subseteq T
    PROVE  /\ Cardinality(S) \in Nat /\ Cardinality(T) \in Nat
           /\ Cardinality(S) <= Cardinality(T) /\ Cardinality(T) <= Cardinality(Votes)
           /\ Cardinality(S) = Cardinality(T) => S = T
<1>1. IsFiniteSet(T) /\ IsFiniteSet(S)
  BY QuorumOK, FS_Subset
<1>2. Cardinality(S) \in Nat /\ Cardinality(T) \in Nat
  BY <1>1, FS_CardinalityType
<1>3. Cardinality(S) <= Cardinality(T) /\ (Cardinality(S) = Cardinality(T) => S = T)
  BY <1>1, FS_Subset
<1>4. Cardinality(T) <= Cardinality(Votes)
  BY QuorumOK, FS_Subset
<1>5. QED
  BY <1>2, <1>3, <1>4

\* A set of arbiters and the others.
LEMMA OthersCount ==
    ASSUME NEW S, S \subseteq Votes
    PROVE  Cardinality(S) + Cardinality(Votes \ S) = Cardinality(Votes)
<1> DEFINE T == Votes \ S
<1>1. IsFiniteSet(S) /\ IsFiniteSet(T) /\ S \cap T = {} /\ S \cup T = Votes
  BY QuorumOK, FS_Subset
<1> HIDE DEF T
<1>2. /\ Cardinality(S) \in Nat /\ Cardinality(T) \in Nat
      /\ Cardinality(S \cup T) = Cardinality(S) + Cardinality(T) - Cardinality(S \cap T)
  BY <1>1, FS_Union, FS_CardinalityType
<1>3. Cardinality(S \cap T) = 0 /\ Cardinality(S \cup T) = Cardinality(Votes)
  BY <1>1, FS_EmptySet
<1>4. QED
  BY <1>2, <1>3 DEF T

\* Half of the arbiters, and one more.
LEMMA HalfCounts ==
    ASSUME NEW k \in Nat
    PROVE  /\ 2 * k > Cardinality(Votes) <=> k >= Quorum
           /\ k < Quorum => 2 * (Cardinality(Votes) - k) >= Cardinality(Votes)
  BY QuorumOK DEF Quorum

-----------------------------------------------------------------------------
(***************************************************************************)
(* The steps of an arbiter.                                                *)
(***************************************************************************)

\* Arbiter v becomes b.  It stays as strong for whoever has asked, and decided for one
\* side unless that side gives back.
FairTurn(v, b) ==
    /\ StrongArbiter(b, NeutralBack(v))
    /\ \A z \in Sides :
          /\ IsPresent(arbiter[v].decision[z]) =>
                IsPresent(b.decision[z]) /\ b.strong[z] = arbiter[v].strong[z]
          /\ Decided(z, v) => For(b.decision, z) \/ vote[z][v].reverted

\* Every arbiter does, and tells what it is.
FairTurns ==
    /\ \A v \in Votes : FairTurn(v, arbiter'[v])
    /\ \A m \in replies' : m \in replies \/ m.strong = arbiter'[m.from].strong[m.to]
    /\ UNCHANGED failures

\* The arbiter that has decided differs from what it was only in what it decided.
LEMMA FairOne ==
    ASSUME IInv, Survival, NEW v \in Votes, NEW b, FairTurn(v, b),
           arbiter' = [arbiter EXCEPT ![v] = b],
           \A m \in replies' : m \in replies \/ (m.from = v /\ m.strong = b.strong[m.to]),
           UNCHANGED failures
    PROVE  FairTurns
<1>1. arbiter \in [Votes -> Arbiter]
  BY DEF IInv, Types
<1>2. arbiter'[v] = b /\ \A u \in Votes \ {v} : arbiter'[u] = arbiter[u]
  BY <1>1
<1>3. ASSUME NEW u \in Votes, u # v
      PROVE  FairTurn(u, arbiter'[u])
  BY <1>2, <1>3 DEF Survival, Strong, FairTurn, Decided
<1>4. \A u \in Votes : FairTurn(u, arbiter'[u])
  BY <1>2, <1>3
<1>5. QED
  BY <1>2, <1>4 DEF FairTurns

\* What x gets when it asks, and how strong it then is.
LEMMA AskFair ==
    ASSUME NEW a \in Arbiter, ArbiterOK(a), NEW neutral, StrongArbiter(a, neutral), NEW x \in Sides,
           NEW cont \in BOOLEAN, NEW type \in TwoWayTypes,
           NEW d \in AskOutcomes(type, cont, a.decision, x, Other(x)), NEW s \in BOOLEAN,
           \/ /\ ~IsPresent(a.decision[x]) /\ ~IsPresent(a.decision[Other(x)])
              /\ FirstVerdicts(type, cont) = {Grant, Reject}
           \/ s <=> a.strong[x] \/ (IsPresent(a.decision[Other(x)]) /\ a.strong[Other(x)]),
           NEW b \in Arbiter, b.decision = d, b.strong = [a.strong EXCEPT ![x] = s], ~b.restarted
    PROVE  /\ StrongArbiter(b, neutral)
           /\ \A z \in Sides :
                 /\ IsPresent(a.decision[z]) => IsPresent(d[z]) /\ b.strong[z] = a.strong[z]
                 /\ For(a.decision, z) => For(d, z)
<1> DEFINE e == a.decision
           y == Other(x)
<1>1. y \in Sides /\ y # x /\ Other(y) = x /\ Other(x) = y /\ Sides = {x, y}
  BY OtherOK
<1>2. e \in [Sides -> Decisions] /\ Agree(e[x], e[y]) /\ Agree(e[y], e[x])
  BY <1>1 DEF Arbiter, ArbiterOK
<1>3. /\ d \in AskOutcomes(type, cont, e, x, y)
      /\ \/ e[x] = None /\ e[y] = None /\ FirstVerdicts(type, cont) = {Grant, Reject}
         \/ s <=> a.strong[x] \/ (e[y] # None /\ a.strong[y])
  BY DEF IsPresent
<1>4. a.strong \in [Sides -> BOOLEAN] /\ b.strong[x] = s /\ b.strong[y] = a.strong[y]
  BY <1>1 DEF Arbiter
<1>5. /\ e[x] = None => ~a.strong[x]
      /\ e[y] = None => ~a.strong[y]
      /\ e[x] # None /\ e[y] # None => (a.strong[x] <=> a.strong[y])
      /\ a.strong[x] /\ e[x] \in {Neutral, Delay} => neutral
      /\ a.strong[y] /\ e[y] \in {Neutral, Delay} => neutral
      /\ e[x] = Delay => ~a.strong[x]
      /\ e[y] = Delay => ~a.strong[y]
      /\ ~(e[x] = Reject /\ e[y] = Reject)
  BY <1>1, <1>4 DEF StrongArbiter, IsPresent
<1> SUFFICES /\ d[x] # None
             /\ d[y] = None <=> e[y] = None
             /\ d[y] = None => ~a.strong[y]
             /\ d[y] # None => (s <=> a.strong[y])
             /\ e[x] # None => (s <=> a.strong[x])
             /\ s /\ d[x] \in {Neutral, Delay} => neutral
             /\ a.strong[y] /\ d[y] \in {Neutral, Delay} => neutral
             /\ d[x] = Delay => ~s
             /\ d[y] = Delay => ~a.strong[y]
             /\ ~(d[x] = Reject /\ d[y] = Reject)
             /\ e[x] \in {None, Grant} /\ e[y] = Reject => d[x] \in {None, Grant} /\ d[y] = Reject
             /\ e[y] \in {None, Grant} /\ e[x] = Reject => d[y] \in {None, Grant} /\ d[x] = Reject
  BY <1>1, <1>4 DEF StrongArbiter, IsPresent, For
<1> HIDE DEF e, y
<1>6. type # OneWay
  BY DEF TwoWayTypes, TwoWaySimple, TwoWayExtended, OneWay
<1>7. CASE e[y] # None
  <2>1. d = [e EXCEPT ![x] = AgainstPresent(type, e[y]), ![y] = SubjectAfterReport(@)]
    BY <1>3, <1>7 DEF AskOutcomes, IsPresent
  <2>2. d[x] = AgainstPresent(type, e[y]) /\ d[y] = SubjectAfterReport(e[y])
    BY <1>1, <1>2, <2>1
  <2>3. s <=> a.strong[y]
    BY <1>3, <1>5, <1>7
  <2>4. QED
    BY <1>1, <1>2, <1>5, <1>6, <1>7, <2>2, <2>3
    DEF AgainstPresent, SubjectAfterReport, Agree, Decisions, None, Grant, Reject, Delay, Neutral
<1>8. CASE e[y] = None /\ e[x] # None
  <2>1. d = e
    BY <1>3, <1>6, <1>8 DEF AskOutcomes, IsPresent
  <2>2. s <=> a.strong[x]
    BY <1>3, <1>5, <1>8
  <2>3. QED
    BY <1>5, <1>8, <2>1, <2>2 DEF None, Grant, Reject
<1>9. CASE e[y] = None /\ e[x] = None
  <2>1. PICK c \in FirstVerdicts(type, cont) : d = [e EXCEPT ![x] = c]
    BY <1>3, <1>6, <1>9 DEF AskOutcomes, IsPresent
  <2>2. d[x] = c /\ d[y] = None
    BY <1>1, <1>2, <1>9, <2>1
  <2>3. c \in {Grant, Reject, Delay} /\ (c = Delay => ~(FirstVerdicts(type, cont) = {Grant, Reject}))
    BY DEF FirstVerdicts, Grant, Reject, Delay
  <2>4. c = Delay => ~s
    BY <1>3, <1>5, <1>9, <2>3
  <2>5. QED
    BY <1>5, <1>9, <2>2, <2>3, <2>4 DEF None, Grant, Reject, Delay, Neutral
<1>10. QED
  BY <1>7, <1>8, <1>9

\* A decision.
LEMMA DecideFair ==
    ASSUME IInv, Survival, Decide
    PROVE  FairTurns
<1>1. PICK r \in requests :
         LET v == r.to
             x == r.from
             y == Other(x)
             a == arbiter[v]
             first == ~IsPresent(a.decision[x]) /\ ~IsPresent(a.decision[y])
             compared == first /\ FirstVerdicts(Type, v \in Continuous) = {Grant, Reject}
         IN  /\ r.type \in TwoWayTypes
             /\ \E d \in IF a.restarted THEN {[a.decision EXCEPT ![x] = Reject]}
                         ELSE AskOutcomes(Type, v \in Continuous, a.decision, x, y) :
                \E strong \in IF a.restarted \/ ~compared
                              THEN {a.strong[x] \/ (~a.restarted /\ IsPresent(a.decision[y]) /\ a.strong[y])}
                              ELSE BOOLEAN :
                 LET b == [a EXCEPT !.decision = d, !.strong = [@ EXCEPT ![x] = strong]]
                 IN  /\ arbiter' = [arbiter EXCEPT ![v] = b]
                     /\ replies' = replies \cup Answer(r, b)
                           \cup (IF d[y] # a.decision[y] THEN {DelayedReplyTo(y, v, b, TRUE)} ELSE {})
             /\ requests' = requests \ {r}
             /\ UNCHANGED <<lease, vote, op, calls, failures>>
  BY DEF Decide
<1> DEFINE v == r.to
           x == r.from
           y == Other(x)
           a == arbiter[v]
           first == ~IsPresent(a.decision[x]) /\ ~IsPresent(a.decision[y])
           compared == first /\ FirstVerdicts(Type, v \in Continuous) = {Grant, Reject}
           kept == a.strong[x] \/ (~a.restarted /\ IsPresent(a.decision[y]) /\ a.strong[y])
           strengths == IF a.restarted \/ ~compared THEN {kept} ELSE BOOLEAN
           nextArbiter(d, s) == [a EXCEPT !.decision = d, !.strong = [@ EXCEPT ![x] = s]]
<1>2. /\ r \in Req /\ v \in Votes /\ x \in Sides
      /\ a \in Arbiter /\ ArbiterOK(a) /\ lease \in Leases
  BY DEF IInv, Types, Req
<1>3. y \in Sides /\ y # x /\ Other(y) = x /\ Sides = {x, y}
  BY <1>2, OtherOK
<1>4. UNCHANGED failures
  BY <1>1
<1>5. StrongArbiter(a, NeutralBack(v)) /\ ~a.restarted
  BY <1>2 DEF Survival, Strong, StrongArbiter
<1>6. PICK d \in IF a.restarted THEN {[a.decision EXCEPT ![x] = Reject]}
                 ELSE AskOutcomes(Type, v \in Continuous, a.decision, x, y),
           s \in strengths :
        /\ arbiter' = [arbiter EXCEPT ![v] = nextArbiter(d, s)]
        /\ replies' = replies \cup Answer(r, nextArbiter(d, s))
              \cup (IF d[y] # a.decision[y] THEN {DelayedReplyTo(y, v, nextArbiter(d, s), TRUE)} ELSE {})
  BY <1>1, Zenon
<1>7. d \in AskOutcomes(Type, v \in Continuous, a.decision, x, y)
  BY <1>5, <1>6
<1>8. s \in BOOLEAN /\ (compared \/ (s <=> kept))
  <2>1. kept \in BOOLEAN
    <3>1. a.strong[x] \in BOOLEAN /\ a.strong[y] \in BOOLEAN /\ a.restarted \in BOOLEAN
      BY <1>2, <1>3 DEF Arbiter
    <3>2. QED
      BY <3>1
  <2> HIDE DEF kept, compared
  <2>2. s = kept \/ (compared /\ s \in BOOLEAN)
    BY <1>6
  <2>3. QED
    BY <2>1, <2>2
<1> DEFINE b == nextArbiter(d, s)
           cont == v \in Continuous
           neutral == NeutralBack(v)
<1>9. Type \in TwoWayTypes /\ cont \in BOOLEAN
  BY <1>2, LeaseOK DEF TwoWayTypes, TwoWaySimple, TwoWayExtended
<1>10. /\ compared => ~IsPresent(a.decision[x]) /\ ~IsPresent(a.decision[y])
                      /\ FirstVerdicts(Type, cont) = {Grant, Reject}
       /\ kept <=> a.strong[x] \/ (IsPresent(a.decision[y]) /\ a.strong[y])
  BY <1>5
<1>11. d \in [Sides -> Decisions]
  <2> HIDE DEF a, cont, x
  <2>1. d \in AskOutcomes(Type, cont, a.decision, x, Other(x))
    BY <1>7 DEF cont
  <2>2. QED
    BY <1>2, <1>5, <1>9, <2>1, AskOK
<1>12. b \in Arbiter /\ b.decision = d /\ b.restarted = a.restarted /\ b.strong = [a.strong EXCEPT ![x] = s]
  <2> DEFINE strong == [a.strong EXCEPT ![x] = s]
  <2>1. strong \in [Sides -> BOOLEAN] /\ b = [a EXCEPT !.decision = d, !.strong = strong]
    BY <1>2, <1>8 DEF Arbiter
  <2>2. a \in Arbiter /\ d \in [Sides -> Decisions]
    BY <1>2, <1>11
  <2> HIDE DEF b, a, strong
  <2>3. b \in Arbiter /\ b.decision = d /\ b.restarted = a.restarted /\ b.strong = strong
    BY <2>1, <2>2 DEF Arbiter
  <2>4. QED
    BY <2>3 DEF strong
<1>13. /\ StrongArbiter(b, neutral)
       /\ \A z \in Sides :
             /\ IsPresent(a.decision[z]) => IsPresent(d[z]) /\ b.strong[z] = a.strong[z]
             /\ For(a.decision, z) => For(d, z)
  <2>1. d \in AskOutcomes(Type, cont, a.decision, x, Other(x)) /\ StrongArbiter(a, neutral) /\ ~b.restarted
    BY <1>5, <1>7, <1>12
  <2>2. \/ /\ ~IsPresent(a.decision[x]) /\ ~IsPresent(a.decision[Other(x)])
           /\ FirstVerdicts(Type, cont) = {Grant, Reject}
        \/ s <=> a.strong[x] \/ (IsPresent(a.decision[Other(x)]) /\ a.strong[Other(x)])
    BY <1>8, <1>10
  <2> HIDE DEF a, b, cont, neutral, x, compared, kept, strengths
  <2>3. QED
    BY <1>2, <1>8, <1>9, <1>12, <2>1, <2>2, AskFair
<1> HIDE DEF b
<1>14. FairTurn(v, b)
  BY <1>12, <1>13 DEF FairTurn, Decided
<1>15. \A m \in replies' : m \in replies \/ (m.from = v /\ m.strong = b.strong[m.to])
  BY <1>6 DEF Answer, ReplyTo, DelayedReplyTo, b
<1>16. arbiter' = [arbiter EXCEPT ![v] = b]
  BY <1>6 DEF b
<1> HIDE DEF v
<1>17. QED
  BY <1>2, <1>4, <1>14, <1>15, <1>16, FairOne

\* A grant is given back.
LEMMA HandleRevertFair ==
    ASSUME IInv, Survival, HandleRevert
    PROVE  FairTurns
<1>1. PICK r \in requests :
         LET v == r.to
             y == Other(r.from)
             a == arbiter[v]
             b == [a EXCEPT !.decision = RevertOutcome(r.type, @, r.from, y)]
         IN  /\ r.type \in RevertTypes
             /\ arbiter' = [arbiter EXCEPT ![v] = b]
             /\ replies' = replies \cup (IF b.decision[y] # a.decision[y]
                                         THEN {DelayedReplyTo(y, v, b, TRUE)} ELSE {})
             /\ requests' = requests \ {r}
             /\ UNCHANGED <<lease, vote, op, calls, failures>>
  BY DEF HandleRevert
<1> DEFINE v == r.to
           x == r.from
           y == Other(x)
           a == arbiter[v]
           d == RevertOutcome(r.type, a.decision, x, y)
           b == [a EXCEPT !.decision = d]
<1>2. /\ r \in Req /\ v \in Votes /\ x \in Sides /\ r.type \in RevertTypes
      /\ a \in Arbiter /\ ArbiterOK(a) /\ RequestOK(r)
  BY <1>1 DEF IInv, Types, Req
<1>3. y \in Sides /\ y # x /\ y = Other(x) /\ Other(y) = x /\ Sides = {x, y}
  BY <1>2, OtherOK
<1>4. UNCHANGED failures
  BY <1>1
<1>5. /\ arbiter' = [arbiter EXCEPT ![v] = b]
      /\ replies' = replies \cup (IF b.decision[y] # a.decision[y]
                                  THEN {DelayedReplyTo(y, v, b, TRUE)} ELSE {})
  BY <1>1
<1>6. /\ a.decision \in [Sides -> Decisions]
      /\ Agree(a.decision[x], a.decision[y]) /\ Agree(a.decision[y], a.decision[x])
  BY <1>2, <1>3 DEF Arbiter, ArbiterOK
<1>7. StrongArbiter(a, NeutralBack(v)) /\ ~a.restarted
  BY <1>2 DEF Survival, Strong, StrongArbiter
<1>8. vote[x][v].reverted /\ (r.type = RevertToNeutral => NeutralBack(v))
  <2>1. op[x].revert = r.type /\ vote[x][v].reverted
    BY <1>2 DEF RequestOK
  <2>2. VoteFresh(op[x], vote[x][v])
    BY <1>2 DEF Survival, Fresh
  <2>3. r.type = RevertToNeutral => vote[x][v].safe
    BY <2>1, <2>2 DEF VoteFresh
  <2>4. QED
    BY <1>2, <2>1, <2>3 DEF NeutralBack
<1>9. CASE a.decision[x] # Grant
  <2>1. d = a.decision
    BY <1>9 DEF RevertOutcome
  <2>2. b = a
    BY <1>2, <2>1 DEF Arbiter
  <2> HIDE DEF b, a
  <2>3. FairTurn(v, a)
    BY <1>7 DEF FairTurn, Decided, a
  <2>4. replies' = replies
    BY <1>5, <2>2
  <2> HIDE DEF v
  <2>5. QED
    BY <1>2, <1>4, <1>5, <2>2, <2>3, <2>4, FairOne
<1>10. CASE a.decision[x] = Grant
  <2>1. a.decision[y] \in {None, Reject}
    BY <1>6, <1>10 DEF Agree, None, Reject, Grant
  <2>2. d = [a.decision EXCEPT ![x] = RevertedMonitor(r.type),
                               ![y] = IF IsPresent(@) THEN RevertedSubject(r.type) ELSE @]
    BY <1>10 DEF RevertOutcome
  <2>3. /\ RevertedMonitor(r.type) = (IF r.type = RevertToNeutral THEN Neutral ELSE Reject)
        /\ RevertedSubject(r.type) = (IF r.type = RevertToNeutral THEN Neutral ELSE Grant)
    BY DEF RevertedMonitor, RevertedSubject
  <2> DEFINE p == RevertedMonitor(r.type)
             q == IF IsPresent(a.decision[y]) THEN RevertedSubject(r.type) ELSE a.decision[y]
  <2>4. d \in [Sides -> Decisions] /\ d[x] = p /\ d[y] = q
    <3>1. p \in Decisions /\ q \in Decisions
      BY <1>3, <1>6, <2>3 DEF Decisions
    <3>2. d = [a.decision EXCEPT ![x] = p, ![y] = q]
      BY <1>3, <1>6, <2>2
    <3> HIDE DEF d, a, p, q
    <3>3. QED
      BY <1>3, <1>6, <3>1, <3>2
  <2>5. b \in Arbiter /\ b.decision = d /\ b.strong = a.strong /\ b.restarted = a.restarted
    BY <1>2, <2>4, NewDecision
  <2>6. /\ d[x] # None /\ (d[y] = None <=> a.decision[y] = None)
        /\ \/ d[x] = Neutral /\ d[y] \in {None, Neutral} /\ r.type = RevertToNeutral
           \/ d[x] = Reject /\ d[y] \in {None, Grant}
    BY <2>1, <2>3, <2>4 DEF IsPresent, None, Grant, Reject, Neutral
  <2> HIDE DEF b, d, a, v, x, y
  <2>7. StrongArbiter(b, NeutralBack(v))
    <3>1. /\ ~a.restarted
          /\ a.decision[y] = None => ~a.strong[y]
          /\ a.decision[y] # None => a.strong[x] = a.strong[y]
      BY <1>3, <1>7, <1>10 DEF StrongArbiter, IsPresent, None, Grant
    <3>2. QED
      BY <1>3, <1>8, <2>5, <2>6, <3>1 DEF StrongArbiter, IsPresent, None, Grant, Reject, Neutral, Delay
  <2>8. ~For(a.decision, y)
    BY <1>3, <1>10 DEF For, Grant, Reject
  <2>9. FairTurn(v, b)
    <3>1. a = arbiter[v]
      BY DEF a, v
    <3>2. \A z \in Sides : IsPresent(a.decision[z]) => IsPresent(b.decision[z]) /\ b.strong[z] = a.strong[z]
      BY <1>3, <2>5, <2>6 DEF IsPresent
    <3>3. \A z \in Sides : For(a.decision, z) => vote[z][v].reverted
      BY <1>3, <1>8, <2>8
    <3>4. QED
      BY <2>7, <3>1, <3>2, <3>3 DEF FairTurn, Decided
  <2>10. \A m \in replies' : m \in replies \/ (m.from = v /\ m.strong = b.strong[m.to])
    BY <1>5 DEF DelayedReplyTo, v
  <2>11. v \in Votes /\ arbiter' = [arbiter EXCEPT ![v] = b]
    BY <1>2, <1>5
  <2>12. QED
    BY <1>4, <2>9, <2>10, <2>11, FairOne
<1>11. QED
  BY <1>9, <1>10

\* A delay ends.
LEMMA GrantDelayedFair ==
    ASSUME IInv, Survival, GrantDelayed
    PROVE  FairTurns
<1>1. PICK v \in Votes, x \in Sides :
         LET b == [arbiter[v] EXCEPT !.decision = [@ EXCEPT ![x] = Grant]]
         IN  /\ arbiter[v].decision[x] = Delay
             /\ arbiter' = [arbiter EXCEPT ![v] = b]
             /\ replies' = replies \cup {DelayedReplyTo(x, v, b, FALSE)}
             /\ UNCHANGED <<lease, vote, op, requests, calls, failures>>
  BY DEF GrantDelayed
<1> DEFINE y == Other(x)
           a == arbiter[v]
           d == [a.decision EXCEPT ![x] = Grant]
           b == [a EXCEPT !.decision = d]
<1>2. a \in Arbiter /\ ArbiterOK(a) /\ a.decision[x] = Delay
  BY <1>1 DEF IInv, Types
<1>3. y \in Sides /\ y # x /\ y = Other(x) /\ Other(y) = x /\ Sides = {x, y}
  BY OtherOK
<1>4. a.decision \in [Sides -> Decisions] /\ a.decision[y] = None /\ ~a.restarted
  BY <1>2, <1>3 DEF Arbiter, ArbiterOK, Agree, None, Reject, Delay
<1>5. d \in [Sides -> Decisions] /\ d[x] = Grant /\ d[y] = None
  BY <1>3, <1>4 DEF Decisions
<1>6. b \in Arbiter /\ b.decision = d /\ b.strong = a.strong /\ b.restarted = a.restarted
  BY <1>2, <1>5, NewDecision
<1>7. /\ arbiter' = [arbiter EXCEPT ![v] = b] /\ replies' = replies \cup {DelayedReplyTo(x, v, b, FALSE)}
      /\ UNCHANGED failures
  BY <1>1
<1>8. StrongArbiter(a, NeutralBack(v))
  BY DEF Survival, Strong
<1> HIDE DEF b, d, y
<1>9. ~a.strong[x] /\ ~a.strong[y]
  BY <1>2, <1>3, <1>4, <1>8 DEF StrongArbiter, IsPresent
<1>10. StrongArbiter(b, NeutralBack(v))
  BY <1>3, <1>4, <1>5, <1>6, <1>9 DEF StrongArbiter, IsPresent, None, Grant, Reject, Neutral, Delay
<1>11. FairTurn(v, b)
  BY <1>2, <1>3, <1>4, <1>5, <1>6, <1>10
  DEF FairTurn, IsPresent, Decided, For, None, Grant, Reject, Delay
<1>12. \A m \in replies' : m \in replies \/ (m.from = v /\ m.strong = b.strong[m.to])
  BY <1>7 DEF DelayedReplyTo
<1>13. QED
  BY <1>7, <1>11, <1>12, FairOne

\* A side that is down stays so for the same arbiters, or for more of them.
LEMMA DownKept ==
    ASSUME NEW y \in Sides, DownOK(y), Down(y), Beat(Other(y)) \subseteq Beat(Other(y))', Type' = Type,
           op[y].revert = RevertToReject => op'[y].revert = RevertToReject,
           \A v \in Votes : vote[y][v].answered => /\ vote'[y][v].answered
                                                   /\ arbiter'[v].strong[y] = arbiter[v].strong[y]
    PROVE  DownOK(y)'
<1> DEFINE n == Cardinality(Votes)
<1>b. PICK B : B = Beat(Other(y))
  OBVIOUS
<1>c. PICK C : C = Beat(Other(y))'
  OBVIOUS
<1>1. B \subseteq C /\ C \subseteq Votes
  BY <1>b, <1>c DEF Beat
<1>2. n \in Nat /\ Quorum \in Nat /\ 2 * Quorum > n /\ Quorum' = Quorum /\ n' = n
  BY QuorumOK DEF Quorum
<1>3. Cardinality(B) >= Quorum \/ (2 * Cardinality(B) = n /\ Yields(y, B))
  BY <1>b DEF DownOK
<1> SUFFICES Cardinality(C) >= Quorum \/ (2 * Cardinality(C) = n /\ Yields(y, C)')
  BY <1>2, <1>c DEF DownOK
<1>4. /\ Cardinality(B) \in Nat /\ Cardinality(C) \in Nat /\ Cardinality(B) <= Cardinality(C)
      /\ Cardinality(B) = Cardinality(C) => B = C
  BY <1>1, SubsetCounts
<1>5. CASE Cardinality(B) >= Quorum
  BY <1>2, <1>4, <1>5
<1>6. CASE B # C /\ 2 * Cardinality(B) = n
  <2>1. 2 * Cardinality(C) > n
    BY <1>2, <1>4, <1>6
  <2>2. QED
    BY <1>4, <2>1, HalfCounts
<1>7. CASE B = C /\ 2 * Cardinality(B) = n /\ Yields(y, B)
  <2>1. \A v \in Votes : vote[y][v].answered
    BY <1>7 DEF Yields
  <2>2. Strongs(y, Votes \ B)' = Strongs(y, Votes \ B) /\ Strongs(y, B)' = Strongs(y, B)
    BY <1>1, <1>7, <2>1 DEF Strongs
  <2>3. SC(y, Votes \ B)' = SC(y, Votes \ B) /\ SC(y, B)' = SC(y, B)
    BY <2>2 DEF SC
  <2>4. Yields(y, B)'
    BY <1>7, <2>1, <2>3 DEF Yields, TieLost
  <2>5. Yields(y, C)'
    BY <1>7, <2>4
  <2>6. QED
    BY <1>7, <2>5
<1>8. QED
  BY <1>3, <1>5, <1>6, <1>7

\* Nobody is told a rejection of an arbiter that has decided for it.
LEMMA TellsFair ==
    ASSUME IInv, Survival, ArbiterTurn, FairTurns
    PROVE  \A m \in replies' :
              \/ m \in replies
              \/ /\ m.from \in Votes /\ m.to \in Sides
                 /\ m.rejected => For(arbiter'[m.from].decision, Other(m.to))
                                  /\ arbiter'[m.from].decision[m.to] = Reject
                 /\ StrongReply(arbiter'[m.from], m, NeutralBack(m.from))
<1>1. PICK v, b :
         /\ v \in Votes
         /\ Turn(v, b) /\ arbiter' = [arbiter EXCEPT ![v] = b]
         /\ \A m \in replies' : m \in replies \/ Tells(v, b, m)
  BY DEF ArbiterTurn
<1>2. arbiter'[v] = b
  BY <1>1 DEF IInv, Types
<1>3. b \in Arbiter /\ ArbiterOK(b)
  BY <1>1 DEF Turn
<1>4. StrongArbiter(b, NeutralBack(v))
  BY <1>1, <1>2 DEF FairTurns, FairTurn
<1>5. SUFFICES ASSUME NEW m \in replies', m \notin replies
               PROVE  /\ m.from \in Votes /\ m.to \in Sides
                      /\ m.rejected => For(arbiter'[m.from].decision, Other(m.to))
                                       /\ arbiter'[m.from].decision[m.to] = Reject
                      /\ StrongReply(arbiter'[m.from], m, NeutralBack(m.from))
  OBVIOUS
<1>6. /\ m \in Reply /\ m.from = v
      /\ m.granted <=> b.decision[m.to] = Grant
      /\ m.rejected => b.decision[m.to] = Reject
      /\ ~m.rejected => b.decision[m.to] \in {Grant, Delay, Neutral}
  BY <1>1, <1>5 DEF Tells
<1>7. m.strong = b.strong[m.to]
  BY <1>2, <1>5, <1>6 DEF FairTurns
<1>8. m.to \in Sides /\ Other(m.to) \in Sides /\ Other(Other(m.to)) = m.to
  BY <1>6, OtherOK DEF Reply
<1>9. b.decision \in [Sides -> Decisions] /\ Agree(b.decision[Other(m.to)], b.decision[m.to])
  BY <1>3, <1>8 DEF Arbiter, ArbiterOK
<1>10. ~(b.decision[m.to] = Reject /\ b.decision[Other(m.to)] = Reject)
  BY <1>4, <1>8 DEF StrongArbiter
<1>11. m.rejected => For(b.decision, Other(m.to))
  BY <1>6, <1>8, <1>9, <1>10 DEF For, Agree, Decisions, None, Grant, Reject, Neutral, Delay
<1>12. StrongReply(b, m, NeutralBack(v))
  BY <1>4, <1>6, <1>7, <1>8 DEF StrongReply, StrongArbiter, IsPresent, None, Grant, Reject, Neutral, Delay
<1>13. QED
  BY <1>1, <1>2, <1>6, <1>8, <1>11, <1>12

\* The invariant after a step of an arbiter.
LEMMA FairTurnsSurvival ==
    ASSUME IInv, Survival, ArbiterTurn, FairTurns
    PROVE  Survival'
<1>1. UNCHANGED <<lease, vote, op>> /\ Type' = Type
  BY DEF ArbiterTurn, Type
<1>2. \A m \in replies' :
         \/ m \in replies
         \/ /\ m.from \in Votes /\ m.to \in Sides
            /\ m.rejected => For(arbiter'[m.from].decision, Other(m.to))
                             /\ arbiter'[m.from].decision[m.to] = Reject
            /\ StrongReply(arbiter'[m.from], m, NeutralBack(m.from))
  BY TellsFair
<1>3. \A v \in Votes :
         /\ StrongArbiter(arbiter'[v], NeutralBack(v))
         /\ \A z \in Sides :
               /\ IsPresent(arbiter[v].decision[z]) =>
                     IsPresent(arbiter'[v].decision[z]) /\ arbiter'[v].strong[z] = arbiter[v].strong[z]
               /\ Decided(z, v) => Decided(z, v)' \/ vote[z][v].reverted
  BY DEF FairTurns, FairTurn, Decided
<1>4. \A v \in Votes : NeutralBack(v)' <=> NeutralBack(v)
  BY <1>1 DEF NeutralBack
<1>5. ASSUME NEW x \in Sides, NEW v \in Votes
      PROVE  Told(x, v)' => Told(x, v) \/ (Decided(Other(x), v)' /\ arbiter'[v].decision[x] = Reject)
  BY <1>1, <1>2, <1>5 DEF Told, Decided
<1>6. ASSUME NEW x \in Sides
      PROVE  ToldOK(x)'
  <2>1. Other(x) \in Sides /\ ToldOK(x)
    BY OtherOK DEF Survival
  <2>2. QED
    BY <1>1, <1>3, <1>5, <2>1 DEF ToldOK
<1>7. ASSUME NEW x \in Sides
      PROVE  Beat(x) \subseteq Beat(x)'
  <2>1. SUFFICES ASSUME NEW v \in Votes, ~vote[x][v].reverted, Decided(x, v), ~Told(x, v)
                 PROVE  Decided(x, v)' /\ ~Told(x, v)'
    BY <1>1 DEF Beat
  <2>2. Decided(x, v)'
    BY <1>3, <2>1
  <2>3. arbiter'[v].decision[x] # Reject
    BY <2>2 DEF Decided, For, None, Grant, Reject
  <2>4. QED
    BY <1>5, <2>1, <2>2, <2>3
<1>8. ASSUME NEW x \in Sides
      PROVE  Fresh(x)' /\ (Down(x)' <=> Down(x))
  <2>1. Fresh(x)
    BY DEF Survival
  <2>2. QED
    BY <1>1, <2>1 DEF Fresh, Down, VoteFresh
<1>9. ASSUME NEW x \in Sides
      PROVE  DownOK(x)'
  <2>1. CASE Down(x)
    <3>1. Other(x) \in Sides /\ DownOK(x)
      BY OtherOK DEF Survival
    <3>2. \A v \in Votes : vote[x][v].answered => /\ vote'[x][v].answered
                                                   /\ arbiter'[v].strong[x] = arbiter[v].strong[x]
      BY <1>1, <1>3 DEF Survival, Strong, StrongVote
    <3>3. QED
      BY <1>1, <1>7, <2>1, <3>1, <3>2, DownKept
  <2>2. CASE ~Down(x)
    BY <1>8, <2>2 DEF DownOK
  <2>3. QED
    BY <2>1, <2>2
<1>10. Strong'
  <2>1. ASSUME NEW v \in Votes, NEW x \in Sides
        PROVE  StrongVote(arbiter[v], x, vote[x][v], NeutralBack(v))'
    BY <1>1, <1>3, <1>4 DEF Survival, Strong, StrongVote
  <2>2. ASSUME NEW m \in replies'
        PROVE  StrongReply(arbiter[m.from], m, NeutralBack(m.from))'
    <3>1. CASE m \in replies
      <4>1. m.from \in Votes /\ m.to \in Sides /\ StrongReply(arbiter[m.from], m, NeutralBack(m.from))
        BY <3>1 DEF Survival, Strong, IInv, Types, Reply
      <4>2. QED
        BY <1>3, <1>4, <4>1 DEF StrongReply
    <3>2. CASE m \notin replies
      BY <1>2, <1>4, <3>2 DEF StrongReply
    <3>3. QED
      BY <3>1, <3>2
  <2>3. \A v \in Votes : StrongArbiter(arbiter[v], NeutralBack(v))'
    BY <1>3, <1>4 DEF StrongArbiter
  <2>4. QED
    BY <2>1, <2>2, <2>3 DEF Strong
<1>11. \A x \in Sides : ~(Down(x)' /\ Down(Other(x))')
  BY <1>8, OtherOK DEF Survival
<1>12. QED
  BY <1>6, <1>8, <1>9, <1>10, <1>11 DEF Survival

-----------------------------------------------------------------------------
(***************************************************************************)
(* The steps of a side.                                                    *)
(***************************************************************************)

\* The votes w that are rejected, and the strong grants among them.
Rejected(w) == {v \in Votes : w[v].answered /\ ~w[v].safe}
StrongGrants(w) == {v \in Votes : w[v].answered /\ w[v].safe /\ w[v].granted /\ w[v].strong}

GoesDown(o) == o.revert = RevertToReject \/ (o.completed /\ ~o.local)

\* Why CheckState lets x go down, from o to p, with the votes w.
Falls(x, w, o, p) ==
    \/ Cardinality(Rejected(w)) >= Quorum
    \/ /\ 2 * Cardinality(Rejected(w)) = Cardinality(Votes)
       /\ o.revert = Type /\ p.revert = RevertToReject
       /\ \A v \in Votes : w[v].answered
       /\ TieLost(x, Cardinality(StrongGrants(w)), Cardinality({v \in Rejected(w) : w[v].strong}))

\* Counting the votes, when those without an answer may still get one.
LEMMA RejectTally ==
    ASSUME MaxRequestPerVoter > 1, NEW w \in [Votes -> Vote],
           \A v \in Votes : ~w[v].answered => w[v].count <= 1
    PROVE  LET t == Tally(w)
           IN  /\ t.reject = Cardinality(Rejected(w)) /\ t.reject \in Nat
               /\ t.retryable \in Nat
               /\ t.strongGrant = Cardinality(StrongGrants(w))
               /\ t.strongReject = Cardinality({v \in Rejected(w) : w[v].strong})
               /\ t.result = Cardinality(Votes) =>
                     /\ \A v \in Votes : w[v].answered
                     /\ t.grant + t.neutral + t.reject = Cardinality(Votes)
<1> DEFINE t == Tally(w)
           H == {v \in Votes : w[v].answered}
           A == {v \in Votes : w[v].answered /\ w[v].safe}
           L == {v \in Votes : IsReject(w[v]) /\ HasResult(w[v]) /\ w[v].count < MaxRequestPerVoter}
<1>1. \A v \in Votes : IsReject(w[v]) <=> w[v].answered /\ ~w[v].safe
  BY SidesAssumption DEF IsReject, HasResult, Vote
<1>2. t.reject = Cardinality(Rejected(w))
  BY <1>1 DEF Tally, Count, Rejected
<1>3. t.strongGrant = Cardinality(StrongGrants(w))
  <2>1. {v \in Votes : IsGrant(w[v]) /\ w[v].strong} = StrongGrants(w)
    BY DEF StrongGrants, IsGrant, HasResult
  <2>2. QED
    BY <2>1 DEF Tally, Count
<1>4. t.strongReject = Cardinality({v \in Rejected(w) : w[v].strong})
  <2>1. {v \in Votes : IsReject(w[v]) /\ HasResult(w[v]) /\ w[v].strong} = {v \in Rejected(w) : w[v].strong}
    BY <1>1 DEF Rejected, HasResult
  <2>2. QED
    BY <2>1 DEF Tally, Count
<1>5. t.retryable = Cardinality(L) /\ t.result = Cardinality(H)
  BY DEF Tally, Count, HasResult
<1>6. t.grant + t.neutral = Cardinality(A)
  BY TallyOK
<1>7. Rejected(w) \subseteq Votes /\ L \subseteq Votes /\ H \subseteq Votes
  BY DEF Rejected
<1> HIDE DEF t, H, A, L
<1>8. /\ Cardinality(Rejected(w)) \in Nat /\ Cardinality(L) \in Nat
      /\ Cardinality(H) = Cardinality(Votes) => H = Votes
  BY <1>7, SubsetCounts
<1>9. ASSUME t.result = Cardinality(Votes)
      PROVE  /\ \A v \in Votes : w[v].answered
             /\ t.grant + t.neutral + t.reject = Cardinality(Votes)
  <2>1. \A v \in Votes : w[v].answered
    BY <1>5, <1>8, <1>9 DEF H
  <2>2. A = Votes \ Rejected(w)
    BY <2>1 DEF A, Rejected
  <2>3. Cardinality(Rejected(w)) + Cardinality(A) = Cardinality(Votes)
    BY <1>7, <2>2, OthersCount
  <2>4. Cardinality(A) \in Nat
    <3>1. A \subseteq Votes
      BY DEF A
    <3>2. QED
      BY <3>1, SubsetCounts
  <2>5. QED
    BY <1>2, <1>6, <1>8, <2>1, <2>3, <2>4
<1>10. QED
  BY <1>2, <1>3, <1>4, <1>5, <1>8, <1>9 DEF t

\* When CheckState makes a side go down, it is not for its time being up.
LEMMA CheckStateFalls ==
    ASSUME MaxRequestPerVoter > 1, lease \in Leases, NEW x \in Sides, NEW w \in [Votes -> Vote],
           \A v \in Votes : ~w[v].answered => w[v].count <= 1,
           NEW o \in Operation, ~GoesDown(o),
           NEW late \in BOOLEAN, NEW ends \in BOOLEAN, ~late, ~ends,
           GoesDown(CheckState(x, o, Tally(w), late, ends))
    PROVE  Falls(x, w, o, CheckState(x, o, Tally(w), late, ends))
<1> DEFINE t == Tally(w)
           n == Cardinality(Votes)
           k == Cardinality(Rejected(w))
           p == CheckState(x, o, t, late, ends)
           rc == RevertChoice(x, o, t, late)
           retryable == IF CanRetry(t) THEN t.retryable ELSE 0
           lost == ~LocalGranted(t) /\ t.reject - retryable >= Quorum
           revert == IF lost /\ rc \in TwoWayTypes THEN RevertToReject ELSE rc
           settled == LocalGranted(t) /\ (rc # Type \/ t.reject + t.neutral - t.delay >= Quorum)
           won == LocalGranted(t) /\ ~settled /\ t.grant >= Quorum
<1>1. /\ Type # RevertToReject /\ Type # RevertToNeutral /\ RevertToNeutral # RevertToReject
      /\ RevertToNeutral \notin TwoWayTypes /\ RevertToReject \notin TwoWayTypes
  BY LeaseOK DEF TwoWaySimple, TwoWayExtended, TwoWayTypes, RevertToNeutral, RevertToReject
<1>2. /\ LocalGranted(t) \in BOOLEAN /\ CanRetry(t) \in BOOLEAN /\ settled \in BOOLEAN
      /\ won \in BOOLEAN /\ lost \in BOOLEAN
  BY DEF LocalGranted, CanRetry
<1>3. /\ t.reject = k /\ t.reject \in Nat /\ t.retryable \in Nat
      /\ t.strongGrant = Cardinality(StrongGrants(w))
      /\ t.strongReject = Cardinality({v \in Rejected(w) : w[v].strong})
      /\ t.result = n =>
            /\ \A v \in Votes : w[v].answered
            /\ t.grant + t.neutral + t.reject = n
  BY RejectTally
<1>4. t.grant \in Nat /\ t.neutral \in Nat
  BY TallyOK
<1>5. ~GoesDown(o) /\ GoesDown(p)
  OBVIOUS
<1>6. n \in Nat /\ Quorum \in Nat
  BY QuorumOK
<1> SUFFICES \/ k >= Quorum
             \/ /\ 2 * k = n
                /\ o.revert = Type /\ p.revert = RevertToReject
                /\ \A v \in Votes : w[v].answered
                /\ TieLost(x, t.strongGrant, t.strongReject)
  BY <1>3 DEF Falls
<1> HIDE DEF t, k, n
<1>7. \/ rc = o.revert
      \/ rc = RevertToNeutral
      \/ /\ rc = RevertToReject /\ o.revert = Type
         /\ ~LocalGranted(t) /\ ~IsPreferred(x, t) /\ t.result = n
  BY DEF RevertChoice, n
<1> HIDE DEF rc
<1>8. CASE o.completed
  <2>1. p = o
    BY <1>8 DEF CheckState
  <2> HIDE DEF p
  <2>2. QED
    BY <1>5, <2>1
<1>9. CASE ~o.completed /\ ~LocalGranted(t) /\ o.partial
  <2>1. p = [o EXCEPT !.assertFailed = TRUE]
    BY <1>9 DEF CheckState
  <2> HIDE DEF p
  <2>2. p.revert = o.revert /\ p.completed = o.completed
    BY <2>1 DEF Operation
  <2>3. QED
    BY <1>5, <1>9, <2>2 DEF GoesDown
<1>10. CASE ~o.completed /\ ~(~LocalGranted(t) /\ o.partial)
  <2> DEFINE may == o.local \/ LocalGranted(t)
             retry == CanRetry(t)
             part == o.partial \/ LocalGranted(t)
             over == settled \/ won \/ lost \/ ends
  <2>1. p = [o EXCEPT !.revert = revert, !.canRetry = retry, !.local = may, !.partial = part,
                      !.remoteDown = won, !.completed = over]
    BY <1>10 DEF CheckState, rc
  <2>2. /\ may \in BOOLEAN /\ over \in BOOLEAN /\ (may <=> o.local \/ LocalGranted(t))
        /\ over /\ ~lost => LocalGranted(t)
    BY <1>2
  <2>3. lost => k >= Quorum
    <3>1. retryable \in Nat
      BY <1>3
    <3> HIDE DEF retryable
    <3>2. QED
      BY <1>3, <1>6, <3>1
  <2>4. ~lost => revert = rc
    OBVIOUS
  <2> HIDE DEF p, revert, settled, won, lost, may, over, retry, part
  <2>5. p.revert = revert /\ p.local = may /\ p.completed = over
    BY <2>1 DEF Operation
  <2>6. CASE lost
    BY <2>3, <2>6
  <2>7. CASE ~lost
    <3>1. p.revert = RevertToReject /\ rc = RevertToReject
      BY <1>5, <2>2, <2>4, <2>5, <2>7 DEF GoesDown
    <3>2. o.revert = Type /\ ~LocalGranted(t) /\ ~IsPreferred(x, t) /\ t.result = n
      BY <1>1, <1>5, <1>7, <3>1 DEF GoesDown
    <3>3. (\A v \in Votes : w[v].answered) /\ t.grant + t.neutral + k = n /\ k \in Nat
      BY <1>3, <3>2
    <3>4. t.grant + t.neutral < Quorum
      BY <1>4, <1>6, <3>2 DEF LocalGranted
    <3>5. 2 * k >= n
      BY <1>4, <1>6, <3>3, <3>4, HalfCounts DEF n
    <3>6. k >= Quorum \/ 2 * k = n
      BY <1>6, <3>3, <3>5, HalfCounts DEF n
    <3>7. TieLost(x, t.strongGrant, t.strongReject)
      <4>1. t.strongGrant \in Nat /\ t.strongReject \in Nat
        <5>1. StrongGrants(w) \subseteq Votes /\ {v \in Rejected(w) : w[v].strong} \subseteq Votes
          BY DEF StrongGrants, Rejected
        <5>2. /\ Cardinality(StrongGrants(w)) \in Nat
              /\ Cardinality({v \in Rejected(w) : w[v].strong}) \in Nat
          BY <5>1, SubsetCounts
        <5>3. QED
          BY <1>3, <5>2
      <4>2. QED
        BY <3>2, <4>1 DEF TieLost, IsPreferred
    <3>8. QED
      BY <3>1, <3>2, <3>3, <3>6, <3>7
  <2>8. QED
    BY <2>6, <2>7
<1>11. QED
  BY <1>8, <1>9, <1>10

\* The vote o of x at arbiter v, and what it is with a reply counted, n.
VoteHeard(x, v, o, n) ==
    /\ VoteOK(n)
    /\ n.reverted = o.reverted
    /\ o.answered => n.answered
    /\ ~n.answered => n = o
    /\ n.reverted => n.safe = o.safe
    /\ ~n.safe /\ ~n.reverted => Told(x, v)
    /\ StrongVote(arbiter[v], x, n, NeutralBack(v))

Heard(x, w) == w \in [Votes -> Vote] /\ \A v \in Votes : VoteHeard(x, v, vote[x][v], w[v])

\* What a step of x may change while nothing fails.
FairSide(x) ==
    /\ Fresh(x)'
    /\ \A v \in Votes :
          /\ vote[x][v].reverted => vote'[x][v].reverted /\ vote'[x][v].safe = vote[x][v].safe
          /\ vote[x][v].answered => vote'[x][v].answered
          /\ ~vote'[x][v].safe /\ ~vote'[x][v].reverted => Told(x, v)
          /\ StrongVote(arbiter[v], x, vote'[x][v],
                        NeutralBack(v) \/ (vote'[x][v].reverted /\ vote'[x][v].safe))
    /\ Down(x) => Down(x)'
    /\ op[x].revert = RevertToReject => op'[x].revert = RevertToReject
    /\ ~Down(x) /\ Down(x)' =>
          \E w : /\ Heard(x, w) /\ Falls(x, w, op[x], op'[x])
                 /\ \A v \in Votes : w[v].answered => vote'[x][v].answered
    /\ replies' \subseteq replies /\ UNCHANGED <<lease, arbiter, failures>>

\* A vote that is asked again.
LEMMA AskedFair ==
    ASSUME NEW w \in Vote
    PROVE  /\ Asked(w).reverted = w.reverted /\ Asked(w).granted = w.granted
           /\ Asked(w).answered = w.answered /\ Asked(w).safe = w.safe /\ Asked(w).strong = w.strong
  BY DEF Asked, Vote

\* A vote that is given back.
LEMMA RevertedFair ==
    ASSUME NEW w \in Vote, w.safe, NEW type
    PROVE  /\ Reverted(w, type).reverted
           /\ Reverted(w, type).answered = w.answered /\ Reverted(w, type).strong = w.strong
           /\ Reverted(w, type).safe <=> type # RevertToReject
  BY DEF Reverted, Vote

\* CheckState and GenerationActions.
LEMMA RunFair ==
    ASSUME MaxRequestPerVoter > 1, IInv, UInv, Survival, NEW x \in Sides, NEW w, Heard(x, w),
           op[x].started, ~op[x].assertFailed, NEW due,
           NEW late \in BOOLEAN, NEW ends \in BOOLEAN, ~late, ~ends, NEW otherCalls,
           RunStateMachine(x, w, due, late, ends, otherCalls),
           replies' \subseteq replies, UNCHANGED <<lease, arbiter, failures>>
    PROVE  FairSide(x)
<1> DEFINE o == op[x]
           p == CheckState(x, op[x], Tally(w), late, ends)
           R == ToRevert(p, w)
           K == ToAsk(p, w, due)
           u == [v \in Votes |-> CASE v \in R -> Reverted(w[v], p.revert)
                                   [] v \in K -> Asked(w[v])
                                   [] OTHER -> w[v]]
<1>1. op' = [op EXCEPT ![x] = p] /\ vote' = [vote EXCEPT ![x] = u]
  BY DEF RunStateMachine
<1>2. /\ w \in [Votes -> Vote] /\ \A v \in Votes : VoteOK(w[v])
      /\ op \in [Sides -> Operation] /\ o \in Operation /\ lease \in Leases
      /\ vote \in [Sides -> [Votes -> Vote]]
      /\ o.local <=> o.partial
      /\ o.remoteDown => o.completed /\ o.local
      /\ o.started /\ ~o.assertFailed
      /\ o.revert \in {Type} \cup RevertTypes
  BY DEF Heard, VoteHeard, IInv, Types, WonHolds, UInv
<1>3. op'[x] = p /\ vote'[x] = u
  BY <1>1, <1>2
<1>4. /\ p.started /\ p.revert \in {Type} \cup RevertTypes
      /\ o.completed => p = o
      /\ o.revert \in RevertTypes => p.revert = o.revert
  <2>1. OperationTurn(w, o, p)
    BY <1>2, CheckStateOK
  <2>2. Reverting(w, o, p)
    BY <1>2, CheckStateReverts
  <2> HIDE DEF p, o
  <2>3. QED
    BY <1>2, <2>1, <2>2 DEF OperationTurn, Reverting
<1>5. /\ Fresh(x) /\ \A v \in Votes : VoteFresh(o, vote[x][v])
  BY DEF Survival, Fresh
<1>6. \A v \in Votes : VoteHeard(x, v, vote[x][v], w[v])
  BY DEF Heard
<1>7. \A v \in Votes : ~w[v].answered =>
         /\ w[v].count <= 1 /\ ~w[v].reverted /\ w[v].safe /\ w[v].pending
  BY <1>2, <1>5, <1>6 DEF VoteHeard, VoteFresh
<1>8. ~GoesDown(o) /\ GoesDown(p) => Falls(x, w, o, p)
  <2> HIDE DEF o
  <2>1. ASSUME ~GoesDown(o), GoesDown(CheckState(x, o, Tally(w), late, ends))
        PROVE  Falls(x, w, o, CheckState(x, o, Tally(w), late, ends))
    BY <1>2, <1>7, <2>1, CheckStateFalls
  <2>2. QED
    BY <2>1 DEF o
<1>9. \A v \in Votes :
         /\ v \in R => p.revert # Type /\ w[v].answered /\ w[v].granted /\ ~w[v].reverted
         /\ v \in K => v \notin R /\ ~w[v].pending
  BY DEF ToRevert, ToAsk, CanRevert, HasResult
<1>t. Type \notin RevertTypes /\ RevertToReject # RevertToNeutral
  BY <1>2, LeaseOK DEF RevertTypes, RevertToReject, RevertToNeutral
<1> HIDE DEF p, R, K, o
<1>10. ASSUME NEW v \in Votes
       PROVE  /\ u[v].answered = w[v].answered /\ u[v].strong = w[v].strong
              /\ v \in R => /\ u[v].reverted /\ w[v].safe /\ ~w[v].reverted
                            /\ u[v].safe <=> p.revert # RevertToReject
              /\ v \notin R => u[v].safe = w[v].safe /\ u[v].granted = w[v].granted
                               /\ u[v].reverted = w[v].reverted
              /\ ~w[v].answered => u[v] = w[v]
  <2>1. w[v] \in Vote /\ VoteOK(w[v])
    BY <1>2
  <2>2. CASE v \in R
    <3>1. u[v] = Reverted(w[v], p.revert)
      BY <1>9, <2>2
    <3> HIDE DEF u
    <3>2. w[v].answered /\ w[v].safe /\ ~w[v].reverted
      BY <1>9, <2>1, <2>2 DEF VoteOK
    <3> DEFINE type == p.revert
               o1 == w[v]
    <3>3. o1 \in Vote /\ o1.answered /\ o1.safe /\ ~o1.reverted /\ u[v] = Reverted(o1, type)
      BY <2>1, <3>1, <3>2
    <3> HIDE DEF type, o1
    <3>4. /\ u[v].answered = o1.answered /\ u[v].strong = o1.strong /\ u[v].reverted
          /\ u[v].safe <=> type # RevertToReject
      BY <3>3, RevertedFair
    <3>5. QED
      BY <2>2, <3>3, <3>4 DEF type, o1
  <2>3. CASE v \notin R /\ v \in K
    <3>1. u[v] = Asked(w[v])
      BY <2>3
    <3> HIDE DEF u
    <3>2. w[v].answered
      BY <1>7, <1>9, <2>3
    <3> DEFINE o1 == w[v]
    <3>3. o1 \in Vote /\ o1.answered /\ u[v] = Asked(o1)
      BY <2>1, <3>1, <3>2
    <3> HIDE DEF o1
    <3>4. /\ u[v].answered = o1.answered /\ u[v].strong = o1.strong /\ u[v].reverted = o1.reverted
          /\ u[v].safe = o1.safe /\ u[v].granted = o1.granted
      BY <3>3, AskedFair
    <3>5. QED
      BY <2>3, <3>3, <3>4 DEF o1
  <2>4. CASE v \notin R /\ v \notin K
    <3>1. u[v] = w[v]
      BY <2>4
    <3> HIDE DEF u
    <3>2. QED
      BY <2>4, <3>1
  <2>5. QED
    BY <2>2, <2>3, <2>4
<1> HIDE DEF u
<1>11. ASSUME NEW v \in Votes
       PROVE  VoteFresh(p, u[v])
  <2>1. VoteFresh(o, vote[x][v]) /\ VoteHeard(x, v, vote[x][v], w[v])
    BY <1>5, <1>6
  <2>2. ~u[v].answered => /\ u[v].count <= 1 /\ ~u[v].reverted /\ u[v].safe /\ u[v].pending
    BY <1>7, <1>10
  <2>3. v \in R => p.revert # Type /\ (u[v].safe <=> p.revert = RevertToNeutral)
    BY <1>t, <1>4, <1>9, <1>10 DEF RevertTypes
  <2>4. v \notin R /\ u[v].reverted => p.revert # Type /\ (u[v].safe <=> p.revert = RevertToNeutral)
    <3>1. SUFFICES ASSUME v \notin R, u[v].reverted
                   PROVE  p.revert # Type /\ (u[v].safe <=> p.revert = RevertToNeutral)
      OBVIOUS
    <3>2. vote[x][v].reverted /\ u[v].safe = vote[x][v].safe
      BY <1>10, <2>1, <3>1 DEF VoteHeard
    <3>3. o.revert # Type /\ (vote[x][v].safe <=> o.revert = RevertToNeutral)
      BY <2>1, <3>2 DEF VoteFresh
    <3>4. p.revert = o.revert
      BY <1>2, <1>4, <3>3
    <3>5. QED
      BY <3>2, <3>3, <3>4
  <2>5. u[v].reverted => p.revert # Type /\ (u[v].safe <=> p.revert = RevertToNeutral)
    BY <2>3, <2>4, Zenon
  <2>6. p.started
    BY <1>4
  <2>7. ~u[v].answered => /\ u[v].count <= 1 /\ ~u[v].reverted /\ u[v].safe
                          /\ p.started => u[v].pending
                          /\ ~p.started => u[v].count = 0
    BY <2>2, <2>6
  <2>8. ~p.started => ~u[v].answered
    BY <2>6
  <2>9. QED
    BY <2>5, <2>7, <2>8 DEF VoteFresh
<1>12. Fresh(x)'
  <2>1. \A v \in Votes : VoteFresh(op[x], vote[x][v])'
    <3>1. Type' = Type
      BY DEF Type
    <3>2. QED
      BY <1>3, <1>11, <3>1 DEF VoteFresh
  <2>2. QED
    BY <1>3, <1>4, <2>1 DEF Fresh
<1>13. ASSUME NEW v \in Votes
       PROVE  /\ vote[x][v].reverted => u[v].reverted /\ u[v].safe = vote[x][v].safe
              /\ vote[x][v].answered => u[v].answered
              /\ ~u[v].safe /\ ~u[v].reverted => Told(x, v)
              /\ StrongVote(arbiter[v], x, u[v], NeutralBack(v) \/ (u[v].reverted /\ u[v].safe))
  <2>1. VoteHeard(x, v, vote[x][v], w[v])
    BY <1>6
  <2>2. /\ vote[x][v].reverted => u[v].reverted /\ u[v].safe = vote[x][v].safe
        /\ vote[x][v].answered => u[v].answered
        /\ ~u[v].safe /\ ~u[v].reverted => Told(x, v)
    BY <1>10, <2>1 DEF VoteHeard
  <2>3. StrongVote(arbiter[v], x, u[v], NeutralBack(v) \/ (u[v].reverted /\ u[v].safe))
    BY <1>10, <2>1 DEF VoteHeard, StrongVote
  <2>4. QED
    BY <2>2, <2>3
<1>14. (Down(x) <=> GoesDown(o)) /\ (Down(x)' <=> GoesDown(p))
  BY <1>3 DEF Down, GoesDown, o
<1>15. /\ o.revert = RevertToReject => p.revert = RevertToReject
       /\ GoesDown(o) => GoesDown(p)
  BY <1>4 DEF GoesDown, RevertTypes
<1>16. \A v \in Votes : w[v].answered => u[v].answered
  BY <1>10
<1>17. ~Down(x) /\ Down(x)' =>
          \E z : /\ Heard(x, z) /\ Falls(x, z, op[x], op'[x])
                 /\ \A v \in Votes : z[v].answered => vote'[x][v].answered
  BY <1>3, <1>8, <1>14, <1>16 DEF o
<1>18. \A v \in Votes :
          /\ vote[x][v].reverted => vote'[x][v].reverted /\ vote'[x][v].safe = vote[x][v].safe
          /\ vote[x][v].answered => vote'[x][v].answered
          /\ ~vote'[x][v].safe /\ ~vote'[x][v].reverted => Told(x, v)
          /\ StrongVote(arbiter[v], x, vote'[x][v],
                        NeutralBack(v) \/ (vote'[x][v].reverted /\ vote'[x][v].safe))
  BY <1>3, <1>13
<1>19. op[x].revert = RevertToReject => op'[x].revert = RevertToReject
  BY <1>3, <1>15 DEF o
<1>20. QED
  BY <1>12, <1>14, <1>15, <1>17, <1>18, <1>19 DEF FairSide

\* The votes of x as they are.
LEMMA SameHeard ==
    ASSUME IInv, Survival, NEW x \in Sides
    PROVE  Heard(x, vote[x])
<1>1. vote[x] \in [Votes -> Vote] /\ \A v \in Votes : VoteOK(vote[x][v])
  BY DEF IInv, Types
<1>2. \A v \in Votes : StrongVote(arbiter[v], x, vote[x][v], NeutralBack(v))
  BY DEF Survival, Strong
<1>3. QED
  BY <1>1, <1>2 DEF Heard, VoteHeard, Told

\* The votes of x with one of them changed by an answer.
LEMMA OneHeard ==
    ASSUME IInv, Survival, NEW x \in Sides, NEW v \in Votes, NEW n \in Vote,
           VoteHeard(x, v, vote[x][v], n)
    PROVE  Heard(x, [vote[x] EXCEPT ![v] = n])
<1> DEFINE w == [vote[x] EXCEPT ![v] = n]
<1>1. vote[x] \in [Votes -> Vote]
  BY DEF IInv, Types
<1>2. w \in [Votes -> Vote] /\ w[v] = n /\ \A z \in Votes \ {v} : w[z] = vote[x][z]
  BY <1>1
<1>3. \A z \in Votes : VoteHeard(x, z, vote[x][z], vote[x][z])
  BY SameHeard DEF Heard
<1> HIDE DEF w
<1>4. \A z \in Votes : VoteHeard(x, z, vote[x][z], w[z])
  BY <1>2, <1>3
<1>5. QED
  BY <1>2, <1>4 DEF Heard, w

\* A vote that was given back has an answer; it stays as it is when a call ends.
LEMMA RevertedHeard ==
    ASSUME IInv, Survival, NEW x \in Sides, NEW v \in Votes, vote[x][v].reverted
    PROVE  /\ [vote[x][v] EXCEPT !.pending = FALSE] \in Vote
           /\ VoteHeard(x, v, vote[x][v], [vote[x][v] EXCEPT !.pending = FALSE])
<1> DEFINE o == vote[x][v]
           n == [o EXCEPT !.pending = FALSE]
<1>1. o \in Vote /\ VoteOK(o) /\ VoteHeard(x, v, o, o)
  BY SameHeard DEF IInv, Types, Heard
<1>2. o.answered
  BY DEF Survival, Fresh, VoteFresh
<1>3. o.reverted
  OBVIOUS
<1> HIDE DEF o
<1>4. /\ n \in Vote /\ n.granted = o.granted /\ n.answered = o.answered /\ n.safe = o.safe
      /\ n.reverted = o.reverted /\ n.strong = o.strong
  BY <1>1 DEF Vote
<1> HIDE DEF n
<1>5. VoteHeard(x, v, o, n)
  BY <1>1, <1>2, <1>3, <1>4 DEF VoteHeard, VoteOK, StrongVote
<1>6. QED
  BY <1>4, <1>5 DEF n, o

\* A step that only takes a call or a reply away.
LEMMA IdleFair ==
    ASSUME Survival, NEW x \in Sides, replies' \subseteq replies,
           UNCHANGED <<lease, arbiter, vote, op, failures>>
    PROVE  FairSide(x)
<1>1. Fresh(x) /\ \A v \in Votes : StrongVote(arbiter[v], x, vote[x][v], NeutralBack(v))
  BY DEF Survival, Strong
<1>2. Fresh(x)' /\ (Down(x)' <=> Down(x))
  BY <1>1 DEF Fresh, VoteFresh, Down, Type
<1>3. \A v \in Votes :
         /\ ~vote[x][v].safe /\ ~vote[x][v].reverted => Told(x, v)
         /\ StrongVote(arbiter[v], x, vote[x][v],
                       NeutralBack(v) \/ (vote[x][v].reverted /\ vote[x][v].safe))
  BY <1>1 DEF Told, StrongVote
<1>4. QED
  BY <1>2, <1>3 DEF FairSide

\* Every arbiter is asked.
LEMMA StartFair ==
    ASSUME IInv, Survival, NEW x \in Sides, Start(x)
    PROVE  FairSide(x)
<1> DEFINE p == [op[x] EXCEPT !.started = TRUE]
           u == [v \in Votes |-> Asked(vote[x][v])]
<1>1. /\ op \in [Sides -> Operation] /\ op[x] \in Operation
      /\ vote \in [Sides -> [Votes -> Vote]] /\ ~op[x].started
  BY DEF IInv, Types, Start
<1>2. /\ op' = [op EXCEPT ![x] = p] /\ vote' = [vote EXCEPT ![x] = u]
      /\ UNCHANGED <<lease, arbiter, replies, failures>>
  BY <1>1 DEF Start
<1>3. op'[x] = p /\ vote'[x] = u
  BY <1>1, <1>2
<1>4. \A v \in Votes : VoteFresh(op[x], vote[x][v]) /\ Heard(x, vote[x])
  BY SameHeard DEF Survival, Fresh
<1>5. /\ p.revert = op[x].revert /\ p.local = op[x].local
      /\ p.completed = op[x].completed /\ p.started
  BY <1>1 DEF Operation
<1>6. ASSUME NEW v \in Votes
      PROVE  /\ u[v].reverted = vote[x][v].reverted /\ u[v].answered = vote[x][v].answered
             /\ u[v].safe = vote[x][v].safe /\ u[v].granted = vote[x][v].granted
             /\ u[v].strong = vote[x][v].strong
             /\ u[v].pending /\ u[v].count = vote[x][v].count + 1
  <2> DEFINE o == vote[x][v]
  <2>1. o \in Vote /\ u[v] = Asked(o)
    BY <1>1
  <2> HIDE DEF o, u
  <2>2. u[v].pending /\ u[v].count = o.count + 1
    BY <2>1 DEF Asked, Vote
  <2>3. QED
    BY <2>1, <2>2, AskedFair DEF o
<1> HIDE DEF p, u
<1>7. ASSUME NEW v \in Votes
      PROVE  VoteFresh(p, u[v])
  <2>1. ~vote[x][v].answered /\ vote[x][v].count = 0 /\ ~vote[x][v].reverted /\ vote[x][v].safe
    BY <1>1, <1>4 DEF VoteFresh
  <2>2. u[v].count <= 1 /\ u[v].pending /\ ~u[v].reverted /\ u[v].safe /\ p.started
    BY <1>5, <1>6, <2>1
  <2>3. QED
    BY <2>2 DEF VoteFresh
<1>8. Fresh(x)'
  <2>1. Type' = Type
    BY <1>2 DEF Type
  <2>2. \A v \in Votes : VoteFresh(op[x], vote[x][v])'
    BY <1>3, <1>7, <2>1 DEF VoteFresh
  <2>3. QED
    BY <1>3, <1>5, <2>2 DEF Fresh
<1>9. Down(x)' <=> Down(x)
  BY <1>3, <1>5 DEF Down
<1>10. ASSUME NEW v \in Votes
       PROVE  /\ vote[x][v].reverted => u[v].reverted /\ u[v].safe = vote[x][v].safe
              /\ vote[x][v].answered => u[v].answered
              /\ ~u[v].safe /\ ~u[v].reverted => Told(x, v)
              /\ StrongVote(arbiter[v], x, u[v], NeutralBack(v) \/ (u[v].reverted /\ u[v].safe))
  <2>1. VoteHeard(x, v, vote[x][v], vote[x][v])
    BY <1>4 DEF Heard
  <2>2. QED
    BY <1>6, <2>1 DEF VoteHeard, StrongVote
<1>11. QED
  BY <1>2, <1>3, <1>5, <1>8, <1>9, <1>10 DEF FairSide

\* A vote with the answer of a reply.
LEMMA AnsweredStrong ==
    ASSUME NEW o \in Vote, NEW m \in Reply
    PROVE  AnsweredBy(o, m).strong = m.strong
<1> DEFINE g == m.granted
           f == ~m.rejected
           r == m.reported
           s == m.strong
           k == m.continuous
           d == m.delayed
           n == AnsweredBy(o, m)
<1>1. n = [o EXCEPT !.pending = FALSE, !.answered = TRUE, !.granted = g, !.safe = f,
                    !.reported = r, !.strong = s, !.continuous = k, !.delayed = d]
  BY DEF AnsweredBy
<1> SUFFICES n.strong = s
  OBVIOUS
<1> HIDE DEF n, g, f, r, s, k, d
<1>2. QED
  BY <1>1 DEF Vote

\* A reply.
LEMMA ProcessReplyFair ==
    ASSUME MaxRequestPerVoter > 1, IInv, UInv, Survival, NEW x \in Sides, ProcessReply(x)
    PROVE  FairSide(x)
<1>1. PICK m \in replies, due \in Retries(x) :
        LET v == m.from
            w == [vote[x] EXCEPT ![v] =
                    IF @.reverted THEN [@ EXCEPT !.pending = FALSE]
                    ELSE [@ EXCEPT !.pending = FALSE, !.answered = TRUE, !.granted = m.granted,
                                   !.safe = ~m.rejected, !.reported = m.reported,
                                   !.strong = m.strong, !.continuous = m.continuous,
                                   !.delayed = m.delayed]]
        IN  /\ Running(x) /\ m.to = x /\ m.kind = "reply"
            /\ replies' = replies \ {m}
            /\ \E c \in calls :
                /\ c.from = x /\ c.to = v /\ c.number = m.number
                /\ IF vote[x][v].pending
                   THEN RunStateMachine(x, w, due, FALSE, FALSE, calls \ {c})
                   ELSE due = {} /\ calls' = calls \ {c} /\ UNCHANGED <<op, vote, requests>>
            /\ UNCHANGED <<lease, arbiter, failures>>
  BY DEF ProcessReply
<1> DEFINE v == m.from
           o == vote[x][v]
           n == IF o.reverted THEN [o EXCEPT !.pending = FALSE] ELSE AnsweredBy(o, m)
           w == [vote[x] EXCEPT ![v] = n]
<1>2. /\ m \in Reply /\ v \in Votes /\ m.to = x /\ (m.granted => ~m.rejected)
      /\ o \in Vote /\ VoteOK(o) /\ vote[x] \in [Votes -> Vote]
  BY <1>1 DEF IInv, Types, Reply
<1>3. PICK c \in calls :
         IF o.pending
         THEN RunStateMachine(x, w, due, FALSE, FALSE, calls \ {c})
         ELSE due = {} /\ calls' = calls \ {c} /\ UNCHANGED <<op, vote, requests>>
  <2>1. w = [vote[x] EXCEPT ![v] = IF @.reverted THEN [@ EXCEPT !.pending = FALSE]
                    ELSE [@ EXCEPT !.pending = FALSE, !.answered = TRUE, !.granted = m.granted,
                                   !.safe = ~m.rejected, !.reported = m.reported,
                                   !.strong = m.strong, !.continuous = m.continuous,
                                   !.delayed = m.delayed]]
    BY <1>2 DEF AnsweredBy
  <2> HIDE DEF w
  <2>2. QED
    BY <1>1, <2>1
<1>4. replies' \subseteq replies /\ UNCHANGED <<lease, arbiter, failures>>
  BY <1>1
<1>5. n \in Vote /\ VoteHeard(x, v, o, n)
  <2>1. CASE o.reverted
    <3>1. n = [vote[x][v] EXCEPT !.pending = FALSE]
      BY <2>1
    <3> HIDE DEF n, v
    <3>2. QED
      BY <1>2, <2>1, <3>1, RevertedHeard
  <2>2. CASE ~o.reverted
    <3>1. n = AnsweredBy(o, m)
      BY <2>2
    <3>2. m.rejected => Told(x, v)
      BY <1>1, <2>2 DEF Told
    <3>3. StrongReply(arbiter[v], m, NeutralBack(v))
      BY DEF Survival, Strong
    <3> HIDE DEF n, o, v
    <3>4. /\ n \in Vote /\ n.answered /\ n.reverted = o.reverted
          /\ n.granted <=> m.granted
          /\ n.safe <=> ~m.rejected
      BY <1>2, <3>1, AnsweredOK
    <3>5. n.strong = m.strong
      BY <1>2, <3>1, AnsweredStrong
    <3>6. StrongVote(arbiter[v], x, n, NeutralBack(v))
      BY <1>2, <3>3, <3>4, <3>5 DEF StrongVote, StrongReply
    <3>7. QED
      BY <1>2, <2>2, <3>2, <3>4, <3>6 DEF VoteHeard, VoteOK
  <2>3. QED
    BY <2>1, <2>2
<1>6. Heard(x, w)
  <2> HIDE DEF n, v
  <2>1. QED
    BY <1>2, <1>5, OneHeard DEF o
<1>7. op[x].started /\ ~op[x].assertFailed
  BY <1>1 DEF Running
<1>8. CASE o.pending
  <2> HIDE DEF w
  <2> DEFINE other == calls \ {c}
  <2>1. RunStateMachine(x, w, due, FALSE, FALSE, other)
    BY <1>3, <1>8
  <2> HIDE DEF other
  <2>2. QED
    BY <1>4, <1>6, <1>7, <2>1, RunFair
<1>9. CASE ~o.pending
  <2>1. UNCHANGED <<op, vote>>
    BY <1>3, <1>9
  <2>2. QED
    BY <1>4, <2>1, IdleFair
<1>10. QED
  BY <1>8, <1>9

\* A vote and a delayed reply: it is no rejection, and says how strong the side is.
LEMMA DelayedFair ==
    ASSUME NEW o \in Vote, VoteOK(o), ~o.reverted, NEW m \in Reply, ~m.rejected,
           NEW a, NEW neutral, StrongReply(a, m, neutral), StrongVote(a, m.to, o, neutral)
    PROVE  DelayedVote(o, m).safe /\ StrongVote(a, m.to, DelayedVote(o, m), neutral)
<1> DEFINE n == DelayedVote(o, m)
           g == m.granted
           r == m.reported
           s == m.strong
           k == m.continuous
           b == a.strong[m.to]
           present == IsPresent(a.decision[m.to])
<1>1. g \in BOOLEAN /\ r \in BOOLEAN /\ s \in BOOLEAN /\ k \in BOOLEAN
  BY DEF Reply
<1>2. /\ o.granted \in BOOLEAN /\ o.safe \in BOOLEAN /\ o.strong \in BOOLEAN
      /\ o.granted => o.answered /\ o.safe
  BY DEF Vote, VoteOK
<1>3. /\ present /\ s = b
      /\ s /\ ~g => neutral
      /\ o.answered => o.strong = b
      /\ o.answered /\ o.safe /\ ~o.granted /\ o.strong => neutral
  BY DEF StrongReply, StrongVote
<1> SUFFICES n.safe /\ n.strong = b /\ (~n.granted /\ n.strong => neutral)
  BY <1>3 DEF StrongVote
<1> HIDE DEF b, present
<1>4. CASE ~o.answered
  <2>1. n = [o EXCEPT !.answered = TRUE, !.pending = FALSE, !.granted = g, !.safe = TRUE,
                      !.reported = r, !.strong = s, !.continuous = k, !.delayed = FALSE]
    BY <1>4 DEF DelayedVote, HasResult
  <2> HIDE DEF n, g, r, s, k
  <2>2. n.safe = TRUE /\ n.strong = s /\ n.granted = g
    BY <2>1 DEF Vote
  <2>3. QED
    BY <1>3, <2>2
<1>5. CASE o.answered
  <2> DEFINE mg == IF g /\ ~o.granted
                   THEN [[o EXCEPT !.strong = s, !.continuous = k] EXCEPT !.granted = TRUE, !.safe = TRUE]
                   ELSE IF ~g /\ ~o.safe THEN [[o EXCEPT !.strong = s, !.continuous = k] EXCEPT !.safe = TRUE]
                        ELSE o
  <2>1. n = [mg EXCEPT !.reported = @ \/ r, !.delayed = FALSE]
    BY <1>5 DEF DelayedVote, HasResult
  <2> HIDE DEF n, g, r, s, k
  <2>2. /\ mg \in Vote /\ mg.safe /\ mg.strong = b
        /\ ~mg.granted /\ mg.strong => neutral
    <3>1. CASE g /\ ~o.granted
      <4>1. mg = [[o EXCEPT !.strong = s, !.continuous = k] EXCEPT !.granted = TRUE, !.safe = TRUE]
        BY <3>1
      <4> HIDE DEF mg
      <4>2. mg \in Vote /\ mg.safe = TRUE /\ mg.granted = TRUE /\ mg.strong = s
        BY <1>1, <4>1 DEF Vote
      <4>3. QED
        BY <1>3, <4>2
    <3>2. CASE ~g /\ ~o.safe
      <4>1. mg = [[o EXCEPT !.strong = s, !.continuous = k] EXCEPT !.safe = TRUE]
        BY <1>2, <3>2
      <4> HIDE DEF mg
      <4>2. mg \in Vote /\ mg.safe = TRUE /\ mg.strong = s
        BY <1>1, <4>1 DEF Vote
      <4>3. QED
        BY <1>3, <3>2, <4>2
    <3>3. CASE ~(g /\ ~o.granted) /\ ~(~g /\ ~o.safe)
      <4>1. mg = o
        BY <3>3
      <4>2. o.safe
        BY <1>2, <3>3
      <4> HIDE DEF mg
      <4>3. QED
        BY <1>3, <1>5, <4>1, <4>2
    <3>4. QED
      BY <3>1, <3>2, <3>3
  <2> HIDE DEF mg
  <2>3. n.safe = mg.safe /\ n.strong = mg.strong /\ n.granted = mg.granted
    BY <2>1, <2>2 DEF Vote
  <2>4. QED
    BY <2>2, <2>3
<1>6. QED
  BY <1>4, <1>5

\* A delayed reply.
LEMMA ProcessDelayedReplyFair ==
    ASSUME MaxRequestPerVoter > 1, IInv, UInv, Survival, failures = 0, failures' = 0,
           NEW x \in Sides, ProcessDelayedReply(x)
    PROVE  FairSide(x)
<1>1. PICK m \in replies, due \in Retries(x), ends \in BOOLEAN :
        /\ Running(x) /\ m.to = x /\ m.kind = "delayed"
        /\ Failing(One(ends))
        /\ replies' = replies \ {m}
        /\ RunStateMachine(x, [vote[x] EXCEPT ![m.from] = DelayedVote(@, m)], due, FALSE, ends, calls)
        /\ UNCHANGED <<lease, arbiter>>
  BY DEF ProcessDelayedReply
<1> DEFINE v == m.from
           o == vote[x][v]
           n == DelayedVote(o, m)
           w == [vote[x] EXCEPT ![v] = n]
<1>2. /\ m \in Reply /\ v \in Votes /\ ~m.rejected /\ m.to = x
      /\ o \in Vote /\ VoteOK(o) /\ vote[x] \in [Votes -> Vote]
  BY <1>1 DEF IInv, Types, Reply
<1>3. w = [vote[x] EXCEPT ![m.from] = DelayedVote(@, m)]
  BY <1>2
<1>4. ~ends
  BY <1>1 DEF Failing, One
<1>5. n \in Vote /\ VoteHeard(x, v, o, n)
  <2>1. /\ n \in Vote /\ VoteOK(n) /\ n.reverted = o.reverted
        /\ o.reverted => n = o
        /\ ~o.reverted => n.answered
    BY <1>2, DelayedVoteOK
  <2>2. VoteHeard(x, v, o, o)
    BY <1>2, SameHeard DEF Heard
  <2>3. StrongReply(arbiter[v], m, NeutralBack(v)) /\ StrongVote(arbiter[v], m.to, o, NeutralBack(v))
    BY <1>2 DEF Survival, Strong
  <2>4. ASSUME ~o.reverted
        PROVE  n.safe /\ StrongVote(arbiter[v], x, n, NeutralBack(v))
    <3> HIDE DEF o, v
    <3>1. n.safe /\ StrongVote(arbiter[v], m.to, n, NeutralBack(v))
      BY <1>2, <2>3, <2>4, DelayedFair
    <3>2. QED
      BY <1>2, <3>1
  <2> HIDE DEF n, o, v
  <2>5. CASE o.reverted
    BY <2>1, <2>2, <2>5
  <2>6. CASE ~o.reverted
    BY <2>1, <2>4, <2>6 DEF VoteHeard
  <2>7. QED
    BY <2>5, <2>6
<1>6. Heard(x, w)
  <2> HIDE DEF n, v
  <2>1. QED
    BY <1>2, <1>5, OneHeard DEF o
<1> HIDE DEF w
<1>7. op[x].started /\ ~op[x].assertFailed
  BY <1>1 DEF Running
<1>8. RunStateMachine(x, w, due, FALSE, ends, calls)
  BY <1>1, <1>3
<1>9. replies' \subseteq replies /\ UNCHANGED <<lease, arbiter, failures>>
  BY <1>1
<1>10. QED
  BY <1>4, <1>6, <1>7, <1>8, <1>9, RunFair

\* An error: it ends the call that gave back a grant as a rejection.
LEMMA ProcessErrorFair ==
    ASSUME MaxRequestPerVoter > 1, IInv, UInv, Survival, failures = 0, failures' = 0,
           NEW x \in Sides, ProcessError(x)
    PROVE  FairSide(x)
<1>1. PICK c \in calls, due \in Retries(x), ends \in BOOLEAN :
        LET w == [vote[x] EXCEPT ![c.to].pending = FALSE]
        IN  /\ Running(x) /\ c.from = x
            /\ Failing(One(c.type # RevertToReject) + One(ends))
            /\ IF vote[x][c.to].pending
               THEN RunStateMachine(x, w, due, FALSE, ends, calls \ {c})
               ELSE /\ due = {} /\ ~ends
                    /\ calls' = calls \ {c} /\ UNCHANGED <<op, vote, requests>>
            /\ replies' = {m \in replies : ~(m.kind = "reply" /\ m.to = x /\ m.from = c.to /\ m.number = c.number)}
            /\ UNCHANGED <<lease, arbiter>>
  BY DEF ProcessError
<1> DEFINE v == c.to
           o == vote[x][v]
           n == [o EXCEPT !.pending = FALSE]
           w == [vote[x] EXCEPT ![v] = n]
           other == calls \ {c}
<1>2. v \in Votes /\ o \in Vote /\ VoteOK(o) /\ vote[x] \in [Votes -> Vote] /\ RequestOK(c)
  BY DEF IInv, Types, Req
<1>3. w = [vote[x] EXCEPT ![c.to].pending = FALSE]
  BY <1>2
<1>4. c.type = RevertToReject /\ ~ends
  BY <1>1 DEF Failing, One
<1>5. o.reverted
  BY <1>1, <1>2, <1>4 DEF RequestOK, RevertTypes
<1>6. Heard(x, w)
  <2>1. n \in Vote /\ VoteHeard(x, v, o, n)
    <3> HIDE DEF v
    <3>1. QED
      BY <1>2, <1>5, RevertedHeard
  <2> HIDE DEF n, v
  <2>2. QED
    BY <1>2, <2>1, OneHeard DEF o
<1> HIDE DEF w
<1>7. op[x].started /\ ~op[x].assertFailed
  BY <1>1 DEF Running
<1>8. replies' \subseteq replies /\ UNCHANGED <<lease, arbiter, failures>>
  BY <1>1
<1>9. CASE o.pending
  <2>1. RunStateMachine(x, w, due, FALSE, ends, other)
    BY <1>1, <1>3, <1>9
  <2> HIDE DEF other
  <2>2. QED
    BY <1>4, <1>6, <1>7, <1>8, <2>1, RunFair
<1>10. CASE ~o.pending
  <2>1. UNCHANGED <<op, vote>>
    BY <1>1, <1>10
  <2>2. QED
    BY <1>8, <2>1, IdleFair
<1>11. QED
  BY <1>9, <1>10

\* The timer, for a retry.
LEMMA OnTimerFair ==
    ASSUME MaxRequestPerVoter > 1, IInv, UInv, Survival, failures = 0, failures' = 0,
           NEW x \in Sides, OnTimer(x)
    PROVE  FairSide(x)
<1>1. PICK due \in Retries(x), late, ends \in BOOLEAN :
        /\ Running(x) /\ Failing(One(late) + One(ends))
        /\ RunStateMachine(x, vote[x], due, late, ends, calls)
        /\ UNCHANGED <<lease, arbiter, replies>>
  BY DEF OnTimer
<1>2. Heard(x, vote[x])
  BY SameHeard
<1>3. ~late /\ ~ends
  BY <1>1 DEF Failing, One
<1>4. /\ op[x].started /\ ~op[x].assertFailed
      /\ replies' \subseteq replies /\ UNCHANGED <<lease, arbiter, failures>>
  BY <1>1 DEF Running
<1> DEFINE w == vote[x]
<1>5. Heard(x, w) /\ RunStateMachine(x, w, due, late, ends, calls)
  BY <1>1, <1>2
<1> HIDE DEF w
<1>6. QED
  BY <1>3, <1>4, <1>5, RunFair

\* Every step of a side.
LEMMA SideStepFair ==
    ASSUME MaxRequestPerVoter > 1, IInv, UInv, Survival, failures = 0, failures' = 0,
           NEW x \in Sides, SideStep(x)
    PROVE  FairSide(x)
  BY StartFair, ProcessReplyFair, ProcessErrorFair, ProcessDelayedReplyFair, OnTimerFair DEF SideStep

\* A side does not go down once its peer did, and does so for arbiters that never
\* reject its peer.
LEMMA FallsAlone ==
    ASSUME IInv, UInv, Survival, NEW x \in Sides, ~Down(x),
           NEW w, Heard(x, w), NEW p, Falls(x, w, op[x], p)
    PROVE  /\ ~Down(Other(x))
           /\ Rejected(w) \subseteq Beat(Other(x))
           /\ \/ Cardinality(Rejected(w)) >= Quorum
              \/ /\ 2 * Cardinality(Rejected(w)) = Cardinality(Votes)
                 /\ p.revert = RevertToReject
                 /\ \A v \in Votes : w[v].answered
                 /\ Rejected(w) = Beat(Other(x)) =>
                       TieLost(x, SC(x, Votes \ Rejected(w)), SC(x, Rejected(w)))
<1> DEFINE y == Other(x)
           U == Rejected(w)
           B == Beat(x)
           n == Cardinality(Votes)
<1>1. y \in Sides /\ y # x /\ Other(y) = x /\ Sides = {x, y}
  BY OtherOK
<1>2. /\ \A v \in Votes : VoteHeard(x, v, vote[x][v], w[v])
      /\ \A z \in Sides, v \in Votes : VoteFresh(op[z], vote[z][v])
      /\ op[x].revert \in {Type} \cup RevertTypes
  BY DEF Heard, Survival, Fresh, UInv
<1>3. \A v \in U : Told(x, v)
  <2>1. SUFFICES ASSUME NEW v \in U, w[v].reverted
                 PROVE  FALSE
    BY <1>2 DEF VoteHeard, Rejected
  <2>2. vote[x][v].reverted /\ ~vote[x][v].safe
    BY <1>2, <2>1 DEF VoteHeard, Rejected
  <2>3. op[x].revert # Type /\ op[x].revert # RevertToNeutral
    BY <1>2, <2>1, <2>2 DEF VoteFresh, Rejected
  <2>4. QED
    BY <1>2, <2>3 DEF Down, RevertTypes
<1>4. U \subseteq Beat(y)
  <2>1. SUFFICES ASSUME NEW v \in U
                 PROVE  vote[y][v].reverted \/ (Decided(y, v) /\ ~Told(y, v))
    BY DEF Beat, Rejected
  <2>2. v \in Votes /\ Told(x, v) /\ ~vote[x][v].reverted
    BY <1>3 DEF Rejected, Told
  <2>3. Decided(y, v) \/ vote[y][v].reverted
    BY <2>2 DEF Survival, ToldOK
  <2>4. Told(y, v) => Decided(x, v)
    BY <1>1, <2>2 DEF Survival, ToldOK
  <2>5. ~(Decided(x, v) /\ Decided(y, v))
    BY <1>1 DEF Decided, For, None, Grant, Reject
  <2>6. QED
    BY <2>3, <2>4, <2>5
<1>5. B \subseteq Votes \ U
  BY <1>3 DEF Beat, Told
<1>6. U \subseteq Votes /\ Votes \ U \subseteq Votes
  BY DEF Rejected
<1>7. /\ Cardinality(U) \in Nat /\ Cardinality(B) \in Nat /\ Cardinality(Votes \ U) \in Nat
      /\ Cardinality(U) + Cardinality(Votes \ U) = n
      /\ Cardinality(B) <= Cardinality(Votes \ U)
      /\ Cardinality(B) = Cardinality(Votes \ U) => B = Votes \ U
  <2> HIDE DEF U, B
  <2>1. Cardinality(U) \in Nat
    BY <1>6, SubsetCounts
  <2>2. /\ Cardinality(B) \in Nat /\ Cardinality(Votes \ U) \in Nat
        /\ Cardinality(B) <= Cardinality(Votes \ U)
        /\ Cardinality(B) = Cardinality(Votes \ U) => B = Votes \ U
    BY <1>5, <1>6, SubsetCounts
  <2>3. QED
    BY <1>6, <2>1, <2>2, OthersCount
<1>8. ASSUME op[x].revert = Type, \A v \in Votes : w[v].answered,
             TieLost(x, Cardinality(StrongGrants(w)), Cardinality({v \in U : w[v].strong})),
             \A v \in Votes \ U : ~(vote[y][v].reverted /\ vote[y][v].safe)
      PROVE  TieLost(x, SC(x, Votes \ U), SC(x, U))
  <2>1. \A v \in Votes : ~vote[x][v].reverted
    BY <1>2, <1>8 DEF VoteFresh
  <2>2. \A v \in Votes \ U : ~NeutralBack(v)
    BY <1>1, <1>8, <2>1 DEF NeutralBack
  <2>3. \A v \in Votes : /\ w[v].strong = arbiter[v].strong[x]
                         /\ w[v].safe /\ ~w[v].granted /\ w[v].strong => NeutralBack(v)
    BY <1>2, <1>8 DEF VoteHeard, StrongVote
  <2>4. {v \in U : w[v].strong} = Strongs(x, U)
    BY <1>6, <2>3 DEF Strongs
  <2>5. StrongGrants(w) = Strongs(x, Votes \ U)
    BY <1>8, <2>2, <2>3 DEF StrongGrants, Strongs, Rejected
  <2>6. QED
    BY <1>8, <2>4, <2>5 DEF SC
<1>9. \/ Cardinality(U) >= Quorum
      \/ /\ 2 * Cardinality(U) = n
         /\ op[x].revert = Type /\ p.revert = RevertToReject
         /\ \A v \in Votes : w[v].answered
         /\ TieLost(x, Cardinality(StrongGrants(w)), Cardinality({v \in U : w[v].strong}))
  BY DEF Falls
<1> HIDE DEF y, U, B
<1>10. ASSUME Down(y)
       PROVE  FALSE
  <2>1. Cardinality(B) >= Quorum \/ (2 * Cardinality(B) = n /\ Yields(y, B))
    BY <1>1, <1>10 DEF Survival, DownOK, B
  <2>2. n \in Nat /\ Quorum \in Nat /\ 2 * Quorum > n
    BY QuorumOK
  <2>3. 2 * Cardinality(U) = n /\ 2 * Cardinality(B) = n
    BY <1>7, <1>9, <2>1, <2>2
  <2>4. B = Votes \ U /\ Votes \ B = U
    BY <1>6, <1>7, <2>2, <2>3
  <2>5. ~(Cardinality(U) >= Quorum) /\ ~(Cardinality(B) >= Quorum)
    BY <1>7, <2>2, <2>3
  <2>6. /\ op[y].revert = RevertToReject
        /\ \A v \in Votes : vote[y][v].answered
        /\ TieLost(y, SC(y, U), SC(y, Votes \ U))
    BY <2>1, <2>4, <2>5 DEF Yields
  <2>7. RevertToReject # RevertToNeutral
    BY DEF RevertToReject, RevertToNeutral
  <2>8. \A v \in Votes : ~(vote[y][v].reverted /\ vote[y][v].safe)
    BY <1>1, <1>2, <2>6, <2>7 DEF VoteFresh
  <2>9. TieLost(x, SC(x, Votes \ U), SC(x, U))
    BY <1>8, <1>9, <2>5, <2>8
  <2>10. \A v \in Votes : arbiter[v].strong[x] = arbiter[v].strong[y]
    <3>1. \A v \in Votes : w[v].answered
      BY <1>9, <2>5
    <3>2. \A v \in Votes : IsPresent(arbiter[v].decision[x])
      BY <1>2, <3>1 DEF VoteHeard, StrongVote
    <3>3. \A v \in Votes : IsPresent(arbiter[v].decision[y])
      BY <1>1, <2>6 DEF Survival, Strong, StrongVote
    <3>4. QED
      BY <3>2, <3>3 DEF Survival, Strong, StrongArbiter, y
  <2>11. SC(y, U) = SC(x, U) /\ SC(y, Votes \ U) = SC(x, Votes \ U)
    <3>1. Strongs(y, U) = Strongs(x, U) /\ Strongs(y, Votes \ U) = Strongs(x, Votes \ U)
      BY <1>6, <2>10 DEF Strongs
    <3>2. QED
      BY <3>1 DEF SC
  <2>12. SC(x, U) \in Nat /\ SC(x, Votes \ U) \in Nat
    <3>1. Strongs(x, U) \subseteq Votes /\ Strongs(x, Votes \ U) \subseteq Votes
      BY <1>6 DEF Strongs
    <3>2. QED
      BY <3>1, SubsetCounts DEF SC
  <2>13. Preferred = x \/ Preferred = y
    BY <1>1, SidesAssumption
  <2>14. QED
    BY <2>6, <2>9, <2>11, <2>12, <2>13 DEF TieLost
<1>11. U = Beat(y) => \A v \in Votes \ U : ~(vote[y][v].reverted /\ vote[y][v].safe)
  BY DEF Beat
<1>12. /\ ~Down(y)
       /\ U \subseteq Beat(y)
       /\ \/ Cardinality(U) >= Quorum
          \/ /\ 2 * Cardinality(U) = n
             /\ p.revert = RevertToReject
             /\ \A v \in Votes : w[v].answered
             /\ U = Beat(y) => TieLost(x, SC(x, Votes \ U), SC(x, U))
  BY <1>4, <1>8, <1>9, <1>10, <1>11
<1>13. QED
  BY <1>12 DEF U, y

\* A side that goes down does so for a majority, or for a half that wins the tie.
LEMMA FallsDownOK ==
    ASSUME IInv, UInv, Survival, NEW x \in Sides, ~Down(x),
           NEW w, Heard(x, w), Falls(x, w, op[x], op'[x]),
           \A v \in Votes : w[v].answered => vote'[x][v].answered,
           Beat(Other(x)) \subseteq Beat(Other(x))', UNCHANGED <<lease, arbiter>>
    PROVE  DownOK(x)'
<1>u. PICK U : U = Rejected(w)
  OBVIOUS
<1>c. PICK C : C = Beat(Other(x))'
  OBVIOUS
<1> DEFINE n == Cardinality(Votes)
           p == op'[x]
           B == Beat(Other(x))
<1>1. /\ U \subseteq B
      /\ \/ Cardinality(U) >= Quorum
         \/ /\ 2 * Cardinality(U) = n
            /\ p.revert = RevertToReject
            /\ \A v \in Votes : w[v].answered
            /\ U = B => TieLost(x, SC(x, Votes \ U), SC(x, U))
  <2>1. Falls(x, w, op[x], p)
    OBVIOUS
  <2> HIDE DEF p
  <2>2. QED
    BY <1>u, <2>1, FallsAlone
<1>2. U \subseteq C /\ C \subseteq Votes /\ (U = C => U = B)
  BY <1>1, <1>c DEF Beat
<1>3. /\ Cardinality(U) \in Nat /\ Cardinality(C) \in Nat /\ Cardinality(U) <= Cardinality(C)
      /\ Cardinality(U) = Cardinality(C) => U = C
  BY <1>2, SubsetCounts
<1>4. n \in Nat /\ Quorum \in Nat /\ 2 * Quorum > n /\ Quorum' = Quorum /\ n' = n
  BY QuorumOK DEF Quorum
<1> SUFFICES Cardinality(C) >= Quorum \/ (2 * Cardinality(C) = n /\ Yields(x, C)')
  BY <1>4, <1>c DEF DownOK
<1>5. CASE Cardinality(U) >= Quorum
  BY <1>3, <1>4, <1>5
<1>6. CASE U # C /\ 2 * Cardinality(U) = n
  <2>1. 2 * Cardinality(C) > n
    BY <1>3, <1>4, <1>6
  <2>2. QED
    BY <1>3, <2>1, HalfCounts
<1>7. CASE U = C /\ ~(Cardinality(U) >= Quorum)
  <2>1. /\ 2 * Cardinality(U) = n
        /\ op'[x].revert = RevertToReject
        /\ \A v \in Votes : w[v].answered
        /\ TieLost(x, SC(x, Votes \ U), SC(x, U))
    BY <1>1, <1>2, <1>7
  <2>2. \A v \in Votes : vote'[x][v].answered
    BY <2>1
  <2>3. SC(x, Votes \ U)' = SC(x, Votes \ U) /\ SC(x, U)' = SC(x, U) /\ Type' = Type
    BY DEF SC, Strongs, Type
  <2>4. Yields(x, U)'
    BY <2>1, <2>2, <2>3 DEF Yields, TieLost
  <2>5. Yields(x, C)'
    BY <1>7, <2>4
  <2>6. QED
    BY <1>7, <2>1, <2>5
<1>8. QED
  BY <1>1, <1>5, <1>6, <1>7

\* The invariant after a step of a side.
LEMMA FairSideSurvival ==
    ASSUME IInv, UInv, Survival, NEW x \in Sides, SideTurn(x), FairSide(x)
    PROVE  Survival'
<1> DEFINE y == Other(x)
<1>1. y \in Sides /\ y # x /\ Other(y) = x /\ y = Other(x) /\ Sides = {x, y}
  BY OtherOK
<1>2. op'[y] = op[y] /\ vote'[y] = vote[y]
  BY SideFrame
<1> HIDE DEF y
<1>3. replies' \subseteq replies /\ UNCHANGED <<lease, arbiter>> /\ Type' = Type
  BY DEF SideTurn, Type
<1>4. \A v \in Votes :
         /\ vote[x][v].reverted => vote'[x][v].reverted /\ vote'[x][v].safe = vote[x][v].safe
         /\ vote[x][v].answered => vote'[x][v].answered
         /\ ~vote'[x][v].safe /\ ~vote'[x][v].reverted => Told(x, v)
         /\ StrongVote(arbiter[v], x, vote'[x][v],
                       NeutralBack(v) \/ (vote'[x][v].reverted /\ vote'[x][v].safe))
  BY DEF FairSide
<1>5. ASSUME NEW v \in Votes
      PROVE  /\ Told(x, v)' => Told(x, v)
             /\ Told(y, v)' => Told(y, v)
             /\ \A z \in Sides : Decided(z, v)' <=> Decided(z, v)
             /\ \A z \in Sides : vote[z][v].reverted => vote'[z][v].reverted
             /\ NeutralBack(v) => NeutralBack(v)'
  <2>1. Told(x, v)' => Told(x, v)
    BY <1>3, <1>4 DEF Told
  <2>2. Told(y, v)' => Told(y, v)
    BY <1>2, <1>3 DEF Told
  <2>3. \A z \in Sides : Decided(z, v)' <=> Decided(z, v)
    BY <1>3 DEF Decided
  <2>4. \A z \in Sides : vote[z][v].reverted => vote'[z][v].reverted /\ vote'[z][v].safe = vote[z][v].safe
    BY <1>1, <1>2, <1>4
  <2>5. NeutralBack(v) => NeutralBack(v)'
    BY <2>4 DEF NeutralBack
  <2>6. QED
    BY <2>1, <2>2, <2>3, <2>4, <2>5
<1>6. ASSUME NEW z \in Sides
      PROVE  ToldOK(z)' /\ Beat(z) \subseteq Beat(z)'
  <2>1. \A v \in Votes : /\ Told(z, v)' => Told(z, v)
                         /\ Decided(z, v)' <=> Decided(z, v)
                         /\ Decided(Other(z), v)' <=> Decided(Other(z), v)
                         /\ vote[z][v].reverted => vote'[z][v].reverted
                         /\ vote[Other(z)][v].reverted => vote'[Other(z)][v].reverted
    BY <1>1, <1>5
  <2>2. ToldOK(z)
    BY DEF Survival
  <2>3. ToldOK(z)'
    BY <2>1, <2>2 DEF ToldOK
  <2>4. Beat(z) \subseteq Beat(z)'
    BY <2>1 DEF Beat
  <2>5. QED
    BY <2>3, <2>4
<1>7. Fresh(x)' /\ Fresh(y)'
  <2>1. Fresh(y)
    BY <1>1 DEF Survival
  <2>2. Fresh(y)'
    BY <1>2, <1>3, <2>1 DEF Fresh, VoteFresh
  <2>3. QED
    BY <2>2 DEF FairSide
<1>8. Strong'
  <2>1. \A v \in Votes : StrongArbiter(arbiter[v], NeutralBack(v))'
    BY <1>3, <1>5 DEF Survival, Strong, StrongArbiter
  <2>2. ASSUME NEW v \in Votes
        PROVE  StrongVote(arbiter[v], x, vote[x][v], NeutralBack(v))'
    <3>1. vote'[x][v].reverted /\ vote'[x][v].safe => NeutralBack(v)'
      BY DEF NeutralBack
    <3>2. QED
      BY <1>3, <1>4, <1>5, <3>1 DEF StrongVote
  <2>3. ASSUME NEW v \in Votes
        PROVE  StrongVote(arbiter[v], y, vote[y][v], NeutralBack(v))'
    <3>1. StrongVote(arbiter[v], y, vote[y][v], NeutralBack(v))
      BY <1>1 DEF Survival, Strong
    <3>2. QED
      BY <1>2, <1>3, <1>5, <3>1 DEF StrongVote
  <2>4. ASSUME NEW m \in replies'
        PROVE  StrongReply(arbiter[m.from], m, NeutralBack(m.from))'
    <3>1. m \in replies /\ m.from \in Votes
      BY <1>3 DEF IInv, Types, Reply
    <3>2. StrongReply(arbiter[m.from], m, NeutralBack(m.from))
      BY <3>1 DEF Survival, Strong
    <3>3. QED
      BY <1>3, <1>5, <3>1, <3>2 DEF StrongReply
  <2>5. \A v \in Votes, z \in Sides : StrongVote(arbiter[v], z, vote[z][v], NeutralBack(v))'
    BY <1>1, <2>2, <2>3
  <2>6. QED
    BY <2>1, <2>4, <2>5 DEF Strong
<1>9. ASSUME NEW z \in Sides, Down(z)
      PROVE  Down(z)' /\ DownOK(z)'
  <2>1. /\ Down(z)'
        /\ op[z].revert = RevertToReject => op'[z].revert = RevertToReject
        /\ \A v \in Votes : vote[z][v].answered => vote'[z][v].answered
    <3>1. CASE z = x
      BY <1>4, <1>9, <3>1 DEF FairSide
    <3>2. CASE z = y
      BY <1>2, <1>9, <3>2 DEF Down
    <3>3. QED
      BY <1>1, <3>1, <3>2
  <2>2. DownOK(z) /\ Other(z) \in Sides
    BY OtherOK DEF Survival
  <2>3. QED
    BY <1>3, <1>6, <1>9, <2>1, <2>2, DownKept
<1>10. Down(y)' <=> Down(y)
  BY <1>2 DEF Down
<1>11. DownOK(y)'
  BY <1>1, <1>9, <1>10 DEF DownOK
<1>12. ASSUME ~Down(x), Down(x)'
       PROVE  DownOK(x)' /\ ~Down(y)
  <2>1. PICK w : /\ Heard(x, w) /\ Falls(x, w, op[x], op'[x])
                 /\ \A v \in Votes : w[v].answered => vote'[x][v].answered
    BY <1>12 DEF FairSide
  <2> DEFINE p == op'[x]
  <2>2. ~Down(y)
    <3>1. Falls(x, w, op[x], p)
      BY <2>1
    <3> HIDE DEF p
    <3>2. QED
      BY <1>1, <1>12, <2>1, <3>1, FallsAlone
  <2>3. Beat(Other(x)) \subseteq Beat(Other(x))'
    BY <1>1, <1>6
  <2>4. DownOK(x)'
    BY <1>3, <1>12, <2>1, <2>3, FallsDownOK
  <2>5. QED
    BY <2>2, <2>4
<1>13. DownOK(x)'
  BY <1>9, <1>12 DEF DownOK
<1>14. ~(Down(x)' /\ Down(y)')
  BY <1>1, <1>10, <1>12 DEF Survival
<1>15. \A z \in Sides : /\ ToldOK(z)' /\ Fresh(z)' /\ DownOK(z)'
                        /\ ~(Down(z)' /\ Down(Other(z))')
  BY <1>1, <1>6, <1>7, <1>11, <1>13, <1>14
<1>16. QED
  BY <1>8, <1>15 DEF Survival

-----------------------------------------------------------------------------
(***************************************************************************)
(* The theorem.                                                            *)
(***************************************************************************)

\* At the start.
LEMMA InitSurvival ==
    ASSUME Init
    PROVE  SInv
<1>1. /\ failures = 0 /\ replies = {} /\ lease \in Leases
      /\ \A v \in Votes, x \in Sides : /\ arbiter[v].decision[x] = None /\ ~arbiter[v].strong[x]
                                       /\ ~arbiter[v].restarted
      /\ \A x \in Sides : /\ op[x].revert = Type /\ ~op[x].started /\ ~op[x].completed
      /\ \A x \in Sides, v \in Votes :
            /\ ~vote[x][v].answered /\ vote[x][v].safe /\ ~vote[x][v].reverted /\ vote[x][v].count = 0
  BY DEF Init, FreshArbiter
<1>2. Type # RevertToReject
  BY <1>1, LeaseOK
<1>3. \A x \in Sides : ~Down(x) /\ Fresh(x) /\ \A v \in Votes : ~Told(x, v)
  BY <1>1, <1>2 DEF Down, Fresh, VoteFresh, Told
<1>4. Strong
  <2>1. ASSUME NEW v \in Votes
        PROVE  StrongArbiter(arbiter[v], NeutralBack(v))
    <3>1. \A x \in Sides : arbiter[v].decision[x] = None /\ ~arbiter[v].strong[x]
      BY <1>1
    <3>2. ~arbiter[v].restarted
      BY <1>1, SidesAssumption
    <3>3. QED
      BY <3>1, <3>2, OtherOK DEF StrongArbiter, IsPresent, None, Reject, Delay
  <2>2. ASSUME NEW v \in Votes, NEW x \in Sides
        PROVE  StrongVote(arbiter[v], x, vote[x][v], NeutralBack(v))
    BY <1>1 DEF StrongVote
  <2>3. QED
    BY <1>1, <2>1, <2>2 DEF Strong
<1>5. QED
  BY <1>1, <1>3, <1>4 DEF SInv, Survival, ToldOK, DownOK

\* There are only more failures.
LEMMA FailuresGrow ==
    ASSUME failures \in Nat, [Next]_vars
    PROVE  /\ failures' \in Nat /\ failures' >= failures
           /\ RestartArbiter => failures' > 0
<1>1. ASSUME NEW k \in Nat, Failing(k)
      PROVE  failures' \in Nat /\ failures' >= failures /\ failures' >= k
  BY <1>1 DEF Failing
<1>2. \A b : One(b) \in Nat
  BY DEF One
<1>3. ASSUME NEW b, NEW c
      PROVE  One(b) + One(c) \in Nat
  BY <1>2
<1>4. CASE RestartArbiter
  <2>1. Failing(1)
    BY <1>4, Zenon DEF RestartArbiter
  <2>2. failures' = failures + 1
    BY <2>1 DEF Failing
  <2>3. QED
    BY <2>2
<1>5. ASSUME Decide \/ HandleRevert \/ GrantDelayed
      PROVE  failures' = failures
  <2>1. CASE Decide
    BY <2>1, Zenon DEF Decide
  <2>2. CASE HandleRevert
    BY <2>2, Zenon DEF HandleRevert
  <2>3. CASE GrantDelayed
    BY <2>3, Zenon DEF GrantDelayed
  <2>4. QED
    BY <1>5, <2>1, <2>2, <2>3
<1>6. ASSUME NEW x \in Sides, SideStep(x)
      PROVE  failures' \in Nat /\ failures' >= failures
  <2>1. CASE Start(x) \/ ProcessReply(x)
    <3>1. CASE Start(x)
      <4>1. failures' = failures
        BY <3>1, Zenon DEF Start
      <4>2. QED
        BY <4>1
    <3>2. CASE ProcessReply(x)
      <4>1. failures' = failures
        BY <3>2, Zenon DEF ProcessReply
      <4>2. QED
        BY <4>1
    <3>3. QED
      BY <2>1, <3>1, <3>2
  <2>2. CASE ProcessError(x)
    <3>1. PICK c \in calls, ends \in BOOLEAN : Failing(One(c.type # RevertToReject) + One(ends))
      BY <2>2 DEF ProcessError
    <3> DEFINE k == One(c.type # RevertToReject) + One(ends)
    <3>2. k \in Nat /\ Failing(k)
      BY <1>3, <3>1
    <3> HIDE DEF k
    <3>3. QED
      BY <1>1, <3>2
  <2>3. CASE ProcessDelayedReply(x)
    <3>1. PICK ends \in BOOLEAN : Failing(One(ends))
      BY <2>3 DEF ProcessDelayedReply
    <3> DEFINE k == One(ends)
    <3>2. k \in Nat /\ Failing(k)
      BY <1>2, <3>1
    <3> HIDE DEF k
    <3>3. QED
      BY <1>1, <3>2
  <2>4. CASE OnTimer(x)
    <3>1. PICK late, ends \in BOOLEAN : Failing(One(late) + One(ends))
      BY <2>4 DEF OnTimer
    <3> DEFINE k == One(late) + One(ends)
    <3>2. k \in Nat /\ Failing(k)
      BY <1>3, <3>1
    <3> HIDE DEF k
    <3>3. QED
      BY <1>1, <3>2
  <2>5. QED
    BY <1>6, <2>1, <2>2, <2>3, <2>4 DEF SideStep
<1>7. ASSUME UNCHANGED vars
      PROVE  failures' = failures
  BY <1>7 DEF vars
<1>8. CASE ~RestartArbiter
  BY <1>5, <1>6, <1>7, <1>8 DEF Next, ArbiterStep
<1>9. QED
  BY <1>4, <1>8

\* After every step.
LEMMA NextSurvival ==
    ASSUME MaxRequestPerVoter > 1, IInv, UInv, SInv, [Next]_vars
    PROVE  SInv'
<1>1. failures' \in Nat /\ failures' >= failures /\ failures \in Nat /\ (RestartArbiter => failures' > 0)
  BY FailuresGrow DEF SInv
<1>2. SUFFICES ASSUME failures' = 0
               PROVE  Survival'
  BY <1>1 DEF SInv
<1>3. failures = 0 /\ Survival
  BY <1>1, <1>2 DEF SInv
<1>4. CASE ArbiterStep
  <2>1. ArbiterTurn
    BY <1>4, ArbiterStepOK
  <2>2. FairTurns
    BY <1>1, <1>2, <1>3, <1>4, DecideFair, HandleRevertFair, GrantDelayedFair DEF ArbiterStep
  <2>3. QED
    BY <1>3, <2>1, <2>2, FairTurnsSurvival
<1>5. ASSUME NEW x \in Sides, SideStep(x)
      PROVE  Survival'
  <2>1. SideTurn(x) /\ FairSide(x)
    BY <1>2, <1>3, <1>5, SideStepOK, SideStepFair
  <2>2. QED
    BY <1>3, <2>1, FairSideSurvival
<1>6. CASE UNCHANGED vars
  <2>1. UNCHANGED <<lease, arbiter, vote, op, requests, calls, replies, failures>>
    BY <1>6 DEF vars
  <2>2. PICK x \in Sides : TRUE
    BY SidesAssumption
  <2>3. SideTurn(x) /\ FairSide(x)
    BY <1>3, <2>1, IdleOK, IdleFair
  <2>4. QED
    BY <1>3, <2>3, FairSideSurvival
<1>7. QED
  BY <1>4, <1>5, <1>6 DEF Next

\* When no call fails, no arbiter restarts and nobody runs out of time, the arbitration
\* does not end with both sides told to go down (CheckState's majorities of rejections,
\* IsLocalPreferred, RevertToReject), for any number of arbiters, whatever they remember
\* of the lease.  Each arbiter may be asked twice at least (MaxRequestPerVoter, 3 in
\* the code): with one request a vote without an answer already counts as a rejection.
THEOREM SomebodySurvivesAlways ==
    MaxRequestPerVoter > 1 => (Spec => []SomebodySurvives)
<1> SUFFICES ASSUME MaxRequestPerVoter > 1
             PROVE  Spec => []SomebodySurvives
  OBVIOUS
<1>1. ASSUME SInv
      PROVE  SomebodySurvives
  <2>1. SUFFICES ASSUME failures = 0
                 PROVE  \E x \in Sides : ~(op[x].completed /\ ~op[x].local)
    BY DEF SomebodySurvives
  <2>2. PICK x \in Sides : TRUE
    BY SidesAssumption
  <2>3. Other(x) \in Sides /\ ~(Down(x) /\ Down(Other(x)))
    BY <1>1, <2>1, OtherOK DEF SInv, Survival
  <2>4. QED
    BY <2>3 DEF Down
<1>2. SInv => SomebodySurvives
  BY <1>1
<1>3. QED
  BY <1>2, InitInv, NextInv, InitEven, NextEven, InitSurvival, NextSurvival, PTL DEF Spec

=============================================================================
