---------------------------- MODULE VoterStore ----------------------------
(***************************************************************************)
(* The replicated store that the voters (seed nodes) of a federation keep  *)
(* among themselves.  One of them is its primary: the first one bootstraps *)
(* the store once every voter it can reach has agreed, the others join its *)
(* replica set and are synchronised, and when a primary goes down the      *)
(* first replica left promotes itself after it asked all the others how    *)
(* far they are.                                                           *)
(*                                                                         *)
(* A store is volatile: a voter that goes down comes back as a new         *)
(* instance that knows nothing.  Instances are pairs <<id, instance>>; the *)
(* instance number 0 stands for "whoever has this id".  Handlers run under *)
(* the lock of the store, so each is one step, and each ends in            *)
(* RunStateMachine.  A message is sent again while its reason lasts, at    *)
(* times that only the clock decides, and may be lost, delayed and         *)
(* reordered: a step sends any of the messages it has reason to send.      *)
(* The routing layer's verdict that an instance is down is taken to be     *)
(* right: it comes from leases and arbitration, which Arbitration covers.  *)
(***************************************************************************)
EXTENDS Integers, Sequences, FiniteSets, SequencesExt

CONSTANTS
    Voters,        \* ids of the seed nodes, numbers: their order counts
    Writes,        \* the writes of clients in the order they are made: a key, the
                   \* sequence of the value the client saw (-1 for any), a value
    Ticks,         \* readings of Stopwatch::Now; no two generate the same
    EpochStep,     \* 0x100000000 of CheckPrimaryPromotion
    MaxInstance,   \* bound: instances of one voter
    MaxFailures,   \* bound: failures of voters
    TimeKeepers,   \* bound: the voters that the global time reaches
    MaxInFlight    \* bound: messages on their way

ASSUME VotersAssumption ==
    Voters \subseteq Nat \ {0} /\ IsFiniteSet(Voters) /\ Cardinality(Voters) > 1
ASSUME WritesAssumption ==
    /\ Writes \in Seq(ToSet(Writes))
    /\ \A r \in ToSet(Writes) : r.value \in Nat \ {0} /\ r.check \in Int
ASSUME TicksAssumption == Ticks \subseteq Nat \ {0}
ASSUME StepAssumption == EpochStep \in Nat \ {0}
ASSUME BoundsAssumption == MaxInstance \in Nat

VARIABLES
    instance,      \* instance number of each voter, 0 before its first start
    up,            \* the voters that run
    store,         \* the VoterStore of each voter that runs
    msgs,          \* messages on their way
    ticks,         \* readings of the clock that were used
    acked,         \* history: writes reported as done, and who held them then
    solo,          \* history: a voter was the only one left that it knew to be in the
                   \* replica set, and bootstrapped without asking
    failures,      \* failures of voters so far
    writes         \* requests made so far

vars == <<instance, up, store, msgs, ticks, acked, solo, failures, writes>>

-----------------------------------------------------------------------------
(* Instances                                                               *)

Id(x) == x[1]

Inst(x) == x[2]

Self(n) == <<n, instance[n]>>

\* The routing layer delivers to an instance, or to whoever has the id when the number is 0.
Alive(x) == Id(x) \in up /\ Inst(x) \in {0, instance[Id(x)]}

Keys == {r.key : r \in ToSet(Writes)}

\* A finite set of numbers as a sequence, the lowest first: the vector of voters is
\* sorted by id.
Sorted(S) == [j \in 1..Cardinality(S) |-> CHOOSE x \in S : Cardinality({y \in S : y <= x}) = j]

\* The elements of seq that are in S, in their order.
Selected(seq, S) ==
    LET order == Sorted({i \in DOMAIN seq : seq[i] \in S})
    IN  [j \in DOMAIN order |-> seq[order[j]]]

\* The entries, a map, are independent of each other.
KeyOrder == SetToSeq(Keys)

Phases == {"Introduce", "Bootstrap", "BecomeSecondary", "Secondary", "BecomePrimary", "Primary"}

-----------------------------------------------------------------------------
(* The state of one store                                                  *)

NoVoter == [inst |-> -1, down |-> FALSE, acked |-> FALSE, intro |-> FALSE]

VoterInfo(i) == [inst |-> i, down |-> FALSE, acked |-> FALSE, intro |-> FALSE]

Replica(x) == [node |-> x, down |-> FALSE, seq |-> -1]

\* cur and pend are 0 while Current and Pending are null.
StoreEntry == [seq |-> 0, cur |-> 0, pseq |-> 0, pend |-> 0, queue |-> <<>>]

\* The constructor, InitializeVoters and Start for a seed node.
NewStore(n, i) ==
    [phase |-> "Introduce", leader |-> <<n, i>>, leaderInst |-> 0,
     gen |-> 0, epoch |-> 0, replicas |-> <<>>,
     highest |-> 0, confSeq |-> 0, bootWait |-> FALSE, globalTime |-> FALSE,
     voters |-> [v \in Voters |-> IF v = n THEN NoVoter ELSE VoterInfo(0)],
     entries |-> [k \in Keys |-> StoreEntry],
     done |-> {}, asserts |-> {}, alone |-> FALSE]

IsVoter(s, v) == s.voters[v] # NoVoter

VoterCount(s) == Cardinality({v \in Voters : IsVoter(s, v)})

\* GetVoterInfo(instance) found a voter.
KnowsVoter(s, x) == s.voters[Id(x)].inst = Inst(x)

\* A voter with a newer instance makes an older one down; one that is no voter is not.
IsVoterDown(s, x) ==
    LET v == s.voters[Id(x)]
    IN  IsVoter(s, Id(x)) /\ (v.inst > Inst(x) \/ (v.inst = Inst(x) /\ v.down))

Ups(replicas) == Selected(replicas, {r \in ToSet(replicas) : ~r.down})

UpReplicas(s) == Ups(s.replicas)

UpReplicaCount(s) == Len(UpReplicas(s))

IsActive(s) == UpReplicas(s) # <<>>

HasSecondary(s) == \E i \in 2..Len(s.replicas) : ~s.replicas[i].down

IsActiveReplica(s) == s.phase \in {"Primary", "BecomePrimary", "Secondary"}

\* The index of an instance in the replica set, 0 for none.
ReplicaIndex(s, x) == SelectInSeq(s.replicas, LAMBDA r : r.node = x)

Configuration(s) ==
    [gen |-> s.gen, epoch |-> s.epoch,
     replicas |-> [i \in DOMAIN s.replicas |-> s.replicas[i].node]]

DownReplicas(s) == {r.node : r \in {q \in ToSet(s.replicas) : q.down}}

\* Mutant: a write counts as done once the primary has it.
GetCommitedSequenceAlone(s) == s.highest

\* What a write can be sure of: the lowest sequence among the secondaries that are up.
GetCommitedSequence(s) ==
    LET seqs == {s.replicas[i].seq : i \in {j \in 2..Len(s.replicas) : ~s.replicas[j].down}}
    IN  Min(seqs \cup {s.highest})

-----------------------------------------------------------------------------
(* What a store learns about the other voters                              *)

\* A replica or a voter is down, if it was or if b.
MarkDown(r, b) == [r EXCEPT !.down = @ \/ b]

\* Each of the instances X is down.
UpdateDownVoters(n, s, X) ==
    LET Hits(x) == \E d \in X : Id(d) = Id(x) /\ Inst(x) <= Inst(d)
    IN  [s EXCEPT
          !.replicas = [i \in DOMAIN @ |-> MarkDown(@[i], Hits(@[i].node))],
          !.voters = [v \in Voters |-> MarkDown(@[v], IsVoter(s, v) /\ Hits(<<v, @[v].inst>>))],
          !.leader = IF Hits(@) THEN Self(n) ELSE @]

\* The instances X, of different voters, exist.  addNew also records one that is no
\* voter yet: an earlier instance of this very node, for all others are voters.
UpdateVoterInstances(n, s, X, addNew) ==
    LET Newer(x) == \E y \in X : Id(y) = Id(x) /\ Inst(y) > Inst(x)
        Named(v) == CHOOSE y \in X : Id(y) = v
        Of(v) == IF ~ \E y \in X : Id(y) = v THEN s.voters[v]
                 ELSE IF IsVoter(s, v)
                 THEN IF Newer(<<v, s.voters[v].inst>>) THEN VoterInfo(Inst(Named(v))) ELSE s.voters[v]
                 ELSE IF addNew /\ Named(v) # Self(n) THEN VoterInfo(Inst(Named(v))) ELSE NoVoter
    IN  [s EXCEPT
          !.voters = [v \in Voters |-> Of(v)],
          !.leader = IF Newer(@) THEN Self(n) ELSE @,
          !.replicas = [i \in DOMAIN @ |-> MarkDown(@[i], Newer(@[i].node))]]

\* A configuration c of the replica set came in: a later epoch of the same generation
\* wins; between generations one with a replica that is up, then the higher one.
AdoptConfiguration(s, c) ==
    LET foundUp == \E x \in ToSet(c.replicas) : ~IsVoterDown(s, x)
        ignored == /\ c.gen # s.gen
                   /\ IF IsActive(s) = foundUp THEN c.gen < s.gen ELSE ~foundUp
        older == c.gen = s.gen /\ c.epoch <= s.epoch
        new == IF older THEN s.replicas ELSE [i \in DOMAIN c.replicas |-> Replica(c.replicas[i])]
    IN  IF ignored THEN s
        ELSE [s EXCEPT
               !.gen = c.gen,
               !.epoch = IF older THEN @ ELSE c.epoch,
               !.replicas = [i \in DOMAIN new |-> MarkDown(new[i], IsVoterDown(s, new[i].node))]]

UpdateReplicaSet(n, s, c) ==
    AdoptConfiguration(UpdateVoterInstances(n, s, ToSet(c.replicas), TRUE), c)

ResetVoterInfo(s) ==
    [s EXCEPT !.voters = [v \in Voters |-> [@[v] EXCEPT !.acked = FALSE]]]

-----------------------------------------------------------------------------
(* Entries                                                                 *)

Exists(e) == e.cur # 0 \/ e.pend # 0

\* The error of Write, or "" when the value is written.
WriteError(s, k, check, v) ==
    LET e == s.entries[k]
    IN  CASE /\ s.phase = "Primary"
             /\ \A j \in Keys : ~Exists(s.entries[j])
             /\ UpReplicaCount(s) < (VoterCount(s) + 1) \div 2 + 1 -> "NoWriteQuorum"
          [] e.pend # 0 -> "UpdatePending"
          [] IF Exists(e) THEN check >= 0 /\ check # e.seq ELSE check > 0 -> "StoreWriteConflict"
          [] v <= e.cur -> "StaleRequest"
          [] OTHER -> ""

\* Write: the primary keeps a value pending while it has secondaries.
Write(s, k, seq, check, v) ==
    LET pends == s.phase = "Primary" /\ HasSecondary(s)
    IN  IF WriteError(s, k, check, v) # ""
        THEN [s EXCEPT !.asserts = IF s.phase # "Primary" THEN @ \cup {"WriteRejected"} ELSE @]
        ELSE [s EXCEPT
               !.entries[k] = IF pends THEN [@ EXCEPT !.pend = v, !.pseq = seq]
                              ELSE [@ EXCEPT !.cur = v, !.seq = seq],
               !.replicas[1].seq = seq]

\* Each of the entries E, of different keys, that came from another replica.
WriteAll(s, E) == FoldLeft(LAMBDA t, e : Write(t, e.key, e.seq, -1, e.value), s, SetToSeq(E))

\* History: the write is reported as done, while these replicas are up.
Done(s, k, v) ==
    [s EXCEPT !.done = @ \cup {[key |-> k, value |-> v,
                                holders |-> {r.node : r \in ToSet(UpReplicas(s))}]}]

\* A write request at a primary: written, queued, or answered at once.
ProcessWriteRequest(s, k, check, v) ==
    LET error == WriteError(s, k, check, v)
        t == [Write(s, k, s.highest + 1, check, v) EXCEPT !.highest = @ + 1]
    IN  CASE error = "" -> IF t.entries[k].pend # 0 THEN t ELSE Done(t, k, v)
          [] error = "UpdatePending" ->
               [s EXCEPT !.entries[k].queue = Append(@, [check |-> check, value |-> v])]
          [] OTHER -> s

\* The entries a replica at sequence seq lacks, pending ones included.
EntriesAfter(s, seq) ==
    LET At(e) == IF e.pend # 0 THEN e.pseq ELSE e.seq
    IN  {[key |-> k, seq |-> At(s.entries[k]),
          value |-> IF s.entries[k].pend # 0 THEN s.entries[k].pend ELSE s.entries[k].cur] :
           k \in {j \in Keys : Exists(s.entries[j]) /\ At(s.entries[j]) > seq}}

-----------------------------------------------------------------------------
(* The state machine.  Its inputs are a reading of the clock, whether the   *)
(* time to wait before a bootstrap is over, and the instances that the      *)
(* routing table has found down.                                            *)

\* Mutant: nobody looks whether the voter is in the set.
AddReplicaAgain(replicas, x) == Append(replicas, Replica(x))

\* Mutant: a new instance inherits the sequence of the old one.
AddReplicaInherit(replicas, x) ==
    LET same == SelectInSeq(replicas, LAMBDA r : Id(r.node) = Id(x))
    IN  IF same # 0 /\ Inst(replicas[same].node) >= Inst(x) THEN replicas
        ELSE IF same = 0 THEN Append(replicas, Replica(x))
        ELSE Append(RemoveAt(replicas, same), [replicas[same] EXCEPT !.node = x, !.down = FALSE])

\* Add: an instance that replaces an older one goes to the end.
AddReplica(replicas, x) ==
    LET same == SelectInSeq(replicas, LAMBDA r : Id(r.node) = Id(x))
    IN  IF same # 0 /\ Inst(replicas[same].node) >= Inst(x) THEN replicas
        ELSE Append(IF same = 0 THEN replicas ELSE RemoveAt(replicas, same), Replica(x))

\* What is committed is made current and reported, ...
Commit(s, k, committed) ==
    LET e == s.entries[k]
    IN  IF e.pend = 0 \/ e.pseq > committed THEN s
        ELSE Done([s EXCEPT !.entries[k] = [@ EXCEPT !.cur = e.pend, !.seq = e.pseq, !.pend = 0]],
                  k, e.pend)

\* ... and the writes that waited for it start, until one of them is pending.
ServeNext(s, k) ==
    LET queue == s.entries[k].queue
    IN  IF s.entries[k].pend = 0 /\ queue # <<>>
        THEN ProcessWriteRequest([s EXCEPT !.entries[k].queue = Tail(@)],
                                 k, Head(queue).check, Head(queue).value)
        ELSE s

Serve(s, k) == FoldLeft(LAMBDA t, w : ServeNext(t, k), s, s.entries[k].queue)

CommitEntries(s) ==
    LET committed == GetCommitedSequence(s)
    IN  FoldLeft(LAMBDA t, k : Serve(Commit(t, k, committed), k), s, KeyOrder)

\* A change of the replica set.
Joining(s) == Sorted({v \in Voters : IsVoter(s, v) /\ ~s.voters[v].down /\ s.voters[v].intro})

Joined(s) == FoldLeft(LAMBDA rs, v : AddReplica(rs, <<v, s.voters[v].inst>>), s.replicas, Joining(s))

\* Mutant: replicas are added under the same epoch.
ChangeReplicaSetSameEpoch(s) ==
    LET found == \E r \in ToSet(s.replicas) : ~r.down /\ r.seq <= 0
        confSeq == IF ~found THEN 0 ELSE IF s.confSeq = 0 THEN s.highest ELSE s.confSeq
    IN  IF confSeq # 0 \/ Joined(s) = s.replicas THEN [s EXCEPT !.confSeq = confSeq]
        ELSE [s EXCEPT
               !.highest = @ + 1, !.confSeq = s.highest + 1,
               !.replicas = Ups([Joined(s) EXCEPT ![1].seq = s.highest + 1])]

\* One change of the replica set at a time: confSeq is its sequence until every replica
\* is synchronised, and until then none is added.
ChangeReplicaSet(s) ==
    LET found == \E r \in ToSet(s.replicas) : ~r.down /\ r.seq <= 0
        confSeq == IF ~found THEN 0 ELSE IF s.confSeq = 0 THEN s.highest ELSE s.confSeq
    IN  IF confSeq # 0 \/ Joined(s) = s.replicas THEN [s EXCEPT !.confSeq = confSeq]
        ELSE [s EXCEPT
               !.highest = @ + 1, !.confSeq = s.highest + 1, !.epoch = @ + 1,
               !.replicas = Ups([Joined(s) EXCEPT ![1].seq = s.highest + 1])]

CheckStablePrimary(s) == ChangeReplicaSet(CommitEntries(s))

Bootstrap(n, s) ==
    CheckStablePrimary(
      [s EXCEPT !.phase = "Primary", !.replicas = <<Replica(Self(n))>>,
                !.gen = Max({s.leaderInst, s.gen + 1}), !.epoch = 1, !.highest = 0])

\* The replicas whose progress a node that promotes itself still has to ask for.
Unasked(n, s) == {r \in ToSet(s.replicas) : r.node # Self(n) /\ ~r.down /\ r.seq < 0}

\* Mutant: replicas that have not reported their progress are left out.
CheckPrimaryPromotionNoWait(n, s) ==
    LET index == ReplicaIndex(s, Self(n))
        ups == Selected(s.replicas, {r \in ToSet(s.replicas) : ~r.down /\ (r.node = Self(n) \/ r.seq >= 0)})
    IN  CheckStablePrimary(
          [s EXCEPT !.phase = "Primary", !.highest = @ + 1,
                    !.epoch = @ + (IF index = 0 THEN 0 ELSE index - 1) * EpochStep + 1,
                    !.replicas = [ups EXCEPT ![1].seq = s.highest + 1]])

\* The epoch grows by the index of the new primary, past any its predecessors gave out.
CheckPrimaryPromotion(n, s) ==
    LET index == ReplicaIndex(s, Self(n))
        ups == UpReplicas(s)
    IN  IF Unasked(n, s) # {} THEN s
        ELSE CheckStablePrimary(
               [s EXCEPT !.phase = "Primary", !.highest = @ + 1,
                         !.epoch = @ + (IF index = 0 THEN 0 ELSE index - 1) * EpochStep + 1,
                         !.replicas = [ups EXCEPT ![1].seq = s.highest + 1]])

\* The replicas ahead of this one, all of them when it is none.
Ahead(n, s) ==
    LET index == ReplicaIndex(s, Self(n))
    IN  ToSet(IF index = 0 THEN s.replicas ELSE SubSeq(s.replicas, 1, index - 1))

CheckReadySecondary(n, s, in) ==
    LET t == UpdateDownVoters(n, s, {r.node : r \in {q \in Ahead(n, s) : ~q.down}} \cap in.tableDown)
    IN  IF \E r \in Ahead(n, t) : ~r.down THEN t
        ELSE CheckPrimaryPromotion(n, [t EXCEPT !.phase = "BecomePrimary", !.leaderInst = in.tick])

CheckBootstrap(n, s) ==
    IF \E v \in Voters : IsVoter(s, v) /\ ~s.voters[v].down /\ ~s.voters[v].acked THEN s
    ELSE Bootstrap(n, s)

\* Who a voter without a replica set turns to: the leader it has accepted, or the lowest
\* voter below itself.  0 when it is the lowest.
Candidate(n, s) ==
    LET ups == {v \in Voters : IsVoter(s, v) /\ ~s.voters[v].down}
        lower == {v \in ups : v < n}
    IN  IF Id(s.leader) \in ups /\ KnowsVoter(s, s.leader) THEN Id(s.leader)
        ELSE IF lower = {} THEN 0 ELSE Min(lower)

CheckSecondaryPromotion(n, s, in) ==
    LET ups == UpReplicas(s)
        mayBootstrap == ~s.globalTime /\ s.bootWait /\ in.waited
        t == [s EXCEPT !.bootWait = TRUE]
    IN  CASE ups # <<>> /\ ups[1].node # Self(n) -> s
          [] ups # <<>> /\ ups[1].node = Self(n) ->
               IF mayBootstrap THEN Bootstrap(n, [t EXCEPT !.leaderInst = in.tick, !.alone = TRUE]) ELSE t
          [] OTHER ->
               IF Candidate(n, s) = 0 /\ mayBootstrap
               THEN CheckBootstrap(n, ResetVoterInfo([t EXCEPT !.phase = "Bootstrap", !.leaderInst = in.tick]))
               ELSE t

CheckIntroduce(n, s, in) ==
    LET introduced == {v \in Voters : s.voters[v].acked}
    IN  IF /\ \A v \in Voters : IsVoter(s, v) => s.voters[v].acked \/ s.voters[v].down
           /\ Cardinality(introduced) >= (VoterCount(s) + 1) \div 2 \/ s.globalTime
        THEN CheckSecondaryPromotion(n, [s EXCEPT !.phase = "BecomeSecondary"], in)
        ELSE s

RunStateMachine(n, s, in) ==
    CASE s.phase = "Primary" -> CheckStablePrimary(s)
      [] s.phase = "BecomePrimary" -> CheckPrimaryPromotion(n, s)
      [] s.phase = "Secondary" -> CheckReadySecondary(n, s, in)
      [] s.phase = "BecomeSecondary" -> CheckSecondaryPromotion(n, s, in)
      [] s.phase = "Bootstrap" -> CheckBootstrap(n, s)
      [] s.phase = "Introduce" -> CheckIntroduce(n, s, in)

-----------------------------------------------------------------------------
(* Messages a store has reason to send                                      *)

Message(n, s, type, to, body) ==
    [type |-> type, from |-> Self(n), to |-> to, down |-> DownReplicas(s), body |-> body]

VoterRequests(n, s, type, body) ==
    {Message(n, s, type, <<v, s.voters[v].inst>>, body) :
       v \in {w \in Voters : IsVoter(s, w) /\ ~s.voters[w].down /\ ~s.voters[w].acked}}

SyncRequest(n, s, r) ==
    Message(n, s, "SyncRequest", r.node,
            [config |-> Configuration(s), start |-> r.seq + 1, end |-> s.highest,
             entries |-> EntriesAfter(s, r.seq)])

\* The replicas behind are synchronised; once they know the newest configuration, the
\* first of the new ones is.
SyncRequests(n, s) ==
    LET behind == {r \in ToSet(s.replicas) : ~r.down /\ r.seq > 0 /\ r.seq < s.highest}
        new == Selected(s.replicas, {r \in ToSet(s.replicas) : ~r.down /\ r.seq <= 0})
        syncNew == s.confSeq > 0 /\ (\A r \in behind : r.seq >= s.confSeq) /\ new # <<>>
    IN  {SyncRequest(n, s, r) : r \in behind \cup (IF syncNew THEN {new[1]} ELSE {})}

Wanted(n, s) ==
    CASE s.phase = "Primary" -> SyncRequests(n, s)
      [] s.phase = "BecomePrimary" ->
           {Message(n, s, "ProgressRequest", r.node, [leaderInst |-> s.leaderInst, seq |-> s.highest]) :
              r \in Unasked(n, s)}
      [] s.phase = "BecomeSecondary" ->
           IF IsActive(s)
           THEN {Message(n, s, "Join", x, <<>>) : x \in {UpReplicas(s)[1].node} \ {Self(n)}}
           ELSE {Message(n, s, "ConfigQueryRequest", <<v, s.voters[v].inst>>, <<>>) :
                   v \in {Candidate(n, s)} \ {0}}
      [] s.phase = "Bootstrap" -> VoterRequests(n, s, "BootstrapRequest", [leaderInst |-> s.leaderInst])
      [] s.phase = "Introduce" -> VoterRequests(n, s, "IntroduceRequest", <<>>)
      [] OTHER -> {}

-----------------------------------------------------------------------------
(* Handlers of requests: the store after, the reply if any, and probes.     *)

NoReply(s) == [s |-> s, reply |-> <<>>, probes |-> {}]

Reply(s, type, body) == [s |-> s, reply |-> <<type, body>>, probes |-> {}]

\* The leader this voter has accepted is asked whether it still is one.
Probe(n, s) ==
    [s |-> s, reply |-> <<>>,
     probes |-> {Message(n, s, "LeaderProbeRequest", s.leader, [leaderInst |-> s.leaderInst])}]

ProcessMessageCommon(n, s, m) ==
    UpdateDownVoters(n, UpdateVoterInstances(n, s, {m.from}, FALSE), m.down)

ProcessConfigQueryRequest(s) == Reply(s, "ConfigQueryReply", Configuration(s))

ProcessIntroduceRequest(n, s, m) ==
    LET t == UpdateVoterInstances(n, s, {m.from}, TRUE)
    IN  Reply(t, "IntroduceReply",
              [leaderInst |-> IF t.phase = "Bootstrap" THEN t.leaderInst ELSE 0,
               config |-> Configuration(t),
               voters |-> {<<v, t.voters[v].inst>> : v \in {w \in Voters : IsVoter(t, w) /\ ~t.voters[w].down}}])

ProcessBootstrapRequest(n, s, m) ==
    LET open == /\ ~IsActiveReplica(s) /\ s.phase # "Bootstrap"
                /\ KnowsVoter(s, m.from) /\ ~s.voters[Id(m.from)].down
        accepted == open /\ s.leader \in {m.from, Self(n)}
        t == [s EXCEPT !.leader = m.from,
                       !.leaderInst = IF s.leader = m.from THEN Max({@, m.body.leaderInst})
                                      ELSE m.body.leaderInst]
    IN  Reply(IF accepted THEN t ELSE s, "BootstrapReply",
              [leaderInst |-> m.body.leaderInst, config |-> Configuration(s), accepted |-> accepted])

ProcessLeaderProbeRequest(s, m) ==
    Reply(s, "LeaderProbeReply",
          [leaderInst |-> m.body.leaderInst,
           isLeader |-> s.phase = "Bootstrap" /\ m.body.leaderInst = s.leaderInst])

ProcessProgressRequest(n, s, m) ==
    LET ups == UpReplicas(s)
        t == [s EXCEPT !.leader = m.from, !.leaderInst = m.body.leaderInst]
    IN  CASE s.phase = "BecomeSecondary" /\ s.leader # Self(n) -> Probe(n, s)
          [] \/ s.phase = "BecomeSecondary" /\ s.leader = Self(n)
             \/ s.phase = "Secondary" /\ ups # <<>> /\ ups[1].node = m.from ->
               Reply(t, "ProgressReply", [end |-> s.highest, entries |-> EntriesAfter(s, m.body.seq)])
          [] OTHER -> NoReply(s)

ProcessSyncRequest(n, s, m) ==
    LET t == UpdateReplicaSet(n, s, m.body.config)
        unknown == ReplicaIndex(t, Self(n)) = 0
        gap == m.body.start > t.highest + 1
        new == {e \in m.body.entries : e.seq > t.highest}
        w == IF t.highest >= m.body.end THEN t ELSE [WriteAll(t, new) EXCEPT !.highest = m.body.end]
        u == [w EXCEPT !.phase = "Secondary", !.leader = m.from, !.leaderInst = 0,
                       !.asserts = @ \cup (IF unknown THEN {"NotInConfiguration"} ELSE {})
                                     \cup (IF gap THEN {"SyncGap"} ELSE {})]
    IN  CASE s.phase = "BecomeSecondary" /\ s.leader \notin {Self(n), m.from} -> Probe(n, s)
          [] \/ s.phase = "Secondary" /\ s.leader = m.from
             \/ s.phase = "BecomeSecondary" /\ s.leader \in {Self(n), m.from}
             \/ s.phase = "Bootstrap" ->
               Reply(u, "SyncReply", [seq |-> u.highest])
          [] OTHER -> NoReply(s)

ProcessRequest(n, s, m) ==
    CASE m.type = "ConfigQueryRequest" -> ProcessConfigQueryRequest(s)
      [] m.type = "IntroduceRequest" -> ProcessIntroduceRequest(n, s, m)
      [] m.type = "BootstrapRequest" -> ProcessBootstrapRequest(n, s, m)
      [] m.type = "LeaderProbeRequest" -> ProcessLeaderProbeRequest(s, m)
      [] m.type = "ProgressRequest" -> ProcessProgressRequest(n, s, m)
      [] m.type = "SyncRequest" -> ProcessSyncRequest(n, s, m)

-----------------------------------------------------------------------------
(* Handlers of replies and of the one-way Join                              *)

ProcessIntroduceReply(n, s, m) ==
    LET x == m.from
        t == UpdateVoterInstances(n, [s EXCEPT !.voters[Id(x)].acked = TRUE],
                                  {y \in m.body.voters : Id(y) # n}, TRUE)
        u == UpdateReplicaSet(n, t, m.body.config)
        freed == IF u.leader = Self(n) THEN u ELSE [u EXCEPT !.voters[Id(u.leader)].acked = FALSE]
    IN  IF s.phase # "Introduce" \/ ~KnowsVoter(s, x) THEN s
        ELSE IF m.body.leaderInst = 0 \/ u.voters[Id(x)].down THEN u
        ELSE [freed EXCEPT !.leader = x, !.leaderInst = m.body.leaderInst]

ProcessBootstrapReply(n, s, m) ==
    LET t == UpdateReplicaSet(n, s, m.body.config)
    IN  IF s.phase # "Bootstrap" \/ m.body.leaderInst # s.leaderInst THEN s
        ELSE IF ~m.body.accepted THEN [ResetVoterInfo(t) EXCEPT !.phase = "BecomeSecondary"]
        ELSE IF KnowsVoter(t, m.from) THEN [t EXCEPT !.voters[Id(m.from)].acked = TRUE]
        ELSE t

ProcessLeaderProbeReply(n, s, m) ==
    IF /\ s.leader = m.from /\ m.body.leaderInst = s.leaderInst /\ ~m.body.isLeader
       /\ s.phase \in {"BecomeSecondary", "Introduce"}
    THEN [s EXCEPT !.leader = Self(n), !.leaderInst = 0]
    ELSE s

ProcessJoin(s, m) ==
    IF KnowsVoter(s, m.from) THEN [s EXCEPT !.voters[Id(m.from)].intro = TRUE] ELSE s

ProcessProgressReply(s, m) ==
    LET i == ReplicaIndex(s, m.from)
        t == [s EXCEPT !.replicas[i].seq = m.body.end]
    IN  IF s.phase # "BecomePrimary" \/ i = 0 THEN s
        ELSE IF s.replicas[i].seq >= m.body.end THEN s
        ELSE IF t.highest >= m.body.end THEN t
        ELSE [WriteAll(t, m.body.entries) EXCEPT !.highest = m.body.end]

ProcessSyncReply(s, m) ==
    LET i == ReplicaIndex(s, m.from)
    IN  IF i = 0 THEN s ELSE [s EXCEPT !.replicas[i].seq = Max({@, m.body.seq})]

ProcessMessage(n, s, m) ==
    CASE m.type = "ConfigQueryReply" -> UpdateReplicaSet(n, s, m.body)
      [] m.type = "IntroduceReply" -> ProcessIntroduceReply(n, s, m)
      [] m.type = "BootstrapReply" -> ProcessBootstrapReply(n, s, m)
      [] m.type = "LeaderProbeReply" -> ProcessLeaderProbeReply(n, s, m)
      [] m.type = "Join" -> ProcessJoin(s, m)
      [] m.type = "ProgressReply" -> ProcessProgressReply(s, m)
      [] m.type = "SyncReply" -> ProcessSyncReply(s, m)
      [] m.type = "Fault" -> UpdateDownVoters(n, s, {m.body})

-----------------------------------------------------------------------------
(* Steps                                                                    *)

Requests == {"ConfigQueryRequest", "IntroduceRequest", "BootstrapRequest",
             "LeaderProbeRequest", "ProgressRequest", "SyncRequest"}

Replies == {"ConfigQueryReply", "IntroduceReply", "BootstrapReply", "LeaderProbeReply",
            "ProgressReply", "SyncReply"}

\* What the clock and the routing table may say to a store.  The clock is read (tick # 0)
\* by a node that promotes itself or starts a bootstrap.
Input(tick, waited, tableDown) == [tick |-> tick, waited |-> waited, tableDown |-> tableDown]

Inputs(n, s) ==
    LET ahead == {r.node : r \in {q \in Ahead(n, s) : ~q.down}}
        found == SUBSET {x \in ahead : ~Alive(x)}
        free == Ticks \ ticks
    IN  CASE s.phase = "Secondary" ->
               {Input(0, FALSE, D) : D \in found \ {ahead}}
                 \cup {Input(c, FALSE, ahead) : c \in {k \in free : ahead \in found}}
          [] s.phase = "BecomeSecondary" /\ s.bootWait ->
               {Input(0, FALSE, {})} \cup {Input(c, TRUE, {}) : c \in free}
          [] OTHER -> {Input(0, FALSE, {})}

\* n goes on with store t, and sends its reply and some of what it has reason to send.
Continue(n, t, rest, replies, probes) ==
    /\ store' = [store EXCEPT ![n] = [t EXCEPT !.done = {}, !.alone = FALSE]]
    /\ acked' = acked \cup t.done
    /\ solo' = (solo \/ t.alone)
    /\ \E S \in SUBSET (Wanted(n, t) \cup probes) :
         /\ msgs' = rest \cup S \cup {Message(n, t, r.type, r.to, r.body) : r \in replies}
         /\ Cardinality(msgs') <= MaxInFlight

\* A step of n ends in RunStateMachine.
Run(n, s, rest, replies, probes) ==
    \E in \in Inputs(n, s) :
      /\ Continue(n, RunStateMachine(n, s, in), rest, replies, probes)
      /\ ticks' = ticks \cup (IF in.tick # 0 /\ store'[n].leaderInst = in.tick THEN {in.tick} ELSE {})

\* Start of a seed node, the first time or after it went down.  RunStateMachine, called
\* at its end, finds nobody introduced and only sends what Timer has reason to send too.
Start(n) ==
    /\ n \notin up /\ instance[n] < MaxInstance
    /\ instance' = [instance EXCEPT ![n] = @ + 1]
    /\ up' = up \cup {n}
    /\ store' = [store EXCEPT ![n] = NewStore(n, instance[n] + 1)]
    /\ UNCHANGED <<msgs, ticks, acked, solo, failures, writes>>

\* A node goes down, and what its store holds is gone.
Fail(n) ==
    /\ n \in up /\ failures < MaxFailures
    /\ up' = up \ {n}
    /\ store' = [store EXCEPT ![n] = NewStore(n, 0)]
    /\ failures' = failures + 1
    /\ UNCHANGED <<instance, msgs, ticks, acked, solo, writes>>

\* The timer of the store.
Timer(n) ==
    /\ n \in up
    /\ Run(n, store[n], msgs, {}, {})
    /\ UNCHANGED <<instance, up, failures, writes>>

ProcessRequestMessage(m) ==
    LET n == Id(m.to)
        h == ProcessRequest(n, ProcessMessageCommon(n, store[n], m), m)
        reply == IF h.reply = <<>> THEN {}
                 ELSE {[type |-> h.reply[1], to |-> m.from, body |-> h.reply[2]]}
    IN  /\ m.type \in Requests /\ Alive(m.to)
        /\ Run(n, h.s, msgs \ {m}, reply, h.probes)
        /\ UNCHANGED <<instance, up, failures, writes>>

ProcessReply(m) ==
    LET n == Id(m.to)
    IN  /\ m.type \in Replies \cup {"Join"} /\ Alive(m.to)
        /\ Run(n, ProcessMessage(n, ProcessMessageCommon(n, store[n], m), m), msgs \ {m}, {}, {})
        /\ UNCHANGED <<instance, up, failures, writes>>

\* Mutant: any error, a timeout too, is taken for a target that is not there.
RouteFaultAny(m) ==
    /\ m.type \in Requests \cup {"Join"} /\ Alive(m.from)
    /\ msgs' = (msgs \ {m}) \cup {[type |-> "Fault", from |-> m.to, to |-> m.from, down |-> {}, body |-> m.to]}
    /\ UNCHANGED <<instance, up, store, ticks, acked, solo, failures, writes>>

\* The routing layer gives up on a message whose target is not there...
RouteFault(m) ==
    /\ m.type \in Requests \cup {"Join"} /\ ~Alive(m.to) /\ Alive(m.from)
    /\ msgs' = (msgs \ {m}) \cup {[type |-> "Fault", from |-> m.to, to |-> m.from, down |-> {}, body |-> m.to]}
    /\ UNCHANGED <<instance, up, store, ticks, acked, solo, failures, writes>>

\* ... and the sender reports the target as down.
ReportDownVoter(m) ==
    LET n == Id(m.to)
    IN  /\ m.type = "Fault" /\ Alive(m.to)
        /\ Run(n, ProcessMessage(n, store[n], m), msgs \ {m}, {}, {})
        /\ UNCHANGED <<instance, up, failures, writes>>

\* The network loses a message; what the routing layer reports stays in the process.
Lose(m) ==
    /\ m.type = "Fault" => ~Alive(m.to)
    /\ msgs' = msgs \ {m}
    /\ UNCHANGED <<instance, up, store, ticks, acked, solo, failures, writes>>

\* A write request from anywhere reaches a primary; elsewhere it is turned away.
ClientWrite(n) ==
    LET r == Writes[writes + 1]
    IN  /\ n \in up /\ store[n].phase = "Primary"
        /\ writes < Len(Writes)
        /\ writes' = writes + 1
        /\ Run(n, ProcessWriteRequest(store[n], r.key, r.check, r.value), msgs, {}, {})
        /\ UNCHANGED <<instance, up, failures>>

\* The global time starts at a primary and spreads from node to node.
GlobalTime(n) ==
    /\ n \in up \cap TimeKeepers /\ ~store[n].globalTime
    /\ store[n].phase = "Primary" \/ \E m \in up : store[m].globalTime
    /\ store' = [store EXCEPT ![n].globalTime = TRUE]
    /\ UNCHANGED <<instance, up, msgs, ticks, acked, solo, failures, writes>>

Init ==
    /\ instance = [n \in Voters |-> 0]
    /\ up = {}
    /\ store = [n \in Voters |-> NewStore(n, 0)]
    /\ msgs = {} /\ ticks = {} /\ acked = {} /\ solo = FALSE /\ failures = 0 /\ writes = 0

Next ==
    \/ \E n \in Voters : Start(n) \/ Fail(n) \/ Timer(n) \/ GlobalTime(n) \/ ClientWrite(n)
    \/ \E m \in msgs : \/ ProcessRequestMessage(m) \/ ProcessReply(m)
                       \/ RouteFault(m) \/ ReportDownVoter(m) \/ Lose(m)

Spec == Init /\ [][Next]_vars

-----------------------------------------------------------------------------
(* Properties                                                               *)

Primaries == {n \in up : store[n].phase = "Primary"}

\* Types.  No store has heard of an instance that was never started, and a replica set
\* (Add, 1199) names a voter once, whatever instances of it came and went.
TypeOK ==
    /\ instance \in [Voters -> 0..MaxInstance] /\ up \subseteq Voters /\ ticks \subseteq Ticks
    /\ \A n \in up :
         LET s == store[n]
             ids == [i \in DOMAIN s.replicas |-> Id(s.replicas[i].node)]
         IN  /\ s.phase \in Phases /\ s.leaderInst \in {0} \cup Ticks
             /\ \A r \in ToSet(s.replicas) : Inst(r.node) <= instance[Id(r.node)] /\ r.seq >= -1
             /\ \A v \in Voters : s.voters[v].inst <= instance[v]
             /\ IsInjective(ids)

\* The store has one primary: neither the voters that bootstrap it (CheckBootstrap, a
\* lowest voter that comes late included) nor the secondaries that promote themselves
\* when the primary is down (CheckReadySecondary) end up with two.  Out of its scope is
\* the one path that asks nobody, the bootstrap of the first replica left (2713): TLC
\* shows that it can meet a bootstrap that this very replica has agreed to.
OnePrimary == solo \/ Cardinality(Primaries) <= 1

\* A generation and an epoch name one configuration: two stores that agree on both (and
\* so ignore what the other says in UpdateReplicaSet) agree on the replicas.
EpochNamesConfig ==
    \A n \in up, m \in up :
      /\ n < m /\ ~solo
      /\ store[n].gen = store[m].gen /\ store[n].gen # 0
      /\ store[n].epoch = store[m].epoch
      => Configuration(store[n]) = Configuration(store[m])

\* A write that was reported as done (CommitEntries) is not undone by a promotion: while
\* one of the replicas of that moment lives, every primary has it or a later value.
AckedKept ==
    \A w \in acked, p \in Primaries :
      ~solo /\ (\E x \in w.holders : Alive(x)) => store[p].entries[w.key].cur >= w.value

\* The primary does not forget a replica that may promote itself: each secondary is in
\* its replica set, and up, so that no write is done without it (GetCommitedSequence).
SecondaryListed ==
    \A p \in Primaries, n \in up :
      ~solo /\ store[n].phase \in {"Secondary", "BecomePrimary"} =>
        \E r \in ToSet(store[p].replicas) : r.node = Self(n) /\ ~r.down

\* The two assertions of ProcessSyncRequest (2386, 2390): a store that is synchronised is
\* in the configuration it gets, and the entries follow on those it has.
SyncFits == \A n \in up : store[n].asserts \cap {"NotInConfiguration", "SyncGap"} = {}

\* The assertion of Write (2110): a write that comes from another replica is never
\* rejected, for it was accepted there.
WriteNeverRejected == \A n \in up : "WriteRejected" \notin store[n].asserts

=============================================================================
