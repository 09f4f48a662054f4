# A TLA+ verification project for the federation layer of Service Fabric

The repository is the federation core of Service Fabric: the code by which
machines find each other, form a ring, watch each other through leases and agree
on who is alive. This directory holds TLA+ modules that model parts of it, TLC
configurations that check them on small instances, and TLAPS proofs for every
value of the constants. Paths below are relative to `src/src/prod/src/`.

## The system

| Part | State | Operations | Talks to |
|---|---|---|---|
| Arbitration table (`Federation/ArbitrationTable.cpp`), one per seed node | a history per lease agent: a list of records, paired for the two sides of a lease, each with a decision and a state; `delayed_`; the time since which its history is complete | `ProcessRequest` for eight types of request, `Compact` on a timer | arbitration operations, by replies and delayed replies |
| Arbitration operation (`Federation/ArbitrationOperation.cpp`), one per lease under arbitration and side | per arbiter: last answer, pending call, number of requests, given back or not; what was reported so far | start, reply, error, delayed reply, timer | arbiters through `SeedNodeProxy`; the lease layer, which it tells the verdict |
| Vote manager (`VoteManager`, `VoteEntry`, `VoteProxy`, `SharableProxy`, `TicketGap`) | votes owned, global tickets, bootstrap | acquire and renew votes, exchange tickets, start arbitration | arbitration operations, site node |
| Join manager and join lock manager | phase of a joining node and its locks; owner and id of the lock of each ring node; throttling lists | query, lock, transfer, renew, release, unlock, throttle, resume | each other, routing table, lease agent |
| Routing table (`RoutingTable`, `RoutingToken`, `NodeIdRange`, `NodeRing`, `PartnerNode`) | the nodes known, their phase and token; the own token, a range of ids with a version | request, transfer and split a token, probe and echo to recover a lost one | every message carries neighbourhood headers |
| Voter store (`VoterStore`) | a replicated map with generations, epochs and a primary | read, write by quorum, promotion, bootstrap | global time manager, vote manager |
| Global time manager | epoch and the limits of the global time | exchange, epoch updates | voter store |
| Site node, point to point and routing managers, broadcast and multicast | lifecycle, requests under way, forwarding contexts | open, close, restart, route, retry, acknowledge | all parts |
| Lease layer and lease agent (`Lease/linux`, `LeaseAgent`) | lease relationships, their expiry, remote certificates | establish, renew, arbitrate, terminate | arbitration operations, remote lease layers |
| Common, Transport, KTL, KTL logger, ServiceModel, hosts | utilities, sockets, support libraries | | |

What is hard about it: nothing in it is synchronous. Two sides arbitrate the same
lease at the same time, at several arbiters that do not talk to each other;
replies are lost, late, or overtaken by newer ones; arbiters restart and forget;
nodes join, hand over locks and ranges, and fail in between; and every decision
has a deadline.

What makes the parts correct:

* arbitration: of two agents that lose their lease, never does one survive while
  it was told that the other is gone and the other was told to go on; not both go
  down without need; everybody who waits for a decision gets one;
* join: a ring node's lock serves one joining node at a time, and two nodes that
  join at once know of each other when both are in the ring;
* routing tokens: no id is owned by two nodes, and a lost range is recovered by one;
* voter store: one primary per generation, no committed write is lost;
* leases: a node that is declared down has stopped before.

## Modules

| Module | Models |
|---|---|
| `ArbitrationDecision` | the rules by which an arbiter decides about the two sides of one lease, without records or time (`MakeDecision`, `ProcessRevertRequest`) |
| `ArbitrationTable` | one arbiter: histories, records, states and suspicion levels, all requests, compaction, restart, clock |
| `PairArbiter` | the abstract specification of an arbiter for one lease |
| `Arbitration` | the two sides of a lease and a set of arbiters that follow `ArbitrationDecision`, with messages |
| `ArbitrationLease` | the refinement mapping from `ArbitrationTable` to `PairArbiter`: the decisions of one lease |
| `MC_ArbitrationTable`, `MC_Arbitration` | instances for TLC |
| `ArbitrationTable_proofs`, `ArbitrationLease_proofs` | the theorems about `ArbitrationTable`, and that it implements `PairArbiter` |
| `Arbitration_proofs`, `Arbitration_survival` | the theorems about `Arbitration`; the second module has the one about arbitrations in which nothing fails |
| `Join` | nodes that join a ring: join managers, join lock managers, and what every node knows of the others |
| `MC_Join` | instances of `Join` for TLC, and two initial states further along |
| `Join_proofs`, `Join_ring` | the theorems about `Join`; the second module has those about what the nodes know of each other |
| `VoterStore` | the replicated store of the seed nodes: introduction, bootstrap, synchronisation, writes, promotion, failures and restarts |
| `MC_VoterStore` | instances of `VoterStore` for TLC, and initial states further along |
| `VoterStore_proofs` | the theorem about `VoterStore` |
| `TokenRing` | the routing tokens of a ring: splits, transfers, probes, echoes, recovery, departures and crashes |
| `TokenRing_proofs` | the lemmas about ids, midpoints and ranges of the circle, and the theorems about `TokenRing` |
| `MC_TokenRing` | the instance of `TokenRing` for TLC, and two kinds of initial states |

### ArbitrationTable

Every public operation of the table takes its lock, so each is one action:
`ProcessRequest` (split by type into `Arbitrate`, `Revert`, `ImplicitRequest`,
`KeepAliveRequest`, `QueryRequest` and, for a sender known to be down,
`RejectDown`) and `Compact`, which ends delays, answers them, and on its interval
drops old records. `CompactInternal` stops when it has used up its time: `Compact`
picks the set of nodes it still visited. `Restart` is a new process with an empty
table, and `Tick` the clock.

Records are numbered in order of creation; a node's list, which grows only at its
head, is the set of its record numbers in decreasing order. The suspicion
counters, which the code maintains incrementally in `UpdateRecordState`, are
operators that count the record states. `sent` holds what the last step sent; the
runs leave it out of the state's fingerprint (`VIEW`) because no step reads it.

`GetRecord` can return a record of implicit arbitration that has aged, whose
`peer_` is null; the code then dereferences it. The model has no such step
(`p.s # NoPeer`, `s # NoPeer`); a process that fails there starts again, which
`Restart` allows at any time.

### Arbitration

One `ArbitrationOperation` per side: `Start`, `ProcessReply`, `ProcessError`,
`ProcessDelayedReply` and `OnTimer` each end in `RunStateMachine`, that is
`CheckState` (the tally, the choice to give grants back, the verdict) and
`GenerationActions` (what is asked again or given back). Time appears as choices:
whether a retry is due, whether `checkRevertTime_` has passed (`late`), whether
the operation has run out of time (`ends`). The last two, a failed call and a
restarted arbiter count against `MaxFailures`. Messages are a set: they
arrive in any order or never. An arbiter is the pair of decisions, changed by the
operators of `ArbitrationDecision` that `ArbitrationTable` uses as well; where the
table compares suspicion levels, either outcome is possible here, which is what
`PairArbiter` allows and what `ImplementsPair` says of the table. An arbiter that
restarted lacks the history that requests ask for, and rejects.

### Join

A joining node asks the ring who is there (`Query`), collects the lock of every
neighbour (`Locking`), establishes leases with them and is `Inserting`
(`Establishing`), has every lock released by an unlock request, which is how its
neighbours take it into their rings (`UnLocking`), and is `Routing`. `stage` and
`entries` are `JoinManager`'s `phase_` and `entries_` (`done` and `known` are
`isPhaseCompleted_` and `isKnown_`); `lock` is `JoinLockManager`'s `owner_` and
`lockId_` with the range lock of `RoutingTable`; `table[n]` is the known table of
node n, its own instance and phase included, and `whole[n]` whether its
neighbourhood range covers the ring.

Every federation message carries the sender's neighbours, and the receiver
considers them before it handles the message; `Learned` is that, `Considered` is
`InternalConsider` with the rule that shuts down a node whose header seems to be
stale, and `Extended` the range header. Headers and handler are one step. A
handler works under `stateLock_`, and that is one step. What its thread does once it
has left the lock is in `calls`, and is a step of its own (`Resume`), because other
messages and the timer may come first:

* `StartLeaseEstablish` and `StartRouting`, to which `StartNewPhase` leads. They
  set the phase of the node as it then is, whatever has become of the join (`ChangePhase`
  asks for nothing);
* the second half of `RunStateMachine` in the unlock stage (`RestartUnLocking`). The
  first half (`RunUnLocking`, `JoinManager.cpp` 1154-1209) sends unlock requests, reads
  `phase_` and the clock, and decides; the second (1211-1239) takes the lock again, looks for
  neighbours that are down unless the time was up, and does not look at `phase_`;
* `RestartInstance`, after `ResetStateForJoining`: the lock is free between them.

`ResetStateForJoining` leaves the stage `Routing` as it is, as the code does (410). So
the last unlock grant may complete the join while a thread is on its way to restart the
node, which then is in the ring as an instance nobody was told of. A node may
also go on with a query, or with the phase `Inserting`, while its restart is still to come.
The history variable `overtaken` marks these nodes; finding (3) is about them.

`RunLocking` takes the entries that are due for a message, and those acquired too
long ago, as parameters. In the code the first depends on when each was last asked and, as long as
the first entry is pending and was asked, on its `RetryCount`: only every tenth time are the
others asked as well (1161-1183), and an answer sets it back to 0 (457, 534). Any set of
entries contains what the code may do, which is enough for safety; the fairness is
stated with what the code does at least (`Retry`, below). `LockDenyHandler`
returns early without sending the releases that `UpdateNeighborhood` has
collected, and so does the model. A restart gives the node a new instance; a
message for another instance is answered by a fault (`Undelivered`,
`FaultHandler`). A ring node may close (`Close`), which the lease layer reports
(`SetShutdown`).

Not in the model: rings larger than a neighbourhood, hence ranges other than the
whole ring or the node alone; neighbourhood versions; routing tokens; `Compact`,
by which a node forgets those that are down; liveness queries about inserting
nodes; expiry of the global lease; the throttling of joins, which only decides when
a query may go on; the deadline of the open. `calls` is a set: two threads of a node that
are about to make the same call count as one, and at most one restart is pending. The
second half of `RunStateMachine` is a step of its own only where it has something to do: a
neighbour is down, or the thread is held up, which counts as a lapse. What becomes of
the leases that an overtaken `StartLeaseEstablish` asks for is not followed.

### VoterStore

One store per voter. A voter introduces itself to the others (`Introduce`); when
nobody has a store, the voters agree to the bootstrap of one of them
(`Bootstrap`, `BecomeSecondary`), which becomes `Primary`; the others join its
replica set and are synchronised (`Secondary`). When the primary is down, the first
replica that is left asks the others how far they are and promotes itself
(`BecomePrimary`). `store[n]` has the fields of `VoterStore`: `phase`, `leader`,
`gen` and `epoch`, `highest` (the highest sequence), `voters`, `replicas`, and
`entries` with the current and the pending value of each key. A replica set change
is a new epoch; the primary makes it between writes (`ChangeReplicaSet`).

Every handler runs under the lock of the store and ends in `RunStateMachine`, so a
step is the handler and then `Run`, which repeats the check of the phase while it
changes (`Continue`). Requests and replies are `ProcessRequestMessage` and
`ProcessReply`; a request to an instance that is gone ends in a fault
(`RouteFault`), which is a verdict that it is down. `Timer` sends what there is
reason to send (`Wanted`); any part of it may be lost, which also stands for the
pace of retries. `Fail` and `Start` end an instance and begin the next, with an
empty store: nothing is on disk. `ClientWrite` is a write at the primary.

The code checks whether a voter lives (`SendCallback`, 1775) with an empty request;
here only its fault is modelled, since its answer changes nothing. Entries and
voters are independent of each other and processed in a fixed order (`Sorted`,
`KeyOrder`). `EpochStep` is small, and the generation is a reading of the clock
that no two voters share (`ticks`).

*Solo.* The first replica left of a set may bootstrap again without asking anybody
when it is the only one up (2705-2718). TLC finds that this makes two primaries.
Voter 1 bootstraps, adds voter 3 and dies; voter 3 learns it from a fault, and
then from a late reply that it is in the set; voter 2, which has heard of nothing,
asks for a bootstrap; voter 3 agrees, and bootstraps itself in the same step. No
document or assertion says that this path keeps one primary, and the code makes it
unlikely: bootstrap waits for `VoterStoreBootstrapWaitInterval`, one hour, and
the global time. The history variable `solo` marks it, and the properties are
stated for the behaviours without it.

Not in the model: the client side (`Resolve`, reads, the retry of requests, the
requests of nodes that are no voters, `CheckNonVoter`), a change of the set of
voters (`UpdateVoterConfig`), and wrong verdicts that an instance is down.

### TokenRing

Ids are `0..IdCount-1` on a circle, a token a range of them with a version. The
operators of the first two sections are `NodeId`, `NodeIdRange` and `RoutingToken`:
`MidPoint` with its tie, `SplitTo` (`SplitSuccToken` and `SplitPredToken`, one
for each direction), `SplitFullToken`, `ReleaseTo`, `Merged` and `Accepts`. A
direction is a Boolean, TRUE for the successor. A version counts merges and splits
in its low part and recoveries in its high part (`RECOVERY_INCREMENT`); a token
header carries the version of the receiver that the sender knew, and is merged
only if no recovery has come between (`IsMergeSafe`).

`node[n]` is the routing table of n: its token, what it knows of the others'
tokens (`view`), who is down, the neighbourhood version (`hood`), and the promises
made by its echoes (`succEchoList_` and `predEchoList_` as `echoes`). A message
carries the sender's view; `ProcessNeighborHeaders` considers it and merges the
tokens in it under one lock, and `HandleMessage` is its handler, which takes the lock
again: other steps may come between. Every lock ends in `Unlock`, that is, when
the token or the neighbourhood has changed, in `CheckHealth`, of which `CheckToken`
is modelled: it gives away what is closer to a neighbour, asks for what is closer
to itself, probes over a gap, or recovers the whole ring when it is alone.
`OnTimer` is the same check. Where the code reads `accepted[]` without having set it
(`RoutingTable.cpp` 1395 and 1436, a node without a token after its deadline), any
of the tokens may seem rejected (`Considered`).

Abstractions: the ring is smaller than a neighbourhood, so every node knows all
others, and nodes that are down are named in every message; verdicts that a node
is down are right; the throttling of probes and the wait for a pending transfer
are left out, so a node may probe at any time; a node that crashed or departed does not
come back, and one whose open failed for want of a token stays in the ring without
one. Headers are those of the step that sends the message. Ranges are sets of
ids: `NodeIdRange` of code that represents them by their ends, where an end that
precedes the begin stands for the whole ring, is `NodeIdRange(b, e)`.

## Runs

| Run | Instance | Shows |
|---|---|---|
| `arb_table_extended` | 2 agents, leases 1/1 and 2/2 of the current lease version, giving back as neutral by both and as rejected by one; 4 records, 4 clock ticks; all intervals 1 or 2 | records stay paired, grants exclude each other, `delayed_` is sound, one pair per lease, a grant is only given up by its holder, changes are told, and the table implements `PairArbiter` |
| `arb_table_mixed` | 3 agents, all other request types mixed, 3 records, 3 ticks | exclusion of grants and the assertion of `MakeDecision` on simple requests |
| `arb_two_votes` | 2 arbiters, a simple lease, a first lease and one that an arbiter remembers, 1 failure, 2 requests per arbiter | `NoSplitVerdict`, `SomebodySurvives` |
| `arb_settles` | 2 arbiters, a first lease, fairness | `Settles` |
| `arb_partial_assert` | as `arb_settles` | the assertion `ArbitrationOperation.cpp:435` can fail |
| `join_restart` | 1 ring node, 2 joining, 2 instances, 2 lock ids, 1 lapse | `TypeOK`, `RoutingKnown`, `OneHolder`, `DownIsDown` with closes, restarts, faults and threads that are held up |
| `join_overtaken` | 1 ring node, 1 joining, 2 instances, 1 lapse | the consistency rule of `RoutingTable.cpp:518` can fail |
| `join_transfer` | 3 ring nodes of which one pings, 2 joining that hold one and two locks, lost messages | `RoutingKnown`, `OneHolder` while locks are handed over |
| `join_resolves` | 2 ring nodes, 2 joining with ids between theirs, no loss, fairness | `Resolved` |
| `voter_store` | 3 voters, 3 writes of one key, 1 failure, 2 instances, 2 readings of the clock | `OnePrimary`, `EpochNamesConfig`, `AckedKept`, `SecondaryListed`, `SyncFits` |
| `voter_store_rejects` | 4 voters, 2 keys, 1 failure | the assertion `VoterStore.cpp:2110` can fail |
| `token_ring` | 3 nodes, 6 ids, 2 failures, 4 merges or splits and 2 recoveries of a token, 1 node that gets no token in time | `NoSharedId`, `InFlightUnshared`, `PromisesOrdered`, `VersionsKnown` |

Bounds. The intervals of the table only matter by their order, and one or two
ticks each are enough to let every one of them run out while others have not: the
keep interval (2) ends within the 4 ticks, so records are compacted, and the
history window and the suspicion interval are crossed. Four records are two
pairs: a second pair of the same lease, or one for a new lease instance. Two
arbiters are the smallest case of a tie; that a majority may be less than everybody is
left to the proof, which is for any number of them. Two requests per arbiter allow one retry or one
request and its reversal. One failure is enough to make any single call, arbiter
or deadline fail at any point. All configurations of these modules switch the deadlock check off:
the clock is bounded and an arbitration ends.

In `Join`, at most two messages are under way, which lets any message race any
other; a lapse is a lock that expires at its ring node, one that the joining node
takes for expired, a reset by an edge probe, a failed lease, an unlock stage that
takes too long, a thread that is held up between its two locks or a close, and one of them is enough for every handler to
meet every state of the lock. The joining node and the ring node let a lock expire
independently of each other, as their clocks do. Three ring nodes are the least at
which `isKnown_` matters: with a lock handed over by the other joining node, a
node can only be inserted unheard of if a third ring node spreads the news. That run
starts where the two hold one and two locks (`ContestedInit`), and `join_resolves`
where both have their query answered (`LockingInit`); both states are reachable
from `Init`. Joining ends, and a closed node never comes back: no deadlock check.

`DownIsDown` excepts a joining node that has to start over (`MustRestart`), and has to. Take a
ring 1, 2, 3. Node k locks 1, which closes, and k does not hear of it; s joins through 2 alone,
and 2 closes; k hears that 2 and 3 are down, believes its locks complete, and becomes
inserting. A third joining node j, whom k answers and who was told of s, brings k's header to
s: s has never met k, takes the header for a stale one and that instance of k, which is up, for
down (`RoutingTable.cpp` 528-546). Nobody is hurt: 1 will never unlock k, so k restarts with the
next instance. TLC reproduces the 39 steps along a fixed schedule; they need three ring
and three joining nodes and are out of reach of the exhaustive runs.

In `VoterStore`, three voters are the least with which a majority is not everybody
and a primary can lose one secondary and keep another. From `Init` the bootstrap
of three voters with failures has too many behaviours, so `MCInit` starts from four
kinds of states, of which TLC has shown on smaller instances that `Init` reaches them:
voters that have introduced themselves, without or with the one of the lowest id,
and a store that runs with one or two writes done. The failures are those of any
voter at any moment; where an instance is left, it comes back. One key is enough
where entries only compete through their sequence; the finding needs two, and a third replica
that is ahead of a second. Two messages under way let any two race. Two readings of the clock are two
generations. A store may wait for ever for voters that failed for good, and
writes and failures end: no deadlock check.

In `TokenRing`, three nodes and six ids give every node ranges on both sides of
its id, and gaps between neighbours, over a node that is down and all around. The
ring starts with one owner, just bootstrapped, whose neighbour has joined without a
token and whose third node is down, or with three settled tokens of one version. Two
failures leave one node, which recovers the whole ring. Four merges and two
recoveries let each token be divided, lost, recovered and lost again; with
three recoveries (1.4 million states) the result is the same. The versions are
bounded: no deadlock check. What these bounds do not show: dropping the promises
(`CanRecover`) altogether breaks none of the properties here. When both sides of a
gap recover it, each keeps the half that is closer to itself, and the versions
reject the halves they send each other; the promises matter in rings that are larger
than these.

Fairness (`FairSpec`). Weak fairness of the delivery of requests and replies, of
the arbiter's timer and of the operation's timer: `Compact` and `OnTimer` run on
timers that are set again as long as there is something to wait for
(`ArbitrationOperation.cpp` 519-544, `VoteManager`), and a call always ends, with a
reply or an error. No fairness for failures, restarts or for starting.

Fairness of `Join`. Weak fairness of the receipt of each kind of message between
each pair of nodes, and strong fairness of a retry, `Retry(j, k)`, for each lock k that j
misses: of the first entry while it is pending, and of another only where the first is
completed. That is what `RunStateMachine` does at least. While the first
entry is pending it may be the only one that is asked for ever, since every denial and every grant sets its
`RetryCount` back (`JoinManager.cpp` 1161-1183, 457, 534). The first entry
is the next lower node on the circle (`First`, `RoutingTable.cpp` 825-851). The ids of the
run are such that the two joining nodes begin at different ring nodes. The timer is set again
until the node is in the ring (`JoinManager.cpp` 1242-1245) and fires for
ever, but the bound on messages under way can disable the step for a while, which
is a limit of the model and not of the code; hence strong fairness.

The findings. (1) `CheckState` asserts that a partial result, once reported, stays
granted. A plain reply that is overtaken by a delayed reply of the same arbiter
breaks it: `ProcessResult` overwrites the newer decision by the older one while
the vote is pending. `arb_partial_assert` gives the schedule. In the model the
side that fails the assertion stops and sends nothing (`assertFailed`).

(2) `VoterStore::Write` asserts that a write that comes from another replica is never
rejected. A voter that promotes itself asks several replicas for what it lacks with the
same sequence; when the second reply contains the entries of the first and more, the
loop of `ProcessProgressReply` writes the first ones again, an equal value is
answered with `AlreadyExists`, and the assertion fails. `voter_store_rejects` gives
the schedule. In the model the failure is recorded in `asserts`, and the step goes on.

(3) `InternalConsider` takes a routing node that is not in its ring for a stale one,
"because by our consistency rule such node can't exist" (`RoutingTable.cpp` 518-524). It
can. The timer thread finds that the unlock stage has taken too long (`JoinManager.cpp`
1209), the last `UnlockGrant` completes the join, the timer thread takes the lock and restarts the
instance all the same (1229-1237), and `StartNewPhase` of the grant makes the new instance
`Routing` (1128). `join_overtaken` gives the schedule (`ConsistencyRule`). The other nodes then suspect the header
of that node and take its instance for down. `RoutingKnown` and `DownIsDown` are therefore stated as long as no
node was `overtaken`.

Every property has a mutant: a small change of one definition that stands for a plausible
mistake in the code (a dropped condition, a message not sent, a majority of half),
under which TLC finds the property violated. They are the operators that nothing
else uses, next to the definition they replace (`PairOfOne`, `QuorumOfHalf`, ...),
and are listed under `mutants` in `PROJECT.json`.

## Proofs

`ArbitrationTable_proofs` proves for any sets of nodes and requests, any
intervals and thresholds and any number of records:

* `TypeCorrect`, `PeersAreConsistent`, `GrantsAreExclusive`, `DelayedAreAlive`:
  `Spec => []TypeOK`, `[]PeersMatch`, `[]NoOpposingGrants`, `[]DelayedTracked`;
* `GrantsAreKept`: `Spec => GrantKept`;
* `ChangesAreTold`: `Spec => ToldOfChange`;
* `OnePairAtATime`: `Spec => []OnePairPerLease`;
* `SimpleIsFirm`: `Spec => []SimpleMeetsNoNeutral`, provided that the requests
  satisfy `OneVersion`.

`OneVersion` says that requests between the same two instances of lease agents are all
simple or none is (reverts to a rejection aside). It is what the rest of the code
does: the kind of a request follows from the lease version of the other agent
(`SiteNode::Arbitrate`, `SiteNode.cpp` 1201-1216), a one-way lease with an agent of the
old version is failed instead of arbitrated (`Leases.cpp` 1172-1177), and only a
grant of an extended request is given back as neutral
(`ArbitrationOperation.cpp` 447-455). That an agent of the old version itself only asks for simple
arbitrations is outside this repository. TLC checks `OneVersion` for the requests of
both runs.

Assumptions: `RequestAssumption` (a node does not arbitrate with itself) and
`TimeAssumption`, of which the proof needs that times are natural numbers, that
the clock starts later than the longest interval, and that `ArbitrationDelayInterval` is at most the
time records are kept (15 s and 300 s by default).

None of the invariants is inductive. `IInv` adds: the decisions of a pair are one
of the combinations that may stand together (`Separate`), of a pair at least one
side has asked (`OneHasAsked`), a side whose grant is delayed asked first and the
other's time is the same or later (`DelayedAskedFirst`), no record is from the
future (`Past`), every record has a state and only one without a peer the implicit state (`StatesOf`). `DelayedTracked` is the
reason for most of them: compaction drops a pair when either side is too old, and
deletes it although `delayed_` may point to it. The argument is that the first
part of `Compact` has just ended every delay older than `DelayInterval`, so a record still
delayed is younger, and since it asked first so is its peer; neither can be older
than the keep interval. Each action has a lemma (`ArbitrateStep`, `RevertStep`,
`ImplicitStep`, `OtherRequestStep`, `CompactStep`, `RestartStep`, `TickStep`) that
also says which grants survive it and which changes it sends (`StepKeeps`), from
which the action properties follow.

`OnePairPerLease` needs to know when a record was made, which the code does not keep:
`processTime` is overwritten when the record's side asks. The earlier time of the two
peers does not change (`Since`), because a side that has not asked still has the time
at which the pair was made (`AskedLater`); by it the records are in the
order of their numbers (`InTurn`). `GetRecord` walks from the newest record and stops at
the first whose `processTime` is too old. If it misses an earlier pair of the lease, it
stopped at a record at least as new, whose `processTime`, and so the time when
it was made, is before the interval; so was then the missed pair
(`EarlierPairIsOld`, `PairsApart`).

`ArbitrationLease_proofs` proves the refinement:

* `RefinesPair`: `Spec => ImplementsPair`, for the lease between any two instances of
  agents, any requests (the two agents' own, those of others, of other
  instances and leases) and any types of arbitration among them.

`LeaseAssumption` only names the lease: two different agents, lease instances that are not 0,
and `Kinds`, which has to contain the types that the two ask for and may be all of
them. The mapping `LeaseDecisions` takes the decisions of the latest pair of records with these
agents, instances and lease instances. What has to be proved is that no operation ever
works on an older pair of the lease, or leaves one as the latest. Both follow from
`LeasePairs`: of two pairs of the lease the later one has the higher number on both
sides, since they were made at different times (`OnePairPerLease`). So `GetRecord`,
which takes the first match in the list of either side, finds the latest
(`FoundIsLatest`, `FoundOnLease`), and `CompactInternal`, which only
removes tails of lists, removes the older pairs before it removes the latest (`CompactMaps`).
A request with lease instance 0 matches any instance; if what it matches
is a pair of this lease the theorem covers it, and if it makes a pair of its own, with
instance 0, that pair is not one of this lease.

`TokenRing_proofs` proves for any circle of ids, any finite set of nodes and any
bounds:

* `TypeCorrect`: `Spec => []TypeOK`: a token is always one stretch of the circle with the
  id of its node in it;
* `PromisesAreOrdered`: `Spec => []PromisesOrdered`, what the comment of
  `EchoedProbeList::Add` says (`RoutingTable.cpp` 3695-3706), whose step for one
  promise is the lemma `AddEchoInOrder`;
* `VersionsAreKnown`: `Spec => []VersionsKnown`, that the ASSERT of
  `RoutingToken::IsMergeSafe` never fires.

Assumptions: `IdAssumption` (nodes have ids of the circle, and are finitely many),
of `IncrementAssumption` that a recovery increases the version, and
`PingersAssumption` (no node pings itself). `IInv` follows
every version to the places that keep a copy of it: no view, no header of a
message that is under way or waits for its handler, and no echo is ahead of the node that
it tells of (`Table`, `Hdrs`, `Fresh`, `Waiting`, `IsEcho`), and each list of
promises is ordered and made at versions the node has reached (`Promises`). The
reason it is kept is that a step of a node only adds to its
version, and what it sends carries the version it then has: `Later` is this order
of tokens, under which tables and messages stay good (`TableLater`,
`InFlightLater`), also when a node goes. `IsOutcome` is what an operation may do to a table,
and every operation has a lemma that says so (`SplitCut` and `ReleaseToLeft` for
what a token gives away, `TransferOutcome`, `PrepareEchoOutcome`,
`EchoHandlerOutcome`, `CheckTokenOutcome`, ...). A promise is made at a version that
`PrepareEchoMessage` has just increased, which is why the list can be cut and
appended to without losing its order. That a waiting handler may run after
other steps of its node costs nothing: what it holds was true when its message
was processed, and versions have grown since.

`TypeOK` needs two things more. The first is the arithmetic of the circle, which comes
first in the module: what `SplitTo` keeps still holds the id of the node, because the midpoint is
nearer to it than to the neighbour and what is given begins no further than the end
of the range (`SplitKeeps`, `FullSplit`); a range that is extended to the
far end of one next to it, or to an edge outside of it, does not lose the id
(`MergedKeeps`, `RecoverKeeps`); and whatever the ends, the result is one stretch
(`UntilIs`, `StretchIs`). The second is that a node which has a range never gives all of it
(`Grows`), until it departs. A recovery extends the range of the node that sent the
probe, and `Recover` takes the end of the range in the echo: neither may be
empty when the echo is back, after any number of steps. They are not,
because only a node with a range sends a probe or answers one (`Holders`, `IsEcho`),
and it has one still.

`Arbitration_proofs` proves for any finite set of arbiters, any set of leases, any
set of arbiters that remember an earlier lease, and any bounds:

* `TypeCorrect`: `Spec => []TypeOK`;
* `WinnerIsAlone`: of no lease are both sides told that the other is down, and
  when one side is told so, the other is at most told that it may live after it gave its
  grants back as rejections;
* `NoSplitVerdictSameMemory`: `Spec => []NoSplitVerdict`, provided that every
  lease is arbitrated with the simple protocol or is one of which all arbiters remember
  the same: all of them an earlier lease, or none of them.

`IInv` is the inductive invariant of the first two. It says of every arbiter that
its two decisions agree (`ArbiterOK`), and of every answer that a side
counts and every message on its way that the arbiter's decision still supports
it: a strong grant that a side holds (`Hold`, or `Share` when the peer may hold a neutral one)
is one that the arbiter owns for that side (`Owns`, `Live`), until the side gives it back. From
that, `Exclusive`: the arbiters that support a winner and those that support its
peer are disjoint; two majorities meet, so there is one winner. Every step is the
turn of one arbiter or of one side (`ArbiterTurn`, `SideTurn`), and each has its lemmas.
`UInv` is what the third theorem adds. For a lease that compares suspicion levels
(`Compared`) there are no neutral outcomes; for one that nobody remembers (`Unknown`)
grants are only given back as neutral; the case between does not arise, which is
where the hypothesis is used.

The hypothesis is needed: with mixed memory the property fails from five arbiters on.
Let v1 and v3 remember an earlier lease and v2, v4, v5 not, and let s1 be the
preferred side. The side s2 holds a grant of v5, a neutral answer and a rejection;
its time is up (`checkRevertTime_`, `ArbitrationOperation.cpp` 450-475), and it
decides to give back with `RevertToReject`. Before it does, a neutral answer of v4
completes its majority of answers that are no rejections: it is told that it may
live (501-504), while the same step gives v5's grant back (`GenerationActions`,
598-601). Then s1 collects the grants of v1, v3 and v5 and is told that s2 is down.
TLC finds the schedule, of 24 steps, when guided along it; the runs, with
two arbiters, do not reach it, and up to four arbiters it does not
exist. No document or comment says what should happen, so it is listed under
`hazards` and not as a finding: all arbiters are meant to have the same history, and
those that restarted reject.

`Arbitration_survival` proves, also for any arbiters, leases and memories of them,

* `SomebodySurvivesAlways`: `MaxRequestPerVoter > 1 => (Spec => []SomebodySurvives)`:
  when no call fails, no arbiter restarts and nobody runs out of time, the two
  sides are not both told to go down.

The code sends three requests (`ArbitrationOperation.cpp` 17); the hypothesis is
needed because `CheckState` counts an unanswered vote as a rejection from the last
request on. `SInv` is the inductive invariant (on the instances of the runs TLC
finds it true in every state). It says nothing once something failed, and before that `Survival`:

* a side that has or is told a rejection has a peer for whom the arbiter decided, or
  that gave that grant back (`ToldOK`); an arbiter never rejects both sides, and
  calls the same side stronger, or neither, to both of them (`Strong`); a vote without an answer has a call
  pending, so it is no rejection (`Fresh`);
* `Beat(x)` is the set of arbiters that cannot make x go down any more: they decided for it
  and x was told nothing else. It only grows when the peer is down (`DownKept`);
* a side that is down, or decided to be (`RevertToReject`), has the peer's `Beat` as
  a majority, or as exactly half of the arbiters, and then it lost the tie
  (`DownOK`, `Yields`). Two majorities of the arbiters, or a majority and a half,
  cannot reject both sides; two halves would be the complements of each other, and the tie is
  decided by the same strong counts on both sides, by `Preferred` when they are equal,
  so that only one side loses it (`FallsAlone`).

`Join_proofs` proves for any finite set of nodes, and any bounds with at least one instance:

* `TypeCorrect`: `Spec => []TypeOK`;
* `LocksInOneHand`: `Spec => []OneHolder`.

The invariant of the second says where an id of a lock may be: held by a joining node in
its entries, on its way in a grant or in a transfer, or nowhere. It says that an id
is in one of these hands at a time, and is at most the id of the lock of the ring
node that issued it (`OneHand`). Every step is of one of four kinds: it moves
no id (quiet), takes one out of a message, hands one over, or issues a new one, which
is larger than all before; each kind has a lemma, and every handler a lemma that says of
which kind it is. A restart in two steps changes nothing here: the entries are cleared by the
first. `CallsOK` types what the threads of a node have left to do. The only assumption on
the bounds is `NodesAssumption`.

`Join_ring` proves, under the same assumption and from those two,

* `RingKnown`: `Spec => []RoutingKnown`;
* `DownMeansDown`: `Spec => []DownIsDown`.

Both properties begin with `overtaken = {}`, and `join_overtaken` shows that they have to. `RingInv` is the
inductive invariant as long as that holds (`RingUnlessOvertaken`); as `overtaken` never
shrinks (`OvertakenStays`), a step need only be considered where it is empty afterwards.
`RoutingKnown` is about nodes in the ring, but what
makes it true is decided earlier, when a joining node has all its locks. From then on it
is bound for the ring (`Bound`) as long as each lock is still its own (`Fresh`) or was released to it
(`Unlocked`); `Finished` is the step in which it is known to all and has not said so yet.
The parts of `RingInv` are:

* `OneEnters`: at most one node is bound or finished. Two would both have the
  lock of a ring node, with one id (`OneHand`);
* `Covered`: a bound node has every ring node among its entries, and both know each other
  at their present instances, the ring node in its ring once it has unlocked. A finished
  node and every ring node have each other in their rings;
* `LocksTell`: a fresh lock comes with what its ring node knew when it gave it: in the grant, in
  the transfer, or in the table of who has it, is every node that is in the ring or may
  be when the lock is used. So who has the last missing lock has the whole ring
  in its neighbourhood, which is what `CheckCompletion` compares its entries with;
* `Kept` (an entry is `known` only if that node knows the joining one at its present
  instance, which is what `isKnown_` is for), `HandsUp` (locks are of nodes that
  were in the ring) and `UnlocksMatch` (an unlock request, and its grant, is of whom the lock
  id is with): a grant of an earlier stage or instance counts for nothing;
* `Order`: nobody knows of a node more than it is, except that one which must start over may be
  taken for down. This is `DownIsDown`, and needs `RoutingKnown`: a header that
  `InternalConsider` suspects is of a node that is not in the ring, or is old;
* `StagesFit`: which phase and which pending calls go with a stage. A node whose restart is
  pending (`Starting`) is in the stage `Query` and cannot get further as this instance, whatever the
  ring still grants it; a call of `StartRouting` is pending only when the node is finished.

A step is a turn of one node. `Turn(n)` says what a turn may do: what n knows grows, and no newer
than the nodes are; its locks were there before or are given by a message it has
read; its stage goes on only with all locks, and all of them known; and what it may write into
each kind of message. A turn preserves `RingInv` (`TurnOK`), and every handler, timer
and failure is a turn (one lemma each; the two halves of `RunStateMachine`, the reset and the
restart have their own). Both halves were checked with TLC before the proof,
exhaustively for two nodes that join one member with two instances, two messages under way and a
lapse, and to a limited depth for two nodes that join two members, with lost messages and two
lapses.

`VoterStore_proofs` proves for any finite set of at least two voters, any writes of
clients, any readings of the clock and any bounds:

* `TypeCorrect`: `Spec => []TypeOK`.

The invariant (`Types`) is that every store is in `Stores(Started)`, and that every message
has what the handler of its type relies on (`BodyOK`), where `Started` are the
instances that were ever started: every instance in a replica set, among the voters, as
a leader or in a message is one of them, and a replica set or a configuration names a
voter once. `Stores(H)` grows with `H`, which is what `Start` needs, and every handler
maps `Stores(H)` into itself (one lemma per handler). The loops of the code
(`CommitEntries`, `Serve`, `Joined`, `WriteAll`) are folds over sequences:
`FoldExists` shows that the recursive function of the fold exists, by induction over the
length written with a least counterexample (`NatLeast`), and `FoldStays` that its value stays
in a set each step stays in. `Selected` and `Sorted` take the place of the library's
`SelectSeq` and of a sort, which the provers do not know. From the assumptions it uses
that ids, values and clock readings are positive numbers, and that there are finitely many
voters and writes. That a voter is named once is what `Add` (1199) has to ensure; with
`AddReplicaAgain` in its place `ReplicaSets` is not kept, as the mutant shows.

Only model-checked: `OnePrimary`, `EpochNamesConfig`, `AckedKept`, `SecondaryListed`
and `SyncFits` of `VoterStore`; `NoSharedId` and `InFlightUnshared` of `TokenRing`; and `Settles` and `Resolved`, which as liveness
properties are out of the prover's reach.

## Not modelled, and the plan

In this order:

1. Proofs about `TokenRing`: of `NoSharedId` at least that splits and merges alone keep it
   (a split divides a range, a merge joins two).
2. Rings larger than a neighbourhood: `NodeRing`, ranges and edges, token recovery
   over nodes that do not know each other.
3. Global time manager and votes: epochs, tickets; the client side of the voter store.
4. Join throttling; the requester's one-way, implicit and query operations, and the core of the
   lease layer that calls them; then broadcast acknowledgements and the
   asynchronous operations of Common.
5. Proofs: of `VoterStore` at least `EpochNamesConfig`.

Left out for good: Transport, KTL, the KTL logger, ServiceModel and the hosts, which
are I/O, support libraries and configuration; tracing and serialization of all parts.
