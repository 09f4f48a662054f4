---------------------------- MODULE Arbitration ----------------------------
(***************************************************************************)
(* The two sides of a lease arbitrate at the same set of arbiters.  Each   *)
(* side runs one ArbitrationOperation; each arbiter holds one decision for *)
(* each side and changes it by the rules of ArbitrationDecision, which are *)
(* the ones ArbitrationTable implements.  Where the table consults its     *)
(* suspicion levels the arbiter here may decide either way.                *)
(*                                                                         *)
(* Messages travel in any order and may never arrive; a call may fail      *)
(* although its request reaches the arbiter.                               *)
(***************************************************************************)
EXTENDS Integers, FiniteSets, ArbitrationDecision

CONSTANTS
    Votes,               \* the arbiters (seed nodes)
    Sides,               \* the two lease agents
    Leases,              \* the kinds of lease to arbitrate: its type, TwoWaySimple or
                         \* TwoWayExtended, and the arbiters that know an earlier
                         \* lease of the two
    Preferred,           \* the side with the smaller instance id
    MaxRequestPerVoter,
    MaxFailures          \* bound on failed calls, restarted arbiters, answers slower
                         \* than LeaseSuspendTimeout and operations out of time

ASSUME SidesAssumption ==
    /\ Preferred \in Sides /\ \E x, y \in Sides : x # y /\ Sides = {x, y}
    /\ Leases \subseteq [type: TwoWayTypes, continuous: SUBSET Votes]
    /\ IsFiniteSet(Votes) /\ MaxRequestPerVoter \in Nat /\ MaxFailures \in Nat

Other(x) == CHOOSE y \in Sides : y # x

VARIABLES
    lease,      \* the lease the two sides arbitrate
    arbiter,    \* per arbiter: the two decisions, their Strong flags, whether it restarted
    vote,       \* per side and arbiter: ArbitrationVote
    op,         \* per side: the rest of ArbitrationOperation
    requests,   \* requests on their way to an arbiter
    calls,      \* calls whose completion is still to come
    replies,    \* replies and delayed replies on their way to a side
    failures    \* how many failures there have been

vars == <<lease, arbiter, vote, op, requests, calls, replies, failures>>

Type == lease.type
Continuous == lease.continuous

-----------------------------------------------------------------------------
(***************************************************************************)
(* CheckState: counting the votes of one side.                             *)
(***************************************************************************)

QuorumOfHalf == Cardinality(Votes) \div 2

Quorum == Cardinality(Votes) \div 2 + 1

Count(P(_)) == Cardinality({v \in Votes : P(v)})

HasResult(w) == w.answered

\* The outcome an ArbitrationVote stands for.  MonitorTTL and SubjectTTL are
\* either MaxValue or not: safe and granted.
IsGrant(w) == HasResult(w) /\ w.safe /\ w.granted
IsNeutral(w) == HasResult(w) /\ w.safe /\ ~w.granted
IsReject(w) == \/ HasResult(w) /\ ~w.safe
               \/ ~HasResult(w) /\ w.count >= MaxRequestPerVoter

\* The counters of CheckState for the votes w of one side.
Tally(w) ==
    [result |-> Count(LAMBDA v : HasResult(w[v])),
     grant |-> Count(LAMBDA v : IsGrant(w[v])),
     strongGrant |-> Count(LAMBDA v : IsGrant(w[v]) /\ w[v].strong),
     neutral |-> Count(LAMBDA v : IsNeutral(w[v])),
     delay |-> Count(LAMBDA v : IsNeutral(w[v]) /\ w[v].delayed),
     reject |-> Count(LAMBDA v : IsReject(w[v])),
     strongReject |-> Count(LAMBDA v : IsReject(w[v]) /\ HasResult(w[v]) /\ w[v].strong),
     retryable |-> Count(LAMBDA v : IsReject(w[v]) /\ HasResult(w[v]) /\ w[v].count < MaxRequestPerVoter),
     remoteReported |-> \E v \in Votes : HasResult(w[v]) /\ w[v].reported,
     continuous |-> \E v \in Votes : HasResult(w[v]) /\ w[v].continuous]

LocalGranted(t) == t.grant + t.neutral >= Quorum

IsPreferredWithoutTie(x, t) == t.strongGrant > t.strongReject

IsPreferred(x, t) ==
    IF Type = TwoWaySimple THEN x = Preferred
    ELSE \/ t.strongGrant > t.strongReject
         \/ t.strongGrant = t.strongReject /\ x = Preferred

CanCoexist(t) == Type = TwoWayExtended /\ ~t.continuous

\* The first decision of CheckState: whether the grants received so far have
\* to be given back, and as what.  late: checkRevertTime_ has passed.
RevertChoice(x, o, t, late) ==
    LET considered == o.revert = Type /\ t.grant > 0 /\ t.result >= Quorum /\ t.remoteReported
    IN  CASE considered /\ CanCoexist(t) -> RevertToNeutral
          [] /\ considered /\ ~CanCoexist(t)
             /\ ~LocalGranted(t) /\ ~IsPreferred(x, t)
             /\ t.result = Cardinality(Votes) \/ late -> RevertToReject
          [] OTHER -> o.revert

CanRetry(t) == ~LocalGranted(t) /\ t.reject > 0 /\ t.grant + t.neutral > 0

\* CheckState.  ends: the operation has reached its expiration time, or the
\* site is shutting down.  Its assertion is kept as a flag: the side goes no further.
CheckState(x, o, t, late, ends) ==
    LET revert == RevertChoice(x, o, t, late)
        retryable == IF CanRetry(t) THEN t.retryable ELSE 0
        lost == ~LocalGranted(t) /\ t.reject - retryable >= Quorum
        settled == LocalGranted(t) /\ (revert # Type \/ t.reject + t.neutral - t.delay >= Quorum)
        won == LocalGranted(t) /\ ~settled /\ t.grant >= Quorum
    IN  CASE o.completed -> o
          [] ~o.completed /\ ~LocalGranted(t) /\ o.partial -> [o EXCEPT !.assertFailed = TRUE]
          [] OTHER ->
               [o EXCEPT
                !.revert = IF lost /\ revert \in TwoWayTypes THEN RevertToReject ELSE revert,
                !.canRetry = CanRetry(t),
                !.local = @ \/ LocalGranted(t),
                !.partial = @ \/ LocalGranted(t),
                !.remoteDown = won,
                !.completed = settled \/ won \/ lost \/ ends]

-----------------------------------------------------------------------------
(***************************************************************************)
(* GenerationActions and RunStateMachine.                                  *)
(***************************************************************************)

CanRevert(w) == HasResult(w) /\ w.granted /\ ~w.reverted /\ ~w.pending

\* The votes whose grant is given back, and those that are asked again: the
\* ones that never answered, and the rejected ones whose retry is due.
ToRevert(o, w) == {v \in Votes : ~o.assertFailed /\ o.revert # Type /\ CanRevert(w[v])}

ToAsk(o, w, due) ==
    {v \in Votes \ ToRevert(o, w) :
        /\ ~o.assertFailed /\ ~o.completed /\ ~w[v].pending /\ w[v].count < MaxRequestPerVoter
        /\ HasResult(w[v]) => ~w[v].safe /\ o.canRetry /\ v \in due}

\* StartVoteArbitration, on the vote.
Asked(w) == [w EXCEPT !.pending = TRUE, !.count = @ + 1]

Reverted(w, type) ==
    [w EXCEPT !.reverted = TRUE, !.granted = FALSE, !.count = @ + 1,
              !.safe = IF type = RevertToReject THEN FALSE ELSE @]

Request(x, v, w, type) == [from |-> x, to |-> v, number |-> w[v].count + 1, type |-> type]

\* RevertToNeutral is sent one way; every other request is a call that ends in
\* a reply or an error.
IsCall(req) == req.type # RevertToNeutral

\* RunStateMachine for x with votes w.
RunStateMachine(x, w, due, late, ends, otherCalls) ==
    \E t \in {Tally(w)} :
    \E o \in {CheckState(x, op[x], t, late, ends)} :
    \E revert \in {ToRevert(o, w)}, ask \in {ToAsk(o, w, due)} :
    \E new \in {{Request(x, v, w, o.revert) : v \in revert} \cup {Request(x, v, w, Type) : v \in ask}} :
        /\ op' = [op EXCEPT ![x] = o]
        /\ vote' = [vote EXCEPT ![x] =
                [v \in Votes |-> CASE v \in revert -> Reverted(w[v], o.revert)
                                   [] v \in ask -> Asked(w[v])
                                   [] OTHER -> w[v]]]
        /\ requests' = requests \cup new
        /\ calls' = otherCalls \cup {req \in new : IsCall(req)}

Running(x) == op[x].started /\ ~op[x].assertFailed

\* The votes with a rejection.  Each sets the timer for a retry, as long as it was not
\* asked too often; the retry may or may not be due.
Rejections(x) == {v \in Votes : HasResult(vote[x][v]) /\ ~vote[x][v].safe}

Retries(x) == SUBSET {v \in Rejections(x) : vote[x][v].count < MaxRequestPerVoter}

\* Failing is possible n times, up to the bound.
Failing(n) == failures + n <= MaxFailures /\ failures' = failures + n

One(b) == IF b THEN 1 ELSE 0

-----------------------------------------------------------------------------
(***************************************************************************)
(* The steps of a side.                                                    *)
(***************************************************************************)

\* VoteManager::Arbitrate and Start: every arbiter is asked.
Start(x) ==
    /\ ~op[x].started
    /\ op' = [op EXCEPT ![x].started = TRUE]
    /\ vote' = [vote EXCEPT ![x] = [v \in Votes |-> Asked(vote[x][v])]]
    /\ LET new == {Request(x, v, vote[x], Type) : v \in Votes}
       IN  requests' = requests \cup new /\ calls' = calls \cup new
    /\ UNCHANGED <<lease, arbiter, replies, failures>>

\* ProcessResult with a reply in time: it counts only while the vote is pending, and
\* not for a vote that was given back.
ProcessReply(x) ==
    \E m \in replies, due \in Retries(x) :
        LET v == m.from
            w == [vote[x] EXCEPT ![v] =
                    IF @.reverted THEN [@ EXCEPT !.pending = FALSE]
                    ELSE [@ EXCEPT !.pending = FALSE, !.answered = TRUE, !.granted = m.granted,
                                   !.safe = ~m.rejected, !.reported = m.reported,
                                   !.strong = m.strong, !.continuous = m.continuous,
                                   !.delayed = m.delayed]]
        IN  /\ Running(x) /\ m.to = x /\ m.kind = "reply"
            /\ replies' = replies \ {m}
            /\ \E c \in calls :
                /\ c.from = x /\ c.to = v /\ c.number = m.number
                /\ IF vote[x][v].pending
                   THEN RunStateMachine(x, w, due, FALSE, FALSE, calls \ {c})
                   ELSE due = {} /\ calls' = calls \ {c} /\ UNCHANGED <<op, vote, requests>>
            /\ UNCHANGED <<lease, arbiter, failures>>

\* ProcessResult with an error: the call failed or its reply is too late,
\* whether or not the request was or will be processed.  The call of a
\* RevertToReject always ends so, because that request has no reply.
ProcessError(x) ==
    \E c \in calls, due \in Retries(x), ends \in BOOLEAN :
        LET w == [vote[x] EXCEPT ![c.to].pending = FALSE]
        IN  /\ Running(x) /\ c.from = x
            /\ Failing(One(c.type # RevertToReject) + One(ends))
            /\ IF vote[x][c.to].pending
               THEN RunStateMachine(x, w, due, FALSE, ends, calls \ {c})
               ELSE /\ due = {} /\ ~ends
                    /\ calls' = calls \ {c} /\ UNCHANGED <<op, vote, requests>>
            /\ replies' = {m \in replies : ~(m.kind = "reply" /\ m.to = x /\ m.from = c.to /\ m.number = c.number)}
            /\ UNCHANGED <<lease, arbiter>>

\* ProcessDelayedReply.
DelayedVote(w, m) ==
    LET flagged == [w EXCEPT !.strong = m.strong, !.continuous = m.continuous]
        merged == CASE m.granted /\ ~w.granted -> [flagged EXCEPT !.granted = TRUE, !.safe = TRUE]
                    [] ~m.granted /\ ~w.safe -> [flagged EXCEPT !.safe = TRUE]
                    [] OTHER -> w
    IN  CASE w.reverted -> w
          [] ~w.reverted /\ HasResult(w) ->
                [merged EXCEPT !.reported = @ \/ m.reported, !.delayed = FALSE]
          [] OTHER -> [w EXCEPT !.answered = TRUE, !.pending = FALSE, !.granted = m.granted,
                                !.safe = TRUE, !.reported = m.reported, !.strong = m.strong,
                                !.continuous = m.continuous, !.delayed = FALSE]

ProcessDelayedReply(x) ==
    \E m \in replies, due \in Retries(x), ends \in BOOLEAN :
        /\ Running(x) /\ m.to = x /\ m.kind = "delayed"
        /\ Failing(One(ends))
        /\ replies' = replies \ {m}
        /\ RunStateMachine(x, [vote[x] EXCEPT ![m.from] = DelayedVote(@, m)], due, FALSE, ends, calls)
        /\ UNCHANGED <<lease, arbiter>>

\* OnTimer: a retry is due, the time to give back has come, or time is up.  The timer
\* is not set back when the vote it was set for is asked again, so that it may also
\* find nothing due.
OnTimer(x) ==
    \E due \in Retries(x), late, ends \in BOOLEAN :
        /\ Running(x) /\ ~op[x].completed
        /\ Rejections(x) # {} \/ late \/ ends
        /\ Failing(One(late) + One(ends))
        /\ RunStateMachine(x, vote[x], due, late, ends, calls)
        /\ UNCHANGED <<lease, arbiter, replies>>

-----------------------------------------------------------------------------
(***************************************************************************)
(* The steps of an arbiter, by the rules of ArbitrationTable.              *)
(***************************************************************************)

ReplyTo(req, a) ==
    LET d == a.decision[req.from]
    IN  [kind |-> "reply", to |-> req.from, from |-> req.to, number |-> req.number,
         granted |-> d = Grant, rejected |-> d = Reject,
         reported |-> IsPresent(a.decision[Other(req.from)]),
         strong |-> a.strong[req.from], continuous |-> req.to \in Continuous,
         delayed |-> d = Delay]

DelayedReplyTo(x, v, a, reported) ==
    [kind |-> "delayed", to |-> x, from |-> v, number |-> 0,
     granted |-> a.decision[x] = Grant, rejected |-> FALSE, reported |-> reported,
     strong |-> a.strong[x], continuous |-> v \in Continuous, delayed |-> FALSE]

\* A reply to a call that has already failed is dropped by the transport.
Answer(req, a) == {m \in {ReplyTo(req, a)} : req \in calls}

\* A request that asks for a decision.  An arbiter that restarted knows too
\* little of the past and rejects; otherwise MakeDecision.
Decide ==
    \E req \in requests :
        LET v == req.to
            x == req.from
            y == Other(x)
            a == arbiter[v]
            first == ~IsPresent(a.decision[x]) /\ ~IsPresent(a.decision[y])
            compared == first /\ FirstVerdicts(Type, v \in Continuous) = {Grant, Reject}
        IN  /\ req.type \in TwoWayTypes
            /\ \E d \in IF a.restarted THEN {[a.decision EXCEPT ![x] = Reject]}
                        ELSE AskOutcomes(Type, v \in Continuous, a.decision, x, y) :
               \E strong \in IF a.restarted \/ ~compared
                             THEN {a.strong[x] \/ (~a.restarted /\ IsPresent(a.decision[y]) /\ a.strong[y])}
                             ELSE BOOLEAN :
                LET b == [a EXCEPT !.decision = d, !.strong = [@ EXCEPT ![x] = strong]]
                IN  /\ arbiter' = [arbiter EXCEPT ![v] = b]
                    /\ replies' = replies \cup Answer(req, b)
                          \cup (IF d[y] # a.decision[y] THEN {DelayedReplyTo(y, v, b, TRUE)} ELSE {})
            /\ requests' = requests \ {req}
            /\ UNCHANGED <<lease, vote, op, calls, failures>>

\* ProcessRevertRequest.
HandleRevert ==
    \E req \in requests :
        LET v == req.to
            y == Other(req.from)
            a == arbiter[v]
            b == [a EXCEPT !.decision = RevertOutcome(req.type, @, req.from, y)]
        IN  /\ req.type \in RevertTypes
            /\ arbiter' = [arbiter EXCEPT ![v] = b]
            /\ replies' = replies \cup (IF b.decision[y] # a.decision[y]
                                        THEN {DelayedReplyTo(y, v, b, TRUE)} ELSE {})
            /\ requests' = requests \ {req}
            /\ UNCHANGED <<lease, vote, op, calls, failures>>

GrantDelayedSilently ==
    \E v \in Votes, x \in Sides :
        /\ arbiter[v].decision[x] = Delay
        /\ arbiter' = [arbiter EXCEPT ![v].decision[x] = Grant]
        /\ UNCHANGED <<lease, vote, op, requests, calls, replies, failures>>

\* Compact: a delayed grant is given.
GrantDelayed ==
    \E v \in Votes, x \in Sides :
        LET b == [arbiter[v] EXCEPT !.decision = [@ EXCEPT ![x] = Grant]]
        IN  /\ arbiter[v].decision[x] = Delay
            /\ arbiter' = [arbiter EXCEPT ![v] = b]
            /\ replies' = replies \cup {DelayedReplyTo(x, v, b, FALSE)}
            /\ UNCHANGED <<lease, vote, op, requests, calls, failures>>

FreshArbiter(restarted) ==
    [decision |-> [x \in Sides |-> None], strong |-> [x \in Sides |-> FALSE], restarted |-> restarted]

RestartArbiter ==
    \E v \in Votes :
        /\ ~arbiter[v].restarted /\ Failing(1)
        /\ arbiter' = [arbiter EXCEPT ![v] = FreshArbiter(TRUE)]
        /\ UNCHANGED <<lease, vote, op, requests, calls, replies>>

-----------------------------------------------------------------------------

Init ==
    /\ lease \in Leases
    /\ arbiter = [v \in Votes |-> FreshArbiter(FALSE)]
    /\ vote = [x \in Sides |-> [v \in Votes |->
                [answered |-> FALSE, granted |-> FALSE, safe |-> TRUE, reported |-> FALSE,
                 strong |-> FALSE, continuous |-> FALSE, delayed |-> FALSE,
                 count |-> 0, pending |-> FALSE, reverted |-> FALSE]]]
    /\ op = [x \in Sides |->
                [started |-> FALSE, revert |-> Type, canRetry |-> FALSE, local |-> FALSE,
                 remoteDown |-> FALSE, partial |-> FALSE, completed |-> FALSE, assertFailed |-> FALSE]]
    /\ requests = {}
    /\ calls = {}
    /\ replies = {}
    /\ failures = 0

SideStep(x) == Start(x) \/ ProcessReply(x) \/ ProcessError(x) \/ ProcessDelayedReply(x) \/ OnTimer(x)

ArbiterStep == Decide \/ HandleRevert \/ GrantDelayed \/ RestartArbiter

Next == ArbiterStep \/ \E x \in Sides : SideStep(x)

Spec == Init /\ [][Next]_vars

\* Every message is delivered and processed, the arbiter's timer calls Compact
\* and the operation's timer fires as long as it has something to do.  An
\* operation is not obliged to start.
Fairness ==
    /\ WF_vars(Decide) /\ WF_vars(HandleRevert) /\ WF_vars(GrantDelayed)
    /\ \A x \in Sides :
        /\ WF_vars(ProcessReply(x)) /\ WF_vars(ProcessError(x))
        /\ WF_vars(ProcessDelayedReply(x)) /\ WF_vars(OnTimer(x))

FairSpec == Spec /\ Fairness

-----------------------------------------------------------------------------
(***************************************************************************)
(* Properties.                                                             *)
(***************************************************************************)

\* The lease, the arbiters, and the ArbitrationVotes and ArbitrationOperation of
\* each side have the types their code declares.
TypeOK ==
    /\ lease \in Leases
    /\ arbiter \in [Votes -> [decision: [Sides -> Decisions], strong: [Sides -> BOOLEAN], restarted: BOOLEAN]]
    /\ vote \in [Sides -> [Votes ->
            [answered: BOOLEAN, granted: BOOLEAN, safe: BOOLEAN, reported: BOOLEAN,
             strong: BOOLEAN, continuous: BOOLEAN, delayed: BOOLEAN,
             count: Nat, pending: BOOLEAN, reverted: BOOLEAN]]]
    /\ op \in [Sides -> [started: BOOLEAN, revert: TwoWayTypes \cup RevertTypes, canRetry: BOOLEAN,
                         local: BOOLEAN, remoteDown: BOOLEAN, partial: BOOLEAN,
                         completed: BOOLEAN, assertFailed: BOOLEAN]]

\* A side that is told its peer is down and a peer that is told it may live
\* exclude each other: the two lease agents never both go on, one of them
\* believing the other gone (CheckState's two majorities).  Arbitration_proofs
\* proves it for leases of which all arbiters know the same; where only some of
\* five arbiters remember an earlier lease it can fail (see the README).
NoSplitVerdict ==
    \A x \in Sides : ~(op[x].remoteDown /\ op[Other(x)].local)

\* When no call fails, no arbiter restarts and nobody runs out of time, the
\* arbitration does not end with both sides told to go down: the rejections
\* are spread so that one majority, or one tie-break, saves a side
\* (IsLocalPreferred, RevertToReject, the retries).
SomebodySurvives ==
    failures = 0 => \E x \in Sides : ~(op[x].completed /\ ~op[x].local)

\* A started arbitration ends by its answers, without waiting for its time
\* to run out, as long as calls succeed: no delayed grant, given back grant or
\* retry leaves it short of an answer.  (It may instead run into the failing
\* assertion of CheckState.)
Settles ==
    \A x \in Sides :
        op[x].started ~> op[x].completed \/ \E y \in Sides : op[y].assertFailed

\* The assertion of CheckState: what was reported as granted stays granted.
PartialStaysGranted == \A x \in Sides : ~op[x].assertFailed

============================================================================
