-------------------------- MODULE ArbitrationTable --------------------------
(***************************************************************************)
(* One arbiter (a seed node's ArbitrationTable): the history it keeps of   *)
(* every lease agent that asked or was asked about, the record pairs that  *)
(* hold the decision for each side of a lease, and the requests and the    *)
(* periodic compaction that change them.  Every operation runs under the   *)
(* table's lock, so each is one step.                                      *)
(*                                                                         *)
(* Records are numbered in the order of their creation.  A node's list,    *)
(* which grows at its head only, is the set of its records in decreasing   *)
(* order of number.  The suspicion counters of a NodeHistory are the       *)
(* numbers of its records in each state, so they are operators here.       *)
(***************************************************************************)
EXTENDS Integers, FiniteSets, ArbitrationDecision

CONSTANTS
    Nodes,                 \* lease agent ids
    Requests,              \* the requests that may arrive
    LeaseDuration, MaxLeaseDuration, MaxArbitrationTimeout,
    MaxImplicitLeaseInterval, SuspicionExpireInterval,
    DelayInterval, CleanupInterval,
    WeakLevel, StrongLevel, RejectLevel,
    SuspicionThreshold, KeepAliveThreshold, ComparisonThreshold, ReportThreshold,
    StartTime, MaxTime,    \* bounds on the clock
    MaxRecords             \* bound on the records ever created

\* How long CompactInternal and ProcessImplicitRequest keep a record.
RecordKeepInterval ==
    MaxImplicitLeaseInterval + 2 * MaxLeaseDuration + 2 * MaxArbitrationTimeout

ASSUME TimeAssumption ==
    /\ {LeaseDuration, MaxLeaseDuration, MaxArbitrationTimeout, MaxImplicitLeaseInterval,
        SuspicionExpireInterval, DelayInterval, CleanupInterval, StartTime, MaxTime} \subseteq Nat
    /\ StartTime > RecordKeepInterval + LeaseDuration
    /\ DelayInterval <= RecordKeepInterval
    /\ MaxRecords \in Nat

RequestType ==
    [type: ArbitrationTypes, monitor: Nodes, monitorInstance: Nat,
     subject: Nodes, subjectInstance: Nat, subjectTTL: Nat, historyNeeded: Nat,
     monitorLease: Nat, subjectLease: Nat, arbitration1: Nat, arbitration2: Nat,
     fromDown: BOOLEAN]

\* A lease agent does not arbitrate with itself, and a record is never about
\* a shut down requester.
ASSUME RequestAssumption ==
    /\ Requests \subseteq RequestType
    /\ \A req \in Requests : req.monitor # req.subject

\* Between two lease agents of which one has the old lease version every arbitration is
\* simple, and only a grant of an extended one can be given back as neutral
\* (SiteNode::Arbitrate, CheckState; the lease layer fails a one-way lease with an
\* agent of the old version instead of arbitrating it, Leases.cpp:1172).  The version
\* belongs to the agent's instance.
OneVersion ==
    \A req \in Requests, other \in Requests :
        /\ req.type = TwoWaySimple
        /\ \/ /\ other.monitor = req.monitor /\ other.monitorInstance = req.monitorInstance
              /\ other.subject = req.subject /\ other.subjectInstance = req.subjectInstance
           \/ /\ other.monitor = req.subject /\ other.monitorInstance = req.subjectInstance
              /\ other.subject = req.monitor /\ other.subjectInstance = req.monitorInstance
        => other.type \notin {TwoWayExtended, OneWay, RevertToNeutral}

RecordStates ==
    {"None", "Pending", "Confirmed", "Reported", "Reported2", "Rejected", "Expired", "Implicit"}

NoPeer == 0

VARIABLES
    now,            \* Stopwatch::Now()
    historyStart,   \* historyStartTime_
    lastCompact,    \* lastCompactTime_
    nodes,          \* nodes_: for the lease agents known, their NodeHistory
    records,        \* the records alive, by number
    state,          \* their state_
    delayed,        \* delayed_: numbers of the records whose grant is delayed
    created,        \* how many records were ever created
    sent            \* what the last step sent

vars == <<now, historyStart, lastCompact, nodes, records, state, delayed, created, sent>>

RecordType ==
    [node: Nodes, monitorInstance: Nat, subject: Nodes, subjectInstance: Nat,
     monitorLease: Nat, subjectLease: Nat, processTime: Int, expireTime: Int,
     strong: BOOLEAN, continuous: BOOLEAN, delayed: BOOLEAN,
     peer: Nat, decision: Decisions, arbitration1: Nat, arbitration2: Nat]

\* f, and g where f is not defined.
f \oplus g == [x \in DOMAIN f \cup DOMAIN g |-> IF x \in DOMAIN f THEN f[x] ELSE g[x]]

-----------------------------------------------------------------------------
(***************************************************************************)
(* NodeHistory: the list of a node's records and its suspicion level.      *)
(***************************************************************************)

RecordsOf(rs, n) == {r \in DOMAIN rs : rs[r].node = n}

InStates(rs, st, n, S) == Cardinality({r \in RecordsOf(rs, n) : st[r] \in S})

ReportedCount(rs, st, n) == InStates(rs, st, n, {"Reported", "Reported2", "Rejected"})

RawSuspicionLevel(rs, st, n) ==
      InStates(rs, st, n, {"Pending", "Reported2"}) * WeakLevel
    + InStates(rs, st, n, {"Reported"}) * StrongLevel
    + InStates(rs, st, n, {"Rejected"}) * RejectLevel

\* The first part of ArbitrationRecord::UpdateState: a report by a node that
\* is itself reported often enough counts less.
ReportedAs(rs, st, r) ==
    IF ReportedCount(rs, st, rs[rs[r].peer].node) >= ReportThreshold
    THEN "Reported2" ELSE "Reported"

\* NodeHistory::UpdateRecordState, once the states st have become next: when
\* a node comes to be reported often, what it reported of others counts less.
Settled(rs, st, next) ==
    LET Crossed(n) == /\ ReportedCount(rs, st, n) < ReportThreshold
                      /\ ReportedCount(rs, next, n) >= ReportThreshold
        downgraded == {q \in DOMAIN next : /\ next[q] = "Reported"
                                           /\ rs[q].peer # NoPeer
                                           /\ Crossed(rs[rs[q].peer].node)}
    IN  [q \in downgraded |-> "Reported2"] \oplus next

\* ArbitrationRecord::UpdateState.
UpdateState(rs, st, r, s) ==
    Settled(rs, st, [q \in {r} |-> IF s = "Reported" THEN ReportedAs(rs, st, r) ELSE s] \oplus st)

\* ArbitrationRecord::set_Decision, on the states.
DecisionState(rs, st, r, d) ==
    LET p == rs[r].peer
        own == IF st[r] = "Rejected" THEN UpdateState(rs, st, r, "Reported") ELSE st
    IN  CASE st[r] = "Implicit" -> st
          [] st[r] # "Implicit" /\ d = Reject -> UpdateState(rs, st, r, "Rejected")
          [] OTHER -> IF d = Grant /\ p # NoPeer /\ ~IsPresent(rs[p].decision)
                      THEN UpdateState(rs, own, p, "Rejected") ELSE own

\* ArbitrationRecord::UpdateRequest, on the states.
RequestState(rs, st, r, ttl) ==
    LET p == rs[r].peer
    IN  CASE ~IsPresent(rs[p].decision) ->
                UpdateState(rs, UpdateState(rs, st, r, IF ttl > 0 THEN "Pending" ELSE "Confirmed"),
                            p, "Reported")
          [] IsPresent(rs[p].decision) /\ st[p] = "Pending" -> UpdateState(rs, st, p, "Reported")
          [] OTHER -> st

\* NodeHistory::GetSuspicionLevel ages the records of n before it counts.
Aged(rs, st, n) ==
    LET expired == {r \in RecordsOf(rs, n) : rs[r].processTime < now - SuspicionExpireInterval}
        confirmed == {r \in RecordsOf(rs, n) \ expired : st[r] = "Pending" /\ rs[r].expireTime < now}
        over == {r \in RecordsOf(rs, n) \ expired :
                    st[r] = "Rejected" /\ rs[r].processTime < now - MaxArbitrationTimeout}
    IN  [r \in expired |-> "Expired"] \oplus [r \in confirmed |-> "Confirmed"]
            \oplus [r \in over |-> ReportedAs(rs, st, r)] \oplus st

\* IsSuspicious consults the aged level only when the raw one is high.
SuspicionAged(rs, st, n, threshold) ==
    IF RawSuspicionLevel(rs, st, n) < threshold THEN st ELSE Aged(rs, st, n)

IsSuspicious(rs, st, n, threshold) ==
    RawSuspicionLevel(rs, SuspicionAged(rs, st, n, threshold), n) >= threshold

-----------------------------------------------------------------------------
(***************************************************************************)
(* Looking up nodes and records.                                           *)
(***************************************************************************)

\* GetNodeHistory(instance, create) with UpdateInstance: a newer instance
\* takes back the rejections of the older one.
TouchedNodes(n, instance) ==
    IF n \in DOMAIN nodes
    THEN [nodes EXCEPT ![n].instance = IF instance > @ THEN instance ELSE @]
    ELSE nodes

CreatedNodes(h, n, instance) ==
    h \oplus [k \in {n} |-> [instance |-> instance, lastReceived |-> 0]]

InstanceState(h, rs, st, n, instance) ==
    IF n \in DOMAIN h /\ instance > h[n].instance
    THEN [r \in {q \in RecordsOf(rs, n) : st[q] = "Rejected"} |-> ReportedAs(rs, st, r)] \oplus st
    ELSE st

LeaseInstanceMatched(i, j) == i = 0 \/ j = 0 \/ i = j

HistoryNeeded(req) ==
    IF req.historyNeeded = 0 THEN MaxLeaseDuration + MaxArbitrationTimeout ELSE req.historyNeeded

TimeBound(req) == now - HistoryNeeded(req)

SearchedWithoutMargin(rs, req) ==
    {r \in RecordsOf(rs, req.monitor) :
        \A q \in RecordsOf(rs, req.monitor) : q >= r => rs[q].processTime >= TimeBound(req)}

\* NodeHistory::GetRecord walks the list from its head and stops at the
\* first record that is too old.
Searched(rs, req) ==
    {r \in RecordsOf(rs, req.monitor) :
        \A q \in RecordsOf(rs, req.monitor) :
            q >= r => rs[q].processTime >= TimeBound(req) - SuspicionExpireInterval}

OfSession(rs, st, req) ==
    {r \in Searched(rs, req) :
        /\ rs[r].monitorInstance = req.monitorInstance
        /\ rs[r].subject = req.subject
        /\ rs[r].subjectInstance = req.subjectInstance
        /\ st[r] # "Implicit"}

Matching(rs, st, req) ==
    {r \in OfSession(rs, st, req) :
        /\ LeaseInstanceMatched(rs[r].monitorLease, req.monitorLease)
        /\ LeaseInstanceMatched(rs[r].subjectLease, req.subjectLease)}

Latest(S) == CHOOSE r \in S : \A q \in S : q <= r

FoundHistory(rs, st, req) ==
    IF Matching(rs, st, req) # {}
    THEN rs[Latest(Matching(rs, st, req))].continuous
    ELSE OfSession(rs, st, req) # {}

-----------------------------------------------------------------------------
(***************************************************************************)
(* Deciding a request of type TwoWaySimple, TwoWayExtended or OneWay.      *)
(***************************************************************************)

Received(h, n) == now < h[n].lastReceived + LeaseDuration

OldEnough == now >= historyStart + SuspicionExpireInterval

\* MakeDecision's comparison of the two suspicion levels.
Compared(h, monitorLevel, subjectLevel, monitor, subject) ==
    LET suspect == /\ monitorLevel >= subjectLevel + ComparisonThreshold
                   /\ ~Received(h, monitor) \/ Received(h, subject)
        silent == ~Received(h, monitor) /\ Received(h, subject)
        trusted == subjectLevel >= monitorLevel + ComparisonThreshold
    IN  [decision |-> IF suspect \/ silent THEN Reject ELSE Grant,
         strong |-> OldEnough /\ (suspect \/ (~silent /\ trusted))]

\* MakeDecision's last part, reached when neither side has asked before: the
\* decision, whether it is strong, and the states after the ageing that
\* reading the suspicion levels causes.
FirstVerdict(h, rs, st, req, continuous) ==
    LET m == req.monitor
        s == req.subject
        both == Aged(rs, Aged(rs, st, m), s)
        compared == Compared(h, RawSuspicionLevel(rs, both, m), RawSuspicionLevel(rs, both, s), m, s)
        spared == Received(h, s) /\ ~IsSuspicious(rs, st, s, KeepAliveThreshold)
        st1 == IF Received(h, s) THEN SuspicionAged(rs, st, s, KeepAliveThreshold) ELSE st
        st2 == IF spared THEN st1 ELSE SuspicionAged(rs, st1, m, SuspicionThreshold)
    IN  IF continuous \/ req.type = TwoWaySimple
        THEN [decision |-> compared.decision, strong |-> compared.strong, state |-> both]
        ELSE [decision |-> IF spared \/ IsSuspicious(rs, st1, m, SuspicionThreshold)
                           THEN Delay ELSE Grant,
              strong |-> FALSE, state |-> st2]

\* What a request makes of the pair (m, s): the new decision of m, the new
\* decision of s, whether m becomes strong, and the states.
Outcome(h, rs, st, req, m, s, continuous) ==
    LET first == FirstVerdict(h, rs, st, req, continuous)
        against == AgainstPresent(req.type, rs[s].decision)
        reported == SubjectAfterReport(rs[s].decision)
        shared == IF reported # rs[s].decision THEN DecisionState(rs, st, s, reported) ELSE st
        Made(d, subject, strong, st1) ==
            [decision |-> d, subject |-> subject, strong |-> strong,
             state |-> DecisionState([rs EXCEPT ![s].decision = subject], st1, m, d)]
        young == historyStart > TimeBound(req)
    IN  CASE young -> Made(Reject, rs[s].decision, FALSE, st)
          [] ~young /\ IsPresent(rs[s].decision) ->
                Made(against, reported, rs[s].strong, shared)
          [] ~young /\ ~IsPresent(rs[s].decision) /\ req.type = OneWay ->
                Made(Neutral, None, FALSE, st)
          [] OTHER ->
                IF IsPresent(rs[m].decision)
                THEN [decision |-> rs[m].decision, subject |-> None, strong |-> FALSE, state |-> st]
                ELSE Made(first.decision, None, first.strong, first.state)

NewRecord(n, instance, subject, subjectInstance, lease, subjectLease, peer, continuous) ==
    [node |-> n, monitorInstance |-> instance, subject |-> subject, subjectInstance |-> subjectInstance,
     monitorLease |-> lease, subjectLease |-> subjectLease, processTime |-> now, expireTime |-> MaxTime + 1,
     strong |-> FALSE, continuous |-> continuous, delayed |-> FALSE, peer |-> peer, decision |-> None,
     arbitration1 |-> 0, arbitration2 |-> 0]

-----------------------------------------------------------------------------
(***************************************************************************)
(* The operations.                                                         *)
(***************************************************************************)

\* ArbitrationReplyBody: a granting reply carries a finite SubjectTTL, a
\* rejecting one a zero MonitorTTL.
Reply(to, d, subjectReported, r) ==
    [kind |-> "reply", to |-> to, granted |-> d = Grant, rejected |-> d = Reject,
     reported |-> subjectReported, strong |-> r.strong, continuous |-> r.continuous,
     delayed |-> r.delayed]

DelayedReplyNeverGrants(r, d, subjectReported) ==
    [kind |-> "delayed", to |-> r.node, granted |-> FALSE, rejected |-> d = Reject,
     reported |-> subjectReported, strong |-> r.strong, continuous |-> r.continuous,
     delayed |-> r.delayed]

\* DelayedArbitrationReplyBody, sent to the node of r.
DelayedReply(r, d, subjectReported) ==
    [kind |-> "delayed", to |-> r.node, granted |-> d = Grant, rejected |-> d = Reject,
     reported |-> subjectReported, strong |-> r.strong, continuous |-> r.continuous,
     delayed |-> r.delayed]

\* A request from an older instance than the one known is ignored.
Current(req) ==
    req.monitor \in DOMAIN nodes => nodes[req.monitor].instance <= req.monitorInstance

\* GetNodeHistory(request.Monitor, true) and ReceiveRequest.
MonitorNodes(req) ==
    [CreatedNodes(TouchedNodes(req.monitor, req.monitorInstance), req.monitor, req.monitorInstance)
        EXCEPT ![req.monitor].lastReceived = now]

MonitorState(req) == InstanceState(nodes, records, state, req.monitor, req.monitorInstance)

\* The pair a request works on: the one GetRecord finds, or a new one.
FoundPair(req) ==
    LET m == Latest(Matching(records, state, req))
    IN  [m |-> m, s |-> records[m].peer, records |-> records,
         state |-> MonitorState(req), nodes |-> MonitorNodes(req)]

NewPair(req) ==
    LET m == created + 1
        s == created + 2
        continuous == FoundHistory(records, state, req)
        h == MonitorNodes(req)
        touched == IF req.subject \in DOMAIN h /\ req.subjectInstance > h[req.subject].instance
                   THEN [h EXCEPT ![req.subject].instance = req.subjectInstance] ELSE h
        st == InstanceState(h, records, MonitorState(req), req.subject, req.subjectInstance)
    IN  [m |-> m, s |-> s,
         records |->
            [q \in {m} |-> NewRecord(req.monitor, req.monitorInstance, req.subject, req.subjectInstance,
                            req.monitorLease, req.subjectLease, s, FALSE)]
            \oplus [q \in {s} |-> NewRecord(req.subject, req.subjectInstance, req.monitor, req.monitorInstance,
                               req.subjectLease, req.monitorLease, m, continuous)]
            \oplus records,
         state |-> [r \in {m, s} |-> "None"] \oplus st,
         nodes |-> CreatedNodes(touched, req.subject, req.subjectInstance)]

\* UpdateRequest, on the records.
Requested(rs, m, req) ==
    IF IsPresent(rs[m].decision) THEN rs
    ELSE [rs EXCEPT ![m].processTime = now, ![m].expireTime = now + req.subjectTTL]

\* The records after a request has been decided with outcome o.
Decided(rs, m, s, o, continuous) ==
    [rs EXCEPT ![m].decision = o.decision,
               ![m].strong = @ \/ o.strong,
               ![m].continuous = @ \/ continuous,
               ![m].delayed = @ \/ o.decision = Delay,
               ![s].decision = o.subject,
               ![s].delayed = @ /\ o.subject = rs[s].decision]

\* The states after UpdateRequest.
AskedState(p, asked, req) ==
    IF IsPresent(p.records[p.m].decision) THEN p.state
    ELSE RequestState(asked, p.state, p.m, req.subjectTTL)

\* What the request leaves behind and sends, given the pair p, its records
\* after UpdateRequest and the outcome o; found is empty if the pair is new.
Answered(req, p, asked, o, continuous, found) ==
    \E decided \in {Decided(asked, p.m, p.s, o, continuous)} :
        /\ records' = decided
        /\ state' = o.state
        /\ nodes' = p.nodes
        /\ created' = IF found = {} THEN created + 2 ELSE created
        /\ delayed' = IF o.decision = Delay /\ ~IsPresent(asked[p.m].decision)
                      THEN delayed \cup {p.m} ELSE delayed
        /\ sent' = {Reply(req.monitor, o.decision, IsPresent(o.subject), decided[p.m])}
                   \cup IF o.subject # asked[p.s].decision
                        THEN {DelayedReply(decided[p.s], Neutral, TRUE)} ELSE {}
        /\ UNCHANGED <<now, historyStart, lastCompact>>

\* InternalProcessRequest for TwoWaySimple, TwoWayExtended and OneWay.  A
\* record without a peer is an implicit one that has aged: dereferencing its
\* peer ends the process, which Restart allows at any time.
Arbitrate(req) ==
    /\ req.type \in TwoWayTypes \cup {OneWay}
    /\ Current(req) /\ ~req.fromDown
    /\ \E found \in {Matching(records, state, req)}, continuous \in {FoundHistory(records, state, req)} :
       \E p \in {IF found = {} THEN NewPair(req) ELSE FoundPair(req)} :
        /\ p.s # NoPeer
        /\ found = {} => created + 2 <= MaxRecords
        /\ \E asked \in {Requested(p.records, p.m, req)} :
           \E st \in {AskedState(p, asked, req)} :
           \E o \in {Outcome(p.nodes, asked, st, req, p.m, p.s, continuous)} :
               Answered(req, p, asked, o, continuous, found)

\* ProcessRevertRequest: the monitor gives back the grant it holds.
Revert(req) ==
    LET found == Matching(records, state, req)
        m == Latest(found)
        s == records[m].peer
        st == MonitorState(req)
        present == IsPresent(records[s].decision)
        own == [records EXCEPT ![m].decision = RevertedMonitor(req.type)]
        st1 == DecisionState(records, st, m, RevertedMonitor(req.type))
    IN  /\ req.type \in RevertTypes
        /\ Current(req) /\ ~req.fromDown
        /\ nodes' = MonitorNodes(req)
        /\ IF found # {} /\ records[m].decision = Grant
           THEN /\ s # NoPeer
                /\ records' = [own EXCEPT ![s].decision = IF present THEN RevertedSubject(req.type) ELSE @]
                /\ state' = CASE present -> DecisionState(own, st1, s, RevertedSubject(req.type))
                              [] ~present /\ st1[s] = "Rejected" -> UpdateState(own, st1, s, "Reported")
                              [] OTHER -> st1
                /\ sent' = IF present /\ records[s].monitorLease > 0
                           THEN {DelayedReply(records[s], RevertedSubject(req.type), TRUE)} ELSE {}
           ELSE records' = records /\ state' = st /\ sent' = {}
        /\ UNCHANGED <<now, historyStart, lastCompact, delayed, created>>

\* ProcessImplicitRequest: the request is recorded on its own, without a
\* peer, and weighed against the subject's last implicit record.
ImplicitRecords(rs, st, n) == {r \in RecordsOf(rs, n) : st[r] = "Implicit"}

\* The verdict the earlier decision and the counts of missed implicit leases
\* give, or None when they are too close to tell.
ByCounts(req, earlier) ==
    CASE earlier.decision = Reject -> Grant
      [] /\ earlier.decision = Grant
         /\ earlier.subject = req.monitor
         /\ earlier.subjectInstance = req.monitorInstance -> Reject
      [] OTHER ->
            IF req.arbitration2 = 0 /\ earlier.arbitration2 > 0 THEN Grant
            ELSE IF \/ req.arbitration2 > 0 /\ earlier.arbitration2 = 0
                    \/ req.arbitration1 > earlier.arbitration1 + 1 THEN Reject
            ELSE IF earlier.arbitration1 > req.arbitration1 + 1 THEN Grant
            ELSE None

\* Only then are the suspicion levels read, which ages the records.
ImplicitAged(req, earlier, st) ==
    IF ByCounts(req, earlier) # None THEN st
    ELSE Aged(records, Aged(records, st, req.monitor), req.subject)

ImplicitVerdict(req, earlier, st) ==
    LET aged == ImplicitAged(req, earlier, st)
        Level(n) == RawSuspicionLevel(records, aged, n)
    IN  CASE ByCounts(req, earlier) # None -> ByCounts(req, earlier)
          [] OTHER -> IF Level(req.subject) >= Level(req.monitor) + ComparisonThreshold
                      THEN Grant ELSE Reject

ImplicitRequest(req) ==
    LET h == MonitorNodes(req)
        st == InstanceState(h, records, MonitorState(req), req.subject, req.subjectInstance)
        earlier == IF req.subject \in DOMAIN h THEN ImplicitRecords(records, st, req.subject) ELSE {}
        weighed == /\ earlier # {}
                   /\ records[Latest(earlier)].processTime > now - RecordKeepInterval
        d == IF weighed THEN ImplicitVerdict(req, records[Latest(earlier)], st) ELSE Neutral
        m == created + 1
        st1 == IF weighed THEN ImplicitAged(req, records[Latest(earlier)], st) ELSE st
        new == [NewRecord(req.monitor, req.monitorInstance, req.subject, req.subjectInstance,
                          req.monitorLease, req.subjectLease, NoPeer, FALSE)
                    EXCEPT !.decision = d, !.arbitration1 = req.arbitration1,
                           !.arbitration2 = req.arbitration2]
    IN  /\ req.type = Implicit
        /\ Current(req) /\ ~req.fromDown
        /\ m <= MaxRecords
        /\ nodes' = IF req.subject \in DOMAIN h /\ req.subjectInstance > h[req.subject].instance
                    THEN [h EXCEPT ![req.subject].instance = req.subjectInstance] ELSE h
        /\ records' = [q \in {m} |-> new] \oplus records
        /\ state' = [q \in {m} |-> "Implicit"] \oplus st1
        /\ created' = m
        /\ sent' = {[Reply(req.monitor, d, FALSE, new) EXCEPT !.granted = FALSE]}
        /\ UNCHANGED <<now, historyStart, lastCompact, delayed>>

\* KeepAlive: the arbiter only remembers that the node was heard.
KeepAliveRequest(req) ==
    /\ req.type = KeepAlive
    /\ Current(req) /\ ~req.fromDown
    /\ nodes' = MonitorNodes(req)
    /\ state' = MonitorState(req)
    /\ sent' = {}
    /\ UNCHANGED <<now, historyStart, lastCompact, records, delayed, created>>

\* A request sent on behalf of a node the arbiter knows to be down.
RejectDown(req) ==
    /\ req.type # Query
    /\ Current(req) /\ req.fromDown
    /\ nodes' = CreatedNodes(TouchedNodes(req.monitor, req.monitorInstance), req.monitor, req.monitorInstance)
    /\ state' = MonitorState(req)
    /\ sent' = {[kind |-> "reply", to |-> req.monitor, granted |-> FALSE, rejected |-> TRUE,
                 reported |-> TRUE, strong |-> TRUE, continuous |-> FALSE, delayed |-> FALSE]}
    /\ UNCHANGED <<now, historyStart, lastCompact, records, delayed, created>>

\* ProcessQuery: since when the subject is known to be alive.
QueryRequest(req) ==
    LET alive == {r \in RecordsOf(records, req.subject) : records[r].decision \notin {None, Reject}}
    IN  /\ req.type = Query
        /\ nodes' = TouchedNodes(req.subject, req.subjectInstance)
        /\ state' = InstanceState(nodes, records, state, req.subject, req.subjectInstance)
        /\ sent' = {[kind |-> "query", to |-> req.monitor,
                     since |-> IF alive = {} THEN historyStart ELSE records[Latest(alive)].processTime]}
        /\ UNCHANGED <<now, historyStart, lastCompact, records, delayed, created>>

ProcessRequest(req) ==
    \/ Arbitrate(req)
    \/ Revert(req)
    \/ ImplicitRequest(req)
    \/ KeepAliveRequest(req)
    \/ RejectDown(req)
    \/ QueryRequest(req)

DelayExpiredIfPending ==
    {r \in delayed : /\ records[r].decision = Delay /\ state[r] = "Pending"
                     /\ records[r].processTime <= now - DelayInterval}

\* Compact, first part: the grants that were delayed long enough.
DelayExpired ==
    {r \in delayed : records[r].decision = Delay /\ records[r].processTime <= now - DelayInterval}

DelayMadeNeutral ==
    [r \in DOMAIN records |->
        IF r \in DelayExpired THEN [records[r] EXCEPT !.decision = Neutral, !.delayed = FALSE]
        ELSE records[r]]

DelayGranted ==
    [r \in DOMAIN records |->
        IF r \in DelayExpired THEN [records[r] EXCEPT !.decision = Grant, !.delayed = FALSE]
        ELSE records[r]]

DelayGrantedState ==
    LET confirmed == {r \in DelayExpired : state[r] = "Pending"}
        silent == {r \in DOMAIN records :
                    records[r].peer \in DelayExpired /\ ~IsPresent(records[r].decision)}
    IN  Settled(records, state,
            [r \in confirmed |-> "Confirmed"] \oplus [r \in silent |-> "Rejected"] \oplus state)

\* CompactInternal.  The nodes of P are visited before its time is up; each
\* loses the records at its tail that are older than the bound, and a record
\* goes with its peer.  R is the set of records that go.
Old(r) == records[r].processTime < now - RecordKeepInterval

PairOfOne(r) == {r}

PairOf(r) == {r, records[r].peer} \ {NoPeer}

Older(r) == {q \in RecordsOf(records, records[r].node) : q < r}

Compacted(P, R) ==
    /\ \A r \in R : PairOf(r) \subseteq R
    /\ \A r \in R : \E q \in PairOf(r) : records[q].node \in P /\ Old(q) /\ Older(q) \subseteq R
    /\ \A r \in DOMAIN records \ R :
            records[r].node \in P => \E q \in Older(r) \cup {r} : ~Old(q)

CleanupDue == now > lastCompact + CleanupInterval

\* What is left once the delays have ended and the records R are gone.
Remaining(P, R) ==
    LET bound == now - RecordKeepInterval
        kept == DOMAIN records \ R
        gone == {n \in P : {r \in kept : records[r].node = n} = {} /\ nodes[n].lastReceived < bound}
    IN  /\ records' = [r \in kept |-> DelayGranted[r]]
        /\ state' = [r \in kept |-> DelayGrantedState[r]]
        /\ nodes' = [n \in DOMAIN nodes \ gone |-> nodes[n]]
        /\ delayed' = {r \in delayed \ DelayExpired : records[r].decision = Delay}
        /\ historyStart' = IF CleanupDue /\ bound > historyStart THEN bound ELSE historyStart
        /\ lastCompact' = IF CleanupDue THEN now ELSE lastCompact
        /\ sent' = {DelayedReply(DelayGranted[r], Grant, FALSE) : r \in DelayExpired}
        /\ UNCHANGED <<now, created>>

Compact ==
    \/ ~CleanupDue /\ Remaining({}, {})
    \/ /\ CleanupDue
       /\ \E P \in SUBSET DOMAIN nodes :
          \E R \in SUBSET {r \in DOMAIN records : \E q \in PairOf(r) : Old(q)} :
              Compacted(P, R) /\ Remaining(P, R)

\* The arbiter's process ends and starts again with an empty table.
Restart ==
    /\ nodes' = [n \in {} |-> 0]
    /\ records' = [r \in {} |-> 0]
    /\ state' = [r \in {} |-> 0]
    /\ delayed' = {}
    /\ historyStart' = now
    /\ lastCompact' = now
    /\ sent' = {}
    /\ UNCHANGED <<now, created>>

Tick ==
    /\ now < MaxTime
    /\ now' = now + 1
    /\ sent' = {}
    /\ UNCHANGED <<historyStart, lastCompact, nodes, records, state, delayed, created>>

Init ==
    /\ now = StartTime
    /\ historyStart = StartTime
    /\ lastCompact = StartTime
    /\ nodes = [n \in {} |-> 0]
    /\ records = [r \in {} |-> 0]
    /\ state = [r \in {} |-> 0]
    /\ delayed = {}
    /\ created = 0
    /\ sent = {}

Next ==
    \/ \E req \in Requests : ProcessRequest(req)
    \/ Compact
    \/ Restart
    \/ Tick

Spec == Init /\ [][Next]_vars

-----------------------------------------------------------------------------
(***************************************************************************)
(* Properties.                                                             *)
(***************************************************************************)

\* What the table holds has the types its code declares, every record has a
\* state, and delayed_ only holds records that were created.
TypeOK ==
    /\ now \in Nat /\ historyStart \in Nat /\ lastCompact \in Nat
    /\ created \in Nat
    /\ DOMAIN nodes \subseteq Nodes
    /\ \A n \in DOMAIN nodes : nodes[n] \in [instance: Nat, lastReceived: Nat]
    /\ DOMAIN records \subseteq 1..created
    /\ \A r \in DOMAIN records : records[r] \in RecordType
    /\ DOMAIN state = DOMAIN records
    /\ \A r \in DOMAIN records : state[r] \in RecordStates
    /\ delayed \subseteq 1..created

\* Two records that are peers are the two sides of one lease.
PeersMatch ==
    \A r \in DOMAIN records :
        records[r].peer # NoPeer =>
            /\ records[r].peer \in DOMAIN records
            /\ records[r].peer # r
            /\ records[records[r].peer].peer = r
            /\ records[records[r].peer].node = records[r].subject
            /\ records[records[r].peer].subject = records[r].node

\* While one side of a lease holds a grant, or waits for a delayed one, the
\* other has either not asked or been rejected: the arbiter never lets both
\* sides outlive each other (MakeDecision, ProcessRevertRequest, Compact).
NoOpposingGrants ==
    \A r \in DOMAIN records :
        records[r].peer # NoPeer /\ records[r].decision \in {Grant, Delay} =>
            records[records[r].peer].decision \in {None, Reject}

\* delayed_ holds bare pointers: every one of them points to a record that
\* still exists, although compaction deletes records without looking there,
\* and no delayed decision is missing from it (it would stay delayed forever).
DelayedTracked ==
    /\ delayed \subseteq DOMAIN records
    /\ \A r \in DOMAIN records : records[r].decision = Delay => r \in delayed

\* A grant is taken back only by a request of the node that holds it; no
\* request of the other side, no timer and no compaction can withdraw it while
\* the record exists.
GrantKept ==
    [][\A r \in DOMAIN records :
        records[r].decision = Grant /\ r \in DOMAIN records' /\ records'[r].decision # Grant
            => \E req \in Requests : req.monitor = records[r].node /\ ProcessRequest(req)]_vars

\* Whatever changes a decision that its node already holds, other than a
\* request of that node, sends the node the new decision in the same step: the
\* end of a delay, the other side's report, the other side giving its grant
\* back.  A lease without instances (the old lease version) is not told.
ToldOfChange ==
    [][\A r \in DOMAIN records \cap DOMAIN records' :
        /\ IsPresent(records[r].decision) /\ records'[r].decision # records[r].decision
        /\ records[r].monitorLease > 0
        => \/ \E m \in sent' : /\ m.kind = "delayed" /\ m.to = records[r].node
                               /\ m.granted <=> records'[r].decision = Grant
                               /\ m.rejected <=> records'[r].decision = Reject
           \/ \E req \in Requests : req.monitor = records[r].node /\ ProcessRequest(req)]_vars

\* The assertion in MakeDecision: a TwoWaySimple request never meets a subject
\* that holds a neutral or delayed decision.
SimpleMeetsNoNeutral ==
    \A req \in Requests :
        LET found == Matching(records, state, req)
        IN  req.type = TwoWaySimple /\ found # {} /\ records[Latest(found)].peer # NoPeer
                => records[records[Latest(found)].peer].decision \in {None, Grant, Reject}

SameLease(r, q) ==
    /\ records[r].node = records[q].node /\ records[r].monitorInstance = records[q].monitorInstance
    /\ records[r].subject = records[q].subject /\ records[r].subjectInstance = records[q].subjectInstance
    /\ records[r].monitorLease = records[q].monitorLease /\ records[r].monitorLease > 0
    /\ records[r].subjectLease = records[q].subjectLease /\ records[r].subjectLease > 0

\* When the lease of r was first arbitrated.
FirstAsked(r) ==
    LET p == records[records[r].peer].processTime
    IN  IF p < records[r].processTime THEN p ELSE records[r].processTime

\* GetRecord stops at the first record that is too old, in a list that is not
\* sorted by time, and new lease instances and other nodes add records in
\* between.  Still a lease gets a second pair only after the first has been
\* there for the suspicion interval: until then both sides are decided on one.
OnePairPerLease ==
    \A r, q \in DOMAIN records :
        SameLease(r, q) /\ r < q /\ {records[r].peer, records[q].peer} \cap {NoPeer} = {}
            => FirstAsked(r) < FirstAsked(q) - SuspicionExpireInterval

=============================================================================
