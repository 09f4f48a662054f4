------------------------ MODULE ArbitrationDecision ------------------------
(***************************************************************************)
(* The vocabulary of lease arbitration in Federation: the decisions an     *)
(* arbiter keeps for the two sides of a lease, the request types, and the  *)
(* rules by which one side's decision follows from the other's.  The rules *)
(* are stated once here and used by the detailed arbiter                   *)
(* (ArbitrationTable), by the abstract one (PairArbiter) and by the        *)
(* protocol that runs against several arbiters (Arbitration).              *)
(***************************************************************************)

\* ArbitrationDecision::Enum.
None == "None"
Grant == "Grant"
Reject == "Reject"
Neutral == "Neutral"
Delay == "Delay"

Decisions == {None, Grant, Reject, Neutral, Delay}

\* ArbitrationType::Enum.
TwoWaySimple == "TwoWaySimple"
TwoWayExtended == "TwoWayExtended"
OneWay == "OneWay"
RevertToReject == "RevertToReject"
RevertToNeutral == "RevertToNeutral"
Implicit == "Implicit"
Query == "Query"
KeepAlive == "KeepAlive"

TwoWayTypes == {TwoWaySimple, TwoWayExtended}
RevertTypes == {RevertToReject, RevertToNeutral}
ArbitrationTypes == TwoWayTypes \cup RevertTypes \cup {OneWay, Implicit, Query, KeepAlive}

\* A record is present once its own node has asked: IsPresent().
IsPresent(d) == d # None

\* MakeDecision, when the subject has already asked: the monitor gets the
\* opposite of what the subject holds, or shares a neutral outcome with it.
AgainstPresent(type, subject) ==
    CASE subject = Grant -> Reject
      [] subject = Reject /\ type # OneWay -> Grant
      [] OTHER -> Neutral

SubjectKeepsDelay(subject) == subject

SubjectLosesGrant(subject) == IF subject \in {Delay, Grant} THEN Neutral ELSE subject

\* The same branch, on the subject's side: a subject whose grant was being
\* delayed becomes neutral once the other side reports.
SubjectAfterReport(subject) == IF subject = Delay THEN Neutral ELSE subject

\* MakeDecision, when neither side has asked before: what the comparison of
\* suspicion levels may give.  With no history of the lease an extended
\* request is granted or delayed; otherwise it is granted or rejected.
FirstVerdicts(type, continuous) ==
    IF type = TwoWayExtended /\ ~continuous THEN {Grant, Delay} ELSE {Grant, Reject}

\* MakeDecision on the decisions d of the two sides of a lease, when x asks
\* about y.
AskOutcomes(type, continuous, d, x, y) ==
    CASE IsPresent(d[y]) ->
            {[d EXCEPT ![x] = AgainstPresent(type, d[y]), ![y] = SubjectAfterReport(@)]}
      [] ~IsPresent(d[y]) /\ type = OneWay -> {[d EXCEPT ![x] = Neutral]}
      [] OTHER -> IF IsPresent(d[x]) THEN {d}
                  ELSE {[d EXCEPT ![x] = v] : v \in FirstVerdicts(type, continuous)}

RevertedMonitorAsType(type) == type

RevertedMonitorNeutral(type) == Neutral

\* ProcessRevertRequest: what a revert makes of the monitor's own grant, and
\* of the subject's decision when the subject has asked.
RevertedMonitor(type) == IF type = RevertToNeutral THEN Neutral ELSE Reject

RevertedSubject(type) == IF type = RevertToNeutral THEN Neutral ELSE Grant

\* The same on the decisions of the two sides, when x gives back a grant.
RevertOutcome(type, d, x, y) ==
    IF d[x] # Grant THEN d
    ELSE [d EXCEPT ![x] = RevertedMonitor(type),
                   ![y] = IF IsPresent(@) THEN RevertedSubject(type) ELSE @]

============================================================================
