------------------------ MODULE MC_ArbitrationTable ------------------------
(* Instances of ArbitrationTable for TLC. *)
EXTENDS ArbitrationLease, TLC

CONSTANTS a, b, c

Req(type, m, mi, s, si, ttl, ml, sl) ==
    [type |-> type, monitor |-> m, monitorInstance |-> mi, subject |-> s, subjectInstance |-> si,
     subjectTTL |-> ttl, historyNeeded |-> 1, monitorLease |-> ml, subjectLease |-> sl,
     arbitration1 |-> 0, arbitration2 |-> 0, fromDown |-> FALSE]

\* One lease between a and b, arbitrated and given back by both sides.
BothSides(type, ml, sl) ==
    {Req(type, a, 1, b, 1, 1, ml, sl), Req(type, b, 1, a, 1, 0, sl, ml)}

ExtendedRequests ==
    BothSides(TwoWayExtended, 1, 1) \cup BothSides(RevertToNeutral, 1, 1)
    \cup {Req(RevertToReject, b, 1, a, 1, 0, 1, 1), Req(TwoWayExtended, a, 1, b, 1, 1, 2, 2)}

ExtendedTypes == {TwoWayExtended}

SimpleTypes == {TwoWaySimple}

\* The other kinds of request: a simple lease between a and b, a one-way
\* lease of c on a, implicit arbitration between a and c, a new instance of
\* a, and requests that change no decision.
MixedRequests ==
    BothSides(TwoWaySimple, 1, 1) \cup
    {Req(RevertToReject, a, 1, b, 1, 0, 1, 1),
     Req(OneWay, c, 1, a, 1, 0, 0, 1),
     Req(TwoWayExtended, a, 1, c, 1, 1, 1, 0),
     [Req(Implicit, a, 1, c, 1, 0, 0, 0) EXCEPT !.arbitration1 = 1],
     Req(Implicit, c, 1, a, 1, 0, 0, 0),
     Req(KeepAlive, b, 1, a, 1, 0, 1, 1),
     Req(KeepAlive, a, 2, b, 1, 0, 1, 1),
     Req(Query, b, 1, a, 1, 0, 0, 0),
     [Req(TwoWaySimple, b, 1, a, 1, 0, 1, 1) EXCEPT !.fromDown = TRUE]}

\* Between a and b every arbitration is simple, or none is.
ASSUME VersionAssumption == OneVersion

\* What the last step sent does not influence the steps that follow.
TableView == <<now, historyStart, lastCompact, nodes, records, state, delayed, created>>

============================================================================
