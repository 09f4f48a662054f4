-------------------------- MODULE ArbitrationLease --------------------------
(***************************************************************************)
(* One lease, between two instances of lease agents, as an arbiter sees    *)
(* it: the decisions that ArbitrationTable holds for its two sides change  *)
(* as PairArbiter says.                                                    *)
(***************************************************************************)
EXTENDS ArbitrationTable

CONSTANTS
    Left, Right,                     \* the lease agents
    LeftInstance, RightInstance,     \* their instances
    LeftLease, RightLease,           \* the instance of the lease each monitors
    Kinds                            \* the types of arbitration they ask for

\* The request or record e, of the agent n, is about the other one.
Ends(e, n) ==
    \/ /\ n = Left /\ e.monitorInstance = LeftInstance
       /\ e.subject = Right /\ e.subjectInstance = RightInstance
    \/ /\ n = Right /\ e.monitorInstance = RightInstance
       /\ e.subject = Left /\ e.subjectInstance = LeftInstance

\* Leases have instances, and Kinds covers what the two agents ask for.
ASSUME LeaseAssumption ==
    /\ Left \in Nodes /\ Right \in Nodes /\ Left # Right
    /\ LeftLease \in Nat \ {0} /\ RightLease \in Nat \ {0}
    /\ Kinds \subseteq TwoWayTypes \cup {OneWay}
    /\ \A req \in Requests :
            req.type \in TwoWayTypes \cup {OneWay} /\ Ends(req, req.monitor) => req.type \in Kinds

\* The records of the left side of the lease.
LeftRecords(rs) ==
    {r \in DOMAIN rs :
        /\ rs[r].peer # NoPeer
        /\ rs[r].node = Left /\ Ends(rs[r], Left)
        /\ rs[r].monitorLease = LeftLease /\ rs[r].subjectLease = RightLease}

\* The decisions of both sides, which the latest pair holds.
DecisionsIn(rs) ==
    LET pairs == LeftRecords(rs)
        l == Latest(pairs)
    IN  [x \in {Left, Right} |->
            CASE pairs = {} -> None
              [] pairs # {} /\ x = Left -> rs[l].decision
              [] OTHER -> rs[rs[l].peer].decision]

LeaseDecisions == DecisionsIn(records)

Pair == INSTANCE PairArbiter WITH Sides <- {Left, Right}, Types <- Kinds, dec <- LeaseDecisions

\* The table, with its records, its ageing and its compaction, does to the decisions of
\* the lease only what PairArbiter allows.
ImplementsPair == Pair!Spec

=============================================================================
