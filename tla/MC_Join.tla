------------------------------ MODULE MC_Join ------------------------------
(***************************************************************************)
(* Small instances of Join for TLC: one ring node and two nodes that join  *)
(* and start over (JoinRestart), one that is overtaken by its own restart  *)
(* (JoinOvertaken), and two nodes that hand the locks of a ring of three   *)
(* or two to each other (JoinTransfer, JoinResolves).  Nodes are numbers,  *)
(* for their order counts: there is no symmetry.                           *)
(***************************************************************************)
EXTENDS Join, FiniteSetsExt

\* Every joining node j has asked the ring node asked[j] and has its answer; none
\* has heard of another.
LockingInit ==
    /\ \E asked \in [Joiners -> Members] :
         table = [n \in Nodes |-> [k \in Nodes |->
                    IF k \in Members THEN [inst |-> 1, phase |-> Routing]
                    ELSE IF k = n \/ asked[k] = n THEN [inst |-> 1, phase |-> Joining]
                    ELSE [inst |-> 0, phase |-> Booting]]]
    /\ whole = [n \in Nodes |-> TRUE]
    /\ stage = [n \in Nodes |-> IF n \in Members THEN "Routing" ELSE "Locking"]
    /\ entries = [n \in Nodes |-> NoEntries]
    /\ lock = [n \in Nodes |-> [owner |-> n, ownerInst |-> 1, id |-> 0, held |-> FALSE]]
    /\ calls = [n \in Nodes |-> {}]
    /\ msgs = {}
    /\ lapses = 0
    /\ overtaken = {}

FairLockingSpec == LockingInit /\ [][Next]_vars /\ Fairness

\* The first joining node has the lock of the first ring node, the last one has all
\* others.  The ring nodes know of those that have asked them, and no more.
Holder == [n \in Members |-> IF n = Min(Members) THEN Min(Joiners) ELSE Max(Joiners)]

ContestedInit ==
    /\ table = [n \in Nodes |-> [k \in Nodes |->
                 IF k \in Members THEN [inst |-> 1, phase |-> Routing]
                 ELSE IF k = n \/ (n \in Members /\ Holder[n] = k) THEN [inst |-> 1, phase |-> Joining]
                 ELSE [inst |-> 0, phase |-> Booting]]]
    /\ whole = [n \in Nodes |-> TRUE]
    /\ stage = [n \in Nodes |-> IF n \in Members THEN "Routing" ELSE "Locking"]
    /\ entries = [n \in Nodes |->
                   IF n \in Members THEN NoEntries
                   ELSE [k \in Members |->
                          IF Holder[k] = n THEN [inst |-> 1, id |-> 1, done |-> TRUE, known |-> TRUE]
                          ELSE NewEntry(1)]]
    /\ lock = [n \in Nodes |->
                IF n \in Members THEN [owner |-> Holder[n], ownerInst |-> 1, id |-> 1, held |-> TRUE]
                ELSE [owner |-> n, ownerInst |-> 1, id |-> 0, held |-> FALSE]]
    /\ calls = [n \in Nodes |-> {}]
    /\ msgs = {}
    /\ lapses = 0
    /\ overtaken = {}

ContestedSpec == ContestedInit /\ [][Next]_vars

=============================================================================
