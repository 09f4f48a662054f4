--------------------------- MODULE MC_Arbitration ---------------------------
(* Instances of Arbitration for TLC. *)
EXTENDS Arbitration, TLC

CONSTANTS v1, v2, v3, s1, s2

\* The first lease between two nodes that use the current lease version.
FirstLease == {[type |-> TwoWayExtended, continuous |-> {}]}

\* Leases of each kind: of the old version, or of the current one with or without an
\* earlier lease that some arbiters remember.  One that all remember is decided like
\* one of the old version (FirstVerdicts).
EachKind ==
    {[type |-> TwoWaySimple, continuous |-> {}]}
    \cup {[type |-> TwoWayExtended, continuous |-> S] : S \in SUBSET Votes \ {Votes}}

\* Both sets of leases treat all arbiters alike.
VoteSymmetry == Permutations(Votes)

=============================================================================
