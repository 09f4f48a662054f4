---------------------------- MODULE PairArbiter ----------------------------
(***************************************************************************)
(* What an arbiter promises about one lease, stated without records, time, *)
(* suspicion levels or messages: the decisions of the two sides and the    *)
(* only ways in which they may change.  ArbitrationTable implements this   *)
(* for every lease it holds records of, and every arbiter of Arbitration   *)
(* behaves like this.                                                      *)
(***************************************************************************)
EXTENDS ArbitrationDecision

CONSTANTS
    Sides,      \* the two lease agents
    Types       \* the types of arbitration they ask for

Blank == [x \in Sides |-> None]

VARIABLE dec    \* per side: its decision, None while it has not asked

\* A side asks.  The arbiter may have forgotten the lease since the last
\* time, and it may reject for lack of history.
Ask(x) ==
    \E d \in {dec, Blank}, y \in Sides \ {x}, type \in Types, continuous \in BOOLEAN :
        dec' \in {[d EXCEPT ![x] = Reject]} \cup AskOutcomes(type, continuous, d, x, y)

\* A side gives back its grant.
GiveBack(x) ==
    \E y \in Sides \ {x}, type \in RevertTypes : dec' = RevertOutcome(type, dec, x, y)

\* A grant has been delayed long enough.
DelayEnds(x) ==
    /\ dec[x] = Delay
    /\ dec' = [dec EXCEPT ![x] = Grant]

\* The lease is dropped from the history, by age or by a restart.
Forget == dec' = Blank

Init == dec = Blank

Next == Forget \/ \E x \in Sides : Ask(x) \/ GiveBack(x) \/ DelayEnds(x)

Spec == Init /\ [][Next]_dec

============================================================================
