---------------------------- MODULE MC_TokenRing ----------------------------
(***************************************************************************)
(* A ring of three.  The behaviours start from a ring of two that one of   *)
(* them has just bootstrapped, the third being down, and from one where    *)
(* all three have settled.                                                 *)
(***************************************************************************)
EXTENDS TokenRing

\* The nodes D are down, as all others know, and the tokens are known to all.
Start(tok, D) ==
    /\ node = [n \in Nodes |->
                IF n \in D THEN Gone
                ELSE [NewNode(tok[n], tok) EXCEPT !.down = D, !.hood = Cardinality(D)]]
    /\ alive = Nodes \ D /\ late = {} /\ msgs = {}

\* The part of the circle that n has once the nodes have settled.
Share(n) ==
    LET others == Others(n)
    IN  NodeIdRange(MidPoint(FALSE, n, Nearest(FALSE, n, others)), MidPoint(TRUE, n, Nearest(TRUE, n, others)))

Settled == [n \in Nodes |-> Token(Share(n), 1)]

Alone(seed) == [n \in Nodes |-> IF n = seed THEN Token(Ids, 1) ELSE Token({}, 0)]

LastNode == CHOOSE n \in Nodes : \A x \in Nodes : x <= n

OnePinger == {<<0, 2>>}

MCInit ==
    \/ \E seed \in Nodes \ {LastNode} : Start(Alone(seed), {LastNode})
    \/ Start(Settled, {})

MCSpec == MCInit /\ [][Next]_vars
=============================================================================
