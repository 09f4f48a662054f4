--------------------------- MODULE MC_VoterStore ---------------------------
EXTENDS VoterStore

WriteOf(k, v) == [key |-> k, check |-> -1, value |-> v]

OneKey == <<WriteOf("k", 1), WriteOf("k", 2), WriteOf("k", 3)>>

TwoKeys == <<WriteOf("k", 1), WriteOf("j", 1), WriteOf("k", 2)>>

\* The store once the lowest voter has bootstrapped it, the others have joined one after
\* the other and are synchronised, the first w writes, all of one key, are done, and all
\* have the global time.  The voters are instances i.
StableInit(i, w) ==
    LET count == Cardinality(Voters)
        primary == Sorted(Voters)[1]
        last == Writes[w]
        highest == count + w - 1
        info(n) == [v \in Voters |-> IF v = n THEN NoVoter
                                     ELSE [VoterInfo(i) EXCEPT !.acked = TRUE, !.intro = n = primary]]
        of(n) == [NewStore(n, i) EXCEPT
                    !.phase = IF n = primary THEN "Primary" ELSE "Secondary",
                    !.leader = <<primary, i>>, !.leaderInst = IF n = primary THEN Min(Ticks) ELSE 0,
                    !.gen = Min(Ticks), !.epoch = count, !.highest = highest,
                    !.bootWait = TRUE, !.globalTime = TRUE, !.voters = info(n),
                    !.entries[last.key] = [@ EXCEPT !.cur = last.value, !.seq = highest,
                                                    !.pseq = IF n = primary THEN highest ELSE 0],
                    !.replicas = [j \in 1..count |->
                                   [node |-> <<Sorted(Voters)[j], i>>, down |-> FALSE,
                                    seq |-> IF n = primary \/ j = 1 THEN highest ELSE -1]]]
    IN  /\ instance = [n \in Voters |-> i] /\ up = Voters
        /\ store = [n \in Voters |-> of(n)]
        /\ acked = {[key |-> Writes[j].key, value |-> Writes[j].value, holders |-> {<<n, i>> : n \in Voters}] :
                      j \in 1..w}
        /\ msgs = {} /\ ticks = {Min(Ticks)} /\ solo = FALSE /\ failures = 0 /\ writes = w

\* The voters U have introduced themselves to each other, have found the others not
\* started, and wait to bootstrap.  f failures are spent, and so are all writes.
IntroducedInit(U, i, f) ==
    LET info(v) == IF v \in U THEN [VoterInfo(i) EXCEPT !.acked = TRUE]
                   ELSE [VoterInfo(0) EXCEPT !.down = TRUE]
        of(n) == [NewStore(n, i) EXCEPT
                    !.phase = "BecomeSecondary", !.bootWait = TRUE,
                    !.voters = [v \in Voters |-> IF v = n THEN NoVoter ELSE info(v)]]
    IN  /\ instance = [n \in Voters |-> IF n \in U THEN i ELSE 0] /\ up = U
        /\ store = [n \in Voters |-> IF n \in U THEN of(n) ELSE NewStore(n, 0)]
        /\ msgs = {} /\ ticks = {} /\ acked = {} /\ solo = FALSE /\ failures = f /\ writes = Len(Writes)

\* A store that starts while its lowest voter is late; one that starts when a voter fails
\* for good; one that runs and takes two writes when a voter fails for good; and one that
\* takes one write when a voter fails and may come back.
MCInit ==
    \/ IntroducedInit(Voters \ {Min(Voters)}, 1, MaxFailures)
    \/ IntroducedInit(Voters, MaxInstance, 0)
    \/ StableInit(MaxInstance, 1)
    \/ StableInit(1, 2)

MCSpec == MCInit /\ [][Next]_vars

StableSpec == StableInit(1, 1) /\ [][Next]_vars

=============================================================================
