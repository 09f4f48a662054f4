----------------------------- MODULE TokenRing -----------------------------
(***************************************************************************)
(* The routing tokens of a ring of routing nodes.  Ids are arranged in a   *)
(* circle; a token is a range of them, and a node may accept a routed      *)
(* message only for the ids of its token.  Neighbours hand each other the  *)
(* part of their range that is closer to the other.  A range that is lost, *)
(* with the node or the message that held it, is recovered: a node that    *)
(* sees a gap sends a probe along the ring to the next node that has a     *)
(* token, which promises with an echo not to take the range itself.        *)
(*                                                                         *)
(* Messages carry what the sender knows of everybody's token, arrive in    *)
(* any order, or never.  Verdicts that a node is down are right: they come *)
(* from leases and arbitration.  The ring is smaller than a neighbourhood, *)
(* so every node has every other in it.                                    *)
(***************************************************************************)
EXTENDS Integers, Sequences, FiniteSets, SequencesExt

CONSTANTS
    IdCount,             \* number of ids, 2^128 in the code
    Nodes,               \* ids of the nodes
    RECOVERY_INCREMENT,  \* 2^32
    MaxMerges,           \* bound: low part of a version
    MaxRecoveries,       \* bound: high part of a version
    MaxFailures,         \* bound: nodes that go down
    MaxLate,             \* bound: nodes that get no token in time
    Pingers,             \* bound: pairs of nodes that ping
    MaxInFlight          \* bound: messages on their way

ASSUME IdAssumption == IdCount \in Nat \ {0} /\ Nodes \subseteq 0..(IdCount - 1) /\ IsFiniteSet(Nodes)
ASSUME IncrementAssumption == RECOVERY_INCREMENT \in Nat /\ RECOVERY_INCREMENT > MaxMerges + 8 /\ MaxMerges \in Nat
ASSUME PingersAssumption == \A p \in Pingers : p[1] # p[2]

VARIABLES
    node,      \* the routing table of each node
    alive,     \* the nodes that run
    late,      \* nodes without a token whose tokenAcquireDeadline_ has passed
    msgs       \* messages on their way

vars == <<node, alive, late, msgs>>

-----------------------------------------------------------------------------
(* Ids, ranges and versions.  A range is the set of its ids.                *)

Ids == 0..(IdCount - 1)

SuccDist(a, b) == (b - a) % IdCount

Dist(succ, a, b) == IF succ THEN SuccDist(a, b) ELSE SuccDist(b, a)

Walk(succ, a, d) == (IF succ THEN a + d ELSE a - d) % IdCount

\* The last id that belongs to a on its way to b: the tie goes to the predecessor.
MidPoint(succ, a, b) ==
    LET d == Dist(succ, a, b)
    IN  Walk(succ, a, (IF succ THEN d ELSE (d - 1) % IdCount) \div 2)

NodeIdRange(b, e) == {i \in Ids : SuccDist(b, i) <= SuccDist(b, e)}

IsNormal(r) == r # {} /\ r # Ids

Begin(r) == IF r = Ids THEN 0 ELSE CHOOSE i \in r : Walk(FALSE, i, 1) \notin r

End(r) == IF r = Ids THEN IdCount - 1 ELSE CHOOSE i \in r : Walk(TRUE, i, 1) \notin r

Edge(succ, r) == IF succ THEN End(r) ELSE Begin(r)

\* The range that starts on the other side like r and ends in this direction at i.
Until(succ, r, i) == IF succ THEN NodeIdRange(Begin(r), i) ELSE NodeIdRange(i, End(r))

\* The ids from i to j in this direction.
Stretch(succ, i, j) == IF succ THEN NodeIdRange(i, j) ELSE NodeIdRange(j, i)

IsAdjacent(succ, r, q) ==
    IsNormal(r) /\ IsNormal(q) /\ Walk(succ, Edge(succ, r), 1) = Edge(~succ, q)

Low(v) == v % RECOVERY_INCREMENT

TokenVersionMatch(v, w) == Low(v) = Low(w)

-----------------------------------------------------------------------------
(* RoutingToken                                                             *)

Token(r, v) == [range |-> r, ver |-> v]

Update(t, r) == Token(r, t.ver + 1)

IncrementRecoveryVersion(t) == [t EXCEPT !.ver = @ + RECOVERY_INCREMENT]

\* Mutant: a token is accepted however many recoveries the sender has not seen.
IsMergeSafeAlways(t, v) == TRUE

IsMergeSafe(t, v) == t.ver - v < RECOVERY_INCREMENT

\* The range after a received one is merged, or {} when it is not accepted.
Merged(t, r, n) ==
    CASE t.range = {} -> IF n \in r THEN r ELSE {}
      [] IsAdjacent(TRUE, t.range, r) /\ IsAdjacent(FALSE, t.range, r) -> Ids
      [] IsAdjacent(TRUE, t.range, r) /\ End(r) \notin t.range -> Until(TRUE, t.range, End(r))
      [] IsAdjacent(FALSE, t.range, r) /\ Begin(r) \notin t.range -> Until(FALSE, t.range, Begin(r))
      [] OTHER -> {}

\* Mutant: the two versions of a header are swapped.
HeaderSwapped(r, source, target) == [range |-> r, source |-> target, target |-> source]

\* A token header: source is the version of the sender after it gave the range away,
\* target the version of the receiver that the sender knows.
Header(r, source, target) == [range |-> r, source |-> source, target |-> target]

NoToken == Header({}, 0, 0)

Accepts(t, h, n) == IsMergeSafe(t, h.target) /\ Merged(t, h.range, n) # {}

\* What the owner n gives to a neighbour in one direction.
SplitTo(succ, t, neighbor, version, n) ==
    LET split == MidPoint(succ, n, neighbor)
        given == Walk(succ, split, 1)
        kept == Update(t, Until(succ, t.range, split))
    IN  IF neighbor = n \/ Dist(succ, n, given) > Dist(succ, n, Edge(succ, t.range))
        THEN [tok |-> t, headers |-> <<NoToken>>]
        ELSE [tok |-> kept,
              headers |-> <<Header(Stretch(succ, given, Edge(succ, t.range)), kept.ver, version)>>]

SplitFullToken(t, neighbor, version, n) ==
    LET succMid == MidPoint(TRUE, n, neighbor)
        predMid == MidPoint(FALSE, n, neighbor)
        kept == Update(t, NodeIdRange(predMid, succMid))
    IN  [tok |-> kept,
         headers |-> <<Header(NodeIdRange(Walk(TRUE, succMid, 1), Walk(FALSE, predMid, 1)), kept.ver, version)>>]

\* What a departing node n leaves to its neighbour in one direction.  far is the
\* neighbour in the other: they divide the ids between them.
ReleaseTo(succ, t, far, n, neighbor, version) ==
    LET d == Dist(succ, far, neighbor)
        dist == IF succ THEN d \div 2 + 1 ELSE (d + 1) \div 2
        mid == Walk(succ, far, dist)
        kept == IF mid = Edge(~succ, t.range) THEN Update(t, {})
                ELSE Update(t, Until(succ, t.range, Walk(~succ, mid, 1)))
    IN  IF mid \in t.range
        THEN [tok |-> kept, headers |-> <<Header(Stretch(succ, mid, Edge(succ, t.range)), kept.ver, version)>>]
        ELSE IF Dist(succ, far, n) > dist
        THEN [tok |-> Update(t, {}),
              headers |-> IF t.range = {} THEN <<>> ELSE <<Header(t.range, t.ver, version)>>]
        ELSE [tok |-> t, headers |-> <<>>]

-----------------------------------------------------------------------------
(* What a node knows                                                        *)

\* The routing table: tok is the own token, view what is known of the tokens of the
\* others, down who is down, hood neighborhoodVersion_, echoes the promises made.
NewNode(t, views) ==
    [tok |-> t, view |-> views, down |-> {}, hood |-> 0, echoes |-> [succ \in BOOLEAN |-> <<>>]]

Others(n) == Nodes \ {n}

Ring(n, s) == Others(n) \ s.down

\* The nearest of the nodes S in one direction; of none, the node itself.
Nearest(succ, n, S) ==
    IF S = {} THEN n ELSE CHOOSE x \in S : \A y \in S : Dist(succ, n, x) <= Dist(succ, n, y)

Message(n, s, type, to, body) ==
    [type |-> type, from |-> n, to |-> to, view |-> [s.view EXCEPT ![n] = s.tok], down |-> s.down, body |-> body]

\* A node is found to be down.
SetDown(s, x) == [s EXCEPT !.down = @ \cup {x}, !.hood = @ + (IF x \in s.down THEN 0 ELSE 1)]

\* Mutant: every header of a node that is down counts as a change of the neighbourhood.
ConsiderAgain(n, s, m) ==
    LET Newer(x) == m.view[x].ver > s.view[x].ver /\ (x \notin s.down \/ x \in m.down)
    IN  [s EXCEPT
          !.view = [x \in Nodes |-> IF x # n /\ Newer(x) THEN m.view[x] ELSE @[x]],
          !.down = @ \cup (m.down \ {n}),
          !.hood = @ + Cardinality(m.down \ {n})]

\* The headers of a message.  Of a node that is known to be down, the header of an
\* earlier phase is ignored.
Consider(n, s, m) ==
    LET news == (m.down \ s.down) \ {n}
        Newer(x) == m.view[x].ver > s.view[x].ver /\ (x \notin s.down \/ x \in m.down)
    IN  [s EXCEPT
          !.view = [x \in Nodes |-> IF x # n /\ Newer(x) THEN m.view[x] ELSE @[x]],
          !.down = @ \cup news,
          !.hood = @ + Cardinality(news)]

-----------------------------------------------------------------------------
(* Splitting                                                                *)

\* The rest of Split: what it has given so far, and what it gives to the predecessor.
SplitPredToo(a, neighbor, known, n) ==
    LET b == SplitTo(FALSE, a.tok, neighbor, known.ver, n)
    IN  IF IsAdjacent(FALSE, a.tok.range, known.range) THEN [tok |-> b.tok, headers |-> a.headers \o b.headers]
        ELSE a

\* Split: what the owner n of token t gives to a neighbour whose token it knows.  A
\* neighbour inside of t gets its first token; else one next to t gets what is closer to
\* it, a header without a token when there is nothing.
Split(n, t, neighbor, known) ==
    CASE neighbor \in t.range /\ t.range = Ids -> SplitFullToken(t, neighbor, known.ver, n)
      [] neighbor \in t.range /\ t.range # Ids ->
           SplitTo(SuccDist(n, neighbor) <= SuccDist(n, End(t.range)), t, neighbor, known.ver, n)
      [] OTHER ->
           SplitPredToo(IF IsAdjacent(TRUE, t.range, known.range) THEN SplitTo(TRUE, t, neighbor, known.ver, n)
                        ELSE [tok |-> t, headers |-> <<>>],
                        neighbor, known, n)

\* A table and what is sent to whom, before the headers of the messages are known.
Nothing(s) == [s |-> s, out |-> {}]

Send(s, type, to, body) == [s |-> s, out |-> {[type |-> type, to |-> to, body |-> body]}]

\* The table after a split, and the token that is given.
Give(s, to, r) ==
    IF r.headers = <<>> THEN Nothing(s)
    ELSE Send([s EXCEPT !.tok = r.tok], "TokenTransfer", to, r.headers)

CreateTokenTransferMessage(n, s, to) == Give(s, to, Split(n, s.tok, to, s.view[to]))

-----------------------------------------------------------------------------
(* Probes                                                                   *)

PathNode(x, down, hood) == [id |-> x, down |-> down, hood |-> hood]

\* The nodes after n up to x, in the order they are passed.
Passed(succ, n, x) ==
    LET P == {y \in Others(n) : Dist(succ, n, y) <= Dist(succ, n, x)}
    IN  [i \in 1..Cardinality(P) |->
           CHOOSE y \in P : Cardinality({z \in P : Dist(succ, n, z) <= Dist(succ, n, y)}) = i]

\* A probe goes on to the first node that is up, and names those that it passes.
PrepareProbeMessage(n, s, p) ==
    LET to == Nearest(p.succ, n, Ring(n, s))
        passed == Passed(p.succ, n, to)
    IN  Send(s, "TokenProbe", to,
             [p EXCEPT !.path = @ \o [i \in DOMAIN passed |-> PathNode(passed[i], passed[i] \in s.down, 0)]])

GetProbeMessage(n, s, succ) ==
    PrepareProbeMessage(n, s, [path |-> <<PathNode(n, FALSE, s.hood)>>, succ |-> succ,
                               source |-> s.tok.ver])

\* Nodes of the path, before the last, that this node knows to be down, up to the first
\* that is up.
UpdateProbeHeader(n, s, p) ==
    LET last == Len(p.path)
        stop == {i \in 1..(last - 1) : p.path[i].id \notin s.down}
        from == IF stop = {} THEN 1 ELSE CHOOSE i \in stop : \A j \in stop : j <= i
    IN  [p EXCEPT !.path = [i \in DOMAIN @ |->
           IF i >= from /\ i < last /\ @[i].id \in s.down /\ ~@[i].down THEN PathNode(@[i].id, TRUE, 0) ELSE @[i]]]

\* The way back: the first node that is up has to be on the path, and with strict the
\* nodes between that are down now were down when the probe passed.  to is n if not.
VerifyProbePath(n, s, p, strict) ==
    LET D(x) == Dist(~p.succ, n, x)
        to == Nearest(~p.succ, n, Ring(n, s))
        farther == {i \in DOMAIN p.path : D(p.path[i].id) >= D(to)}
        k == CHOOSE i \in farther : \A j \in farther : j <= i
        matched == \A i \in DOMAIN p.path : i > k /\ p.path[i].id \in s.down => p.path[i].down
        ok == to # n /\ farther # {} /\ p.path[k].id = to /\ (strict => matched)
    IN  IF ok THEN [to |-> to, p |-> [p EXCEPT !.path = SubSeq(@, 1, k)]]
        ELSE [to |-> n, p |-> p]

\* A promise is closer than a distance; 0 stands for the whole ring.
Closer(e, dist) == e.dist # 0 /\ (dist = 0 \/ e.dist < dist)

\* Mutant: a stronger promise does not replace the weaker ones.
AddEchoOnTop(echoes, ver, dist) == Append(echoes, [ver |-> ver, dist |-> dist])

AddEcho(echoes, ver, dist) ==
    LET kept == {i \in DOMAIN echoes : TokenVersionMatch(echoes[i].ver, ver) /\ Closer(echoes[i], dist)}
        k == IF kept = {} THEN 0 ELSE CHOOSE i \in kept : \A j \in kept : j <= i
    IN  Append(SubSeq(echoes, 1, k), [ver |-> ver, dist |-> dist])

\* The promises that stop a recovery, or end the search for one.
Effective(echoes, ver, dist) ==
    LET stop == {i \in DOMAIN echoes : ~Closer(echoes[i], dist) \/ echoes[i].ver > ver}
    IN  IF stop = {} THEN <<>>
        ELSE SubSeq(echoes, CHOOSE i \in stop : \A j \in stop : i <= j, Len(echoes))

CanRecover(echoes, ver, dist) ==
    LET left == Effective(echoes, ver, dist)
    IN  left = <<>> \/ ~Closer(left[1], dist)

\* The promise goes with the range as it is now.
SendEcho(n, s, p, to) ==
    Send([s EXCEPT !.echoes[~p.succ] = AddEcho(@, s.tok.ver, Dist(~p.succ, n, p.path[1].id))],
         "TokenEcho", to, [probe |-> p, range |-> s.tok.range, ver |-> s.tok.ver, origin |-> n])

\* A split that is due first is done, but the token that it gives is dropped.
PrepareEchoMessage(n, s, p, to) ==
    LET origin == p.path[1].id
        t == IncrementRecoveryVersion(s.tok)
        known == IF origin = n THEN t ELSE s.view[origin]
    IN  SendEcho(n, [s EXCEPT !.tok = Split(n, t, origin, known).tok], p, to)

\* A node that has a token answers, unless it has the id of the origin too.
Answer(n, s, origin, back) ==
    IF back.to = n \/ (origin # n /\ origin \in s.tok.range) THEN Nothing(s)
    ELSE PrepareEchoMessage(n, s, back.p, back.to)

HandleProbe(n, s, p) ==
    LET last == Len(p.path)
    IN  IF s.tok.range # {}
        THEN Answer(n, s, p.path[1].id, VerifyProbePath(n, s, [p EXCEPT !.path = Front(@)], FALSE))
        ELSE IF p.path[last].id # n \/ Ring(n, s) = {} THEN Nothing(s)
        ELSE PrepareProbeMessage(n, s, [p EXCEPT !.path[last] = PathNode(n, FALSE, s.hood)])

TokenProbeMessageHandler(n, s, m) == HandleProbe(n, s, UpdateProbeHeader(n, s, m.body))

\* The echo is back: the gap is closed, and divided with the node that echoed.
Divide(s, e, r) ==
    IF r.headers = <<NoToken>> THEN Nothing([s EXCEPT !.tok = IncrementRecoveryVersion(r.tok)])
    ELSE Send([s EXCEPT !.tok = IncrementRecoveryVersion(r.tok)], "TokenTransfer", e.origin, r.headers)

Recover(n, s, e) ==
    LET succ == e.probe.succ
        edge == Walk(~succ, Edge(~succ, e.range), 1)
    IN  CASE e.origin = n ->
               Nothing(IF s.tok.range = Ids THEN s
                       ELSE [s EXCEPT !.tok = IncrementRecoveryVersion(Update(@, Ids))])
          [] e.origin # n /\ edge \in s.tok.range -> Nothing(s)
          [] e.origin # n /\ edge \notin s.tok.range ->
               Divide(s, e, SplitTo(succ, Update(s.tok, Until(succ, s.tok.range, edge)), e.origin, e.ver, n))

\* No promise stands in the way, and the token is still the one that sent the probe.
MayRecover(n, s, p, dist) ==
    CanRecover(s.echoes[p.succ], p.source, dist) /\ TokenVersionMatch(s.tok.ver, p.source)

\* The echo goes on along the path of the probe.
ForwardEcho(n, s, e, back) ==
    IF back.to = n THEN Nothing(s)
    ELSE Send([s EXCEPT !.tok = IncrementRecoveryVersion(@)], "TokenEcho", back.to, [e EXCEPT !.probe = back.p])

TokenEchoMessageHandler(n, s, m) ==
    LET e == m.body
        p == e.probe
        last == p.path[Len(p.path)]
        dist == Dist(p.succ, n, e.origin)
        t == [s EXCEPT !.echoes[p.succ] = Effective(@, p.source, dist)]
    IN  CASE Len(p.path) = 1 /\ (last.id # n \/ last.down) -> Nothing(s)
          [] Len(p.path) = 1 /\ last.id = n /\ ~last.down ->
               IF MayRecover(n, s, p, dist) THEN Recover(n, t, e) ELSE Nothing(t)
          [] OTHER ->
               IF s.tok.range # {} \/ last.id # n \/ last.hood # s.hood THEN Nothing(s)
               ELSE ForwardEcho(n, s, e, VerifyProbePath(n, s, [p EXCEPT !.path = Front(@)], TRUE))

-----------------------------------------------------------------------------
(* CheckToken                                                               *)

\* What was sent before b is sent too.
After(out, b) == [b EXCEPT !.out = out \cup @]

CheckSide(n, s, succ) ==
    LET ring == Ring(n, s)
        neighbor == Nearest(succ, n, ring)
        target == Nearest(succ, n, {x \in ring : s.view[x].range # {}})
        mid == MidPoint(succ, n, target)
    IN  CASE neighbor \in s.tok.range -> CreateTokenTransferMessage(n, s, neighbor)
          [] neighbor \notin s.tok.range /\ target # n /\ IsAdjacent(succ, s.tok.range, s.view[target].range) ->
               IF Edge(succ, s.tok.range) = mid THEN Nothing(s)
               ELSE IF mid \in s.tok.range THEN CreateTokenTransferMessage(n, s, target)
               ELSE Send(s, "TokenRequest", target, <<>>)
          [] OTHER ->
               IF succ \/ (Cardinality(ring) = 1 /\ n < neighbor) THEN GetProbeMessage(n, s, succ)
               ELSE Nothing(s)

RequestFirstToken(n, s) ==
    LET next == Nearest(TRUE, n, Ring(n, s))
        prev == Nearest(FALSE, n, Ring(n, s))
        toNext == n \in s.view[next].range \/ Dist(TRUE, n, next) < Dist(FALSE, n, prev)
    IN  Send(s, "TokenRequest", IF toNext THEN next ELSE prev, <<>>)

CheckOtherSide(n, a) == After(a.out, CheckSide(n, a.s, FALSE))

CheckToken(n, s) ==
    CASE Ring(n, s) = {} ->
           Nothing(IF s.tok.range = Ids THEN s
                   ELSE [s EXCEPT !.tok = IncrementRecoveryVersion(Update(@, Ids))])
      [] Ring(n, s) # {} /\ s.tok.range = {} ->
           IF n \in late THEN Nothing(s) ELSE RequestFirstToken(n, s)
      [] OTHER -> CheckOtherSide(n, CheckSide(n, s, TRUE))

\* The end of the lock: a change of the token, or of the neighbourhood alone, is
\* followed by a check.
Unlock(n, s, a) ==
    IF \/ ~TokenVersionMatch(a.s.tok.ver, s.tok.ver)
       \/ a.s.hood # s.hood /\ a.s.tok.ver = s.tok.ver
    THEN After(a.out, CheckToken(n, a.s))
    ELSE a

-----------------------------------------------------------------------------
(* Steps                                                                    *)

Handlers == {"TokenTransfer", "TokenRequest", "TokenProbe", "TokenEcho"}

Tokens(m) == IF m.type \in {"TokenTransfer", "TokenTransferReject", "Depart"} THEN m.body ELSE <<>>

\* One token of a message: the table, and the tokens not accepted.
Take(n, a, h) ==
    IF Accepts(a.s.tok, h, n) THEN [a EXCEPT !.s.tok = Update(@, Merged(@, h.range, n))]
    ELSE [a EXCEPT !.rejected = Append(@, h)]

\* A message has two tokens at most.
AcceptTokens(n, s, headers) ==
    LET none == [s |-> s, rejected |-> <<>>]
        first == IF headers = <<>> THEN none ELSE Take(n, none, headers[1])
    IN  IF Len(headers) < 2 THEN first ELSE Take(n, first, headers[2])

\* What a message says of the nodes, and its tokens, are processed under one lock.  A
\* node that may not take a token any more does not look at those it gets: accepted[] is
\* not initialised, and any of them may seem rejected.
Considered(n, s, m) ==
    LET headers == Tokens(m)
    IN  IF s.tok.range # {} \/ n \notin late THEN {AcceptTokens(n, s, headers)}
        ELSE {[s |-> s, rejected |-> r] : r \in {<<>>, headers} \cup {<<headers[i]>> : i \in DOMAIN headers}}

\* A rejected token goes back to its sender, for the version it had when it was sent.
Reject(s, h) == Header(h.range, s.tok.ver, h.source)

TokenTransferMessageHandler(s, m) ==
    IF m.rejected = <<>> THEN Send(s, "TokenTransferAccept", m.from, <<>>)
    ELSE Send(s, "TokenTransferReject", m.from, [i \in DOMAIN m.rejected |-> Reject(s, m.rejected[i])])

Handle(n, s, m) ==
    CASE m.type = "TokenTransfer" -> TokenTransferMessageHandler(s, m)
      [] m.type = "TokenRequest" -> CreateTokenTransferMessage(n, s, m.from)
      [] m.type = "TokenProbe" -> TokenProbeMessageHandler(n, s, m)
      [] m.type = "TokenEcho" -> TokenEchoMessageHandler(n, s, m)

\* Some of the messages of a step are lost, and those to a node that is gone are.
SendSome(n, a, rest) ==
    LET sent == {o \in a.out : o.to \in alive}
    IN  \E S \in SUBSET {Message(n, a.s, o.type, o.to, o.body) : o \in sent} :
          /\ msgs' = rest \cup S
          /\ Cardinality(msgs') <= MaxInFlight

Bounded(s) ==
    Low(s.tok.ver) <= MaxMerges /\ s.tok.ver \div RECOVERY_INCREMENT <= MaxRecoveries

\* The end of a step.
Finish(n, a, rest) ==
    /\ Bounded(a.s)
    /\ node' = [node EXCEPT ![n] = a.s]
    /\ SendSome(n, a, rest)

IsReceived(m) == "rejected" \in DOMAIN m

\* A message whose headers are processed waits for its handler.
Received(m, rejected) ==
    IF m.type \in Handlers
    THEN {[type |-> m.type, from |-> m.from, to |-> m.to, body |-> m.body, rejected |-> rejected]}
    ELSE {}

ProcessNeighborHeaders(m) ==
    LET n == m.to
    IN  /\ n \in alive /\ ~IsReceived(m)
        /\ \E a \in Considered(n, Consider(n, node[n], m), m) :
             Finish(n, Unlock(n, node[n], Nothing(a.s)), (msgs \ {m}) \cup Received(m, a.rejected))
        /\ UNCHANGED <<alive, late>>

\* The handler of the message takes the lock again; others may have had it in between.
HandleMessage(m) ==
    LET n == m.to
    IN  /\ n \in alive /\ IsReceived(m)
        /\ Finish(n, Unlock(n, node[n], Handle(n, node[n], m)), msgs \ {m})
        /\ UNCHANGED <<alive, late>>

OnTimer(n) ==
    /\ n \in alive
    /\ Finish(n, CheckToken(n, node[n]), msgs)
    /\ UNCHANGED <<alive, late>>

SetShutdown(n, x) ==
    /\ n \in alive /\ x \in Others(n) \ (alive \cup node[n].down)
    /\ Finish(n, Unlock(n, node[n], Nothing(SetDown(node[n], x))), msgs)
    /\ UNCHANGED <<alive, late>>

Ping(n, x) ==
    /\ n \in alive /\ x \in alive /\ <<n, x>> \in Pingers
    /\ Finish(n, Send(node[n], "Ping", x, <<>>), msgs)
    /\ UNCHANGED <<alive, late>>

\* A node gets no token in time; its open fails.
TokenAcquireTimeout(n) ==
    /\ n \in alive \ late /\ node[n].tok.range = {} /\ Cardinality(late) < MaxLate
    /\ late' = late \cup {n}
    /\ UNCHANGED <<node, alive, msgs>>

\* What a node held is gone with it.
Gone == NewNode(Token({}, 0), [x \in Nodes |-> Token({}, 0)])

MayFail(n) == n \in alive /\ Cardinality(Nodes \ alive) < MaxFailures

Crash(n) ==
    /\ MayFail(n)
    /\ alive' = alive \ {n}
    /\ node' = [node EXCEPT ![n] = Gone]
    /\ msgs' = {m \in msgs : m.to # n}
    /\ UNCHANGED late

\* What a departing node leaves to its two neighbours, if it has two.
Release(n, s, next, prev) ==
    LET toNext == ReleaseTo(TRUE, s.tok, prev, n, next, s.view[next].ver)
        toPrev == ReleaseTo(FALSE, toNext.tok, next, n, prev, s.view[prev].ver)
    IN  [tok |-> IF toPrev.tok.range = {} THEN toPrev.tok ELSE Update(toPrev.tok, {}),
         left |-> [x \in Nodes |-> (IF x = next THEN toNext.headers ELSE <<>>)
                                     \o (IF x = prev THEN toPrev.headers ELSE <<>>)]]

CreateDepartMessages(n, s, r) ==
    [s |-> [SetDown(s, n) EXCEPT !.tok = r.tok],
     out |-> {[type |-> "Depart", to |-> x, body |-> r.left[x]] : x \in Ring(n, s)}]

\* A node closes and leaves its token to its neighbours.
Depart(n) ==
    LET s == node[n]
        ring == Ring(n, s)
    IN  /\ MayFail(n) /\ ring # {}
        /\ SendSome(n, CreateDepartMessages(n, s, Release(n, s, Nearest(TRUE, n, ring), Nearest(FALSE, n, ring))),
                    {m \in msgs : m.to # n})
        /\ alive' = alive \ {n}
        /\ node' = [node EXCEPT ![n] = Gone]
        /\ UNCHANGED late

Next ==
    \/ \E m \in msgs : ProcessNeighborHeaders(m) \/ HandleMessage(m)
    \/ \E n \in Nodes : \/ OnTimer(n) \/ TokenAcquireTimeout(n) \/ Crash(n) \/ Depart(n)
                        \/ \E x \in Nodes : SetShutdown(n, x) \/ Ping(n, x)

\* One node has bootstrapped the ring, the others have joined it.
Init ==
    /\ \E seed \in Nodes :
         LET tok == [n \in Nodes |-> IF n = seed THEN Token(Ids, 1) ELSE Token({}, 0)]
         IN  node = [n \in Nodes |-> NewNode(tok[n], tok)]
    /\ alive = Nodes /\ late = {} /\ msgs = {}

Spec == Init /\ [][Next]_vars

-----------------------------------------------------------------------------
(* Properties                                                               *)

\* A token is one stretch of the circle, around the id of its node; the version of a
\* neighbourhood counts its changes, and nothing is on its way to a node that is gone.
TypeOK ==
    /\ alive \subseteq Nodes /\ late \subseteq Nodes
    /\ \A n \in alive :
         LET s == node[n]
         IN  /\ s.tok.range # {} => n \in s.tok.range /\ \E b, e \in Ids : s.tok.range = NodeIdRange(b, e)
             /\ s.down \subseteq Others(n) /\ s.hood = Cardinality(s.down)
    /\ \A m \in msgs : m.from \in Nodes /\ m.to \in alive \ {m.from}

\* No id belongs to two nodes: splits, transfers that are lost or rejected, recoveries
\* by several nodes at once and departures never make two owners of a routed message.
NoSharedId ==
    \A n, x \in alive : n # x => node[n].tok.range \cap node[x].tok.range = {}

\* A token on its way is still good, or would be turned down: one that IsMergeSafe and
\* the ranges let in holds no id that was recovered, or given to another, since it left.
InFlightUnshared ==
    \A m \in msgs : ~IsReceived(m) /\ m.to \notin late =>
      \A h \in ToSet(Tokens(m)) :
        Accepts(node[m.to].tok, h, m.to) => \A n \in alive : node[n].tok.range \cap h.range = {}

Precedes(e, f) == TokenVersionMatch(e.ver, f.ver) /\ e.ver < f.ver /\ Closer(e, f.dist)

InOrder(echoes) == \A i, j \in DOMAIN echoes : i < j => Precedes(echoes[i], echoes[j])

\* What CanRecover relies on, and the comment of EchoedProbeList::Add claims: the promises
\* of a node are for one low part of the version, and grow in version and distance.
PromisesOrdered == \A n \in alive, succ \in BOOLEAN : InOrder(node[n].echoes[succ])

\* The ASSERT of IsMergeSafe: nobody knows a token of a node that is newer than the one
\* the node has, and no header is for a version that its receiver has not reached.
VersionsKnown ==
    /\ \A n, x \in alive : n # x => node[n].view[x].ver <= node[x].tok.ver
    /\ \A m \in msgs : \A h \in ToSet(Tokens(m)) : h.target <= node[m.to].tok.ver

=============================================================================
