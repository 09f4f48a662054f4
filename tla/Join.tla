-------------------------------- MODULE Join --------------------------------
(***************************************************************************)
(* Nodes join a ring: the JoinManager of a joining node and the            *)
(* JoinLockManager of a ring node.  A joining node collects the lock of    *)
(* every ring node it knows, establishes its leases (phase Inserting), has *)
(* every lock released again, and is in the ring (phase Routing).  Nodes   *)
(* that join at once hand locks to each other.                             *)
(*                                                                         *)
(* Every message carries what its sender knows of the nodes, and the       *)
(* receiver considers it before anything else (InternalConsider).  The     *)
(* ring is smaller than a neighbourhood: everybody is everybody's          *)
(* neighbour, and a node's neighbourhood range is the whole ring or, while *)
(* it has met no consistent range, only itself.                            *)
(*                                                                         *)
(* What a handler does under its lock is one step.  A call that comes once *)
(* it has left the lock (StartNewPhase, RestartInstance, the second half   *)
(* of RunStateMachine) is a step of its own: other threads of its node may *)
(* have come first.  Messages arrive in any order or never.                *)
(***************************************************************************)
EXTENDS Integers, FiniteSets

CONSTANTS
    Members,        \* the nodes that are in the ring to begin with
    Joiners,        \* the nodes that join
    MaxInstance,    \* bound on the instances of a joining node
    MaxLockId,      \* bound on the lock ids of a node
    MaxLapses,      \* bound on locks that expire, are reset or time out
    MaxMessages,    \* bound on the messages under way
    Pingers,        \* the nodes whose pings are followed
    Lossy           \* whether messages may be lost

Nodes == Members \cup Joiners

\* Nodes are numbers: their order decides who hands over its locks.
ASSUME NodesAssumption ==
    /\ Nodes \subseteq Nat /\ IsFiniteSet(Nodes) /\ Members \cap Joiners = {}
    /\ MaxInstance \in Nat \ {0} /\ {MaxLockId, MaxLapses, MaxMessages} \subseteq Nat
    /\ Pingers \subseteq Nodes /\ Lossy \in BOOLEAN

\* NodePhase.  A node that is not known has instance 0 and is Booting.
Booting == 0
Joining == 1
Inserting == 2
Routing == 3
Shutdown == 4

\* JoiningPhase.
Stages == {"Query", "Locking", "Establishing", "UnLocking", "Routing"}

\* What a thread does once it has left stateLock_: StartNewPhase, by the stage that
\* begins; the second half of RunStateMachine, which looks for neighbours that are
\* down or has found the stage to take too long; the restart of the instance.
Calls == {"Establishing", "Routing", "CheckDown", "TimedOut", "RestartInstance"}

VARIABLES
    table,      \* per node: knownTable_, the instance and phase of every node,
                \* its own included
    whole,      \* per node: knownTable_'s completeHoodRange_
    stage,      \* per node: JoinManager's phase_
    entries,    \* per node: JoinManager's entries_, by node
    lock,       \* per node: JoinLockManager's owner_ and lockId_, and whether
                \* rangeLockExpiryTime_ is in the future
    calls,      \* per node: what its threads have left to do
    msgs,       \* the messages under way
    lapses,     \* how many locks expired, were reset or timed out
    overtaken   \* the nodes that started over behind the back of a thread that
                \* went on with the join (history: no guard reads it)

vars == <<table, whole, stage, entries, lock, calls, msgs, lapses, overtaken>>

Inst(n) == table[n][n].inst
Phase(n) == table[n][n].phase

-----------------------------------------------------------------------------
(***************************************************************************)
(* RoutingTable: what a node knows of the others.                          *)
(***************************************************************************)

Available(h) == h.phase \in {Inserting, Routing}

\* Node n knows k as cur and meets the header h of k.  A node that is in the
\* ring has been told, by the unlock request, of everyone who joins: a header of
\* an available node it does not have in its ring is taken for an old one, and
\* that instance for one that is down.
Suspected(n, cur, h) ==
    /\ Available(h) /\ ~(Available(cur) /\ cur.inst >= h.inst)
    /\ whole[n] /\ Available(table[n][n])

Considered(n, k, h, isInserting) ==
    LET cur == table[n][k]
    IN  IF \/ k = n \/ cur.inst > h.inst
           \/ cur.inst = h.inst /\ cur.phase > h.phase THEN cur
        ELSE IF Suspected(n, cur, h) /\ (h.phase = Routing \/ ~isInserting)
        THEN IF Phase(n) = Routing /\ (h.phase = Routing \/ cur.inst < h.inst)
             THEN [h EXCEPT !.phase = Shutdown] ELSE cur
        ELSE h

\* ProcessNeighborHeaders, up to the range.
Learned(n, m) ==
    [k \in Nodes |-> Considered(n, k, m.headers[k], m.kind = "Unlock" /\ k = m.from)]

\* InternalExtendHood, by the range in m when n knows t: nobody n knows in the
\* ring, or down, is missing from the message.
Extended(n, m, t) ==
    \/ whole[n]
    \/ /\ m.range
       /\ \A k \in Nodes \ {n} :
            /\ Available(t[k]) => Available(m.headers[k]) /\ m.headers[k].inst = t[k].inst
            /\ t[k].phase = Shutdown => m.headers[k] = t[k]

\* GetExtendedHood.
Hood(t, n) == {k \in Nodes \ {n} : Available(t[k])}

IsDown(t, k, inst) == t[k].inst > inst \/ (t[k].inst = inst /\ t[k].phase = Shutdown)

-----------------------------------------------------------------------------
(***************************************************************************)
(* Messages.                                                               *)
(***************************************************************************)

\* A message from n to the instance inst of k, sent at the end of a step.
\* AddNeighborHeaders: what n knows; and its range, when it is in the ring and its
\* lock is free.
Message(n, k, inst, kind) ==
    [kind |-> kind, from |-> n, headers |-> table'[n], to |-> k, toInst |-> inst,
     range |-> table'[n][n].phase = Routing /\ whole'[n] /\ ~lock'[n].held,
     id |-> 0, renew |-> FALSE, locks |-> {}, owner |-> n]

WithId(n, k, inst, kind, id) == [Message(n, k, inst, kind) EXCEPT !.id = id]

\* The messages after m is received and new ones are sent.
Exchanged(m, new) ==
    /\ msgs' = (msgs \ {m}) \cup new
    /\ Cardinality(msgs') <= MaxMessages

\* n receives m, which is meant for its instance, and considers its headers.
Received(n, m, kind) ==
    /\ m \in msgs /\ m.kind = kind /\ m.to = n /\ m.toInst = Inst(n)
    /\ Learned(n, m)[m.from].inst > 0
    /\ table' = [table EXCEPT ![n] = Learned(n, m)]
    /\ whole' = [whole EXCEPT ![n] = Extended(n, m, Learned(n, m))]

\* A message for another instance, or from a node that stays unknown, ends here;
\* the first is answered with the fault that names the instance it was meant for.
Undelivered(n, m) ==
    LET from == Learned(n, m)[m.from]
    IN  /\ m \in msgs /\ m.to = n /\ (m.toInst /= Inst(n) \/ from.inst = 0)
        /\ table' = [table EXCEPT ![n] = Learned(n, m)]
        /\ whole' = [whole EXCEPT ![n] =
                        IF m.toInst = Inst(n) THEN Extended(n, m, Learned(n, m)) ELSE whole[n]]
        /\ UNCHANGED <<stage, entries, lock, calls, lapses, overtaken>>
        /\ Exchanged(m, IF from.inst = 0 THEN {}
                        ELSE {WithId(n, m.from, from.inst, "Fault", m.toInst)})

\* InternalSetShutdown: who knows t takes the instance inst of k for down.
GoneAnyway(t, k, inst) == [t EXCEPT ![k].phase = Shutdown]

Gone(t, k, inst) == IF t[k].inst <= inst THEN [t EXCEPT ![k].phase = Shutdown] ELSE t

\* ProcessFederationFaultHandler.
FaultHandler(n, m) ==
    LET t == Learned(n, m)
    IN  /\ m \in msgs /\ m.kind = "Fault" /\ m.to = n /\ m.toInst = Inst(n) /\ t[m.from].inst > 0
        /\ table' = [table EXCEPT ![n] = Gone(t, m.from, m.id)]
        /\ whole' = [whole EXCEPT ![n] = Extended(n, m, t)]
        /\ UNCHANGED <<stage, entries, lock, calls, lapses, overtaken>>
        /\ Exchanged(m, {})

Lose(m) ==
    /\ Lossy /\ m \in msgs
    /\ msgs' = msgs \ {m}
    /\ UNCHANGED <<table, whole, stage, entries, lock, calls, lapses, overtaken>>

\* Periodic pings carry what a node knows to everybody it knows.
Ping(n, k) ==
    /\ n \in Pingers /\ Phase(n) = Routing /\ k \in Hood(table[n], n)
    /\ UNCHANGED <<table, whole, stage, entries, lock, calls, lapses, overtaken>>
    /\ msgs' = msgs \cup {Message(n, k, table[n][k].inst, "Ping")}
    /\ Cardinality(msgs') <= MaxMessages

PingHandler(n, m) ==
    /\ Received(n, m, "Ping")
    /\ UNCHANGED <<stage, entries, lock, calls, lapses, overtaken>>
    /\ Exchanged(m, {})

-----------------------------------------------------------------------------
(***************************************************************************)
(* JoinLockManager.  "From" is the sender as the receiver knows it once it *)
(* has considered the headers.                                             *)
(***************************************************************************)

From(n, m) == Learned(n, m)[m.from]

\* GetInternal(NodeInstance), after n has received m.
KnowsExactly(n, m, k, inst) == inst > 0 /\ Learned(n, m)[k].inst = inst

\* LockRange: who has the lock of n; n itself when it may not give it.
HeldByOther(n, m) ==
    /\ lock[n].owner /= n /\ lock[n].held
    /\ KnowsExactly(n, m, lock[n].owner, lock[n].ownerInst)

Denies(n, m) == HeldByOther(n, m) \/ ~Extended(n, m, Learned(n, m))

DenyOwner(n, m) == IF HeldByOther(n, m) THEN lock[n].owner ELSE n

Granted(n, m, id) == [owner |-> m.from, ownerInst |-> From(n, m).inst, id |-> id, held |-> TRUE]

SameLockId(n) == lock[n].id

NextLockId(n) == lock[n].id + 1

LockRequestHandler(n, m) ==
    LET asked == Phase(n) = Routing /\ From(n, m).phase = Joining
        reply(kind) == WithId(n, m.from, From(n, m).inst, kind, lock'[n].id)
    IN  /\ Received(n, m, "LockRequest")
        /\ UNCHANGED <<stage, entries, calls, lapses, overtaken>>
        /\ \/ ~asked /\ UNCHANGED lock /\ Exchanged(m, {})
           \/ /\ asked /\ Denies(n, m)
              /\ UNCHANGED lock
              /\ Exchanged(m, {[reply("LockDeny") EXCEPT !.owner = DenyOwner(n, m)]})
           \/ /\ asked /\ ~Denies(n, m) /\ lock[n].id < MaxLockId
              /\ lock' = [lock EXCEPT ![n] = Granted(n, m, NextLockId(n))]
              /\ Exchanged(m, {reply("LockGrant")})

\* A renewal hands the lock to whoever names its id.
LockRenewHandler(n, m) ==
    LET renewed == /\ From(n, m).phase = Joining
                   /\ m.id = lock[n].id /\ lock[n].owner /= n
                   /\ Extended(n, m, Learned(n, m))
    IN  /\ Received(n, m, "LockRenew")
        /\ UNCHANGED <<stage, entries, calls, lapses, overtaken>>
        /\ lock' = IF renewed THEN [lock EXCEPT ![n] = Granted(n, m, m.id)] ELSE lock
        /\ Exchanged(m, IF renewed
                        THEN {[WithId(n, m.from, From(n, m).inst, "LockGrant", m.id) EXCEPT !.renew = TRUE]}
                        ELSE {})

\* The owner is forgotten, the range stays locked.
ReleaseOwnerOnly(n) ==
    [lock EXCEPT ![n] = [owner |-> n, ownerInst |-> Inst(n), id |-> lock[n].id, held |-> lock[n].held]]

ReleaseLock(n) ==
    [lock EXCEPT ![n] = [owner |-> n, ownerInst |-> Inst(n), id |-> lock[n].id, held |-> FALSE]]

LockReleaseHandler(n, m) ==
    /\ Received(n, m, "LockRelease")
    /\ lock' = IF m.id = lock[n].id THEN ReleaseLock(n) ELSE lock
    /\ UNCHANGED <<stage, entries, calls, lapses, overtaken>>
    /\ Exchanged(m, {})

\* Whatever the id.
UnlockAnyId(n, m) ==
    /\ Received(n, m, "Unlock")
    /\ lock' = ReleaseLock(n)
    /\ UNCHANGED <<stage, entries, calls, lapses, overtaken>>
    /\ Exchanged(m, {WithId(n, m.from, From(n, m).inst, "UnlockGrant", m.id)})

UnlockHandler(n, m) ==
    LET granted == m.id = lock[n].id
    IN  /\ Received(n, m, "Unlock")
        /\ lock' = IF granted THEN ReleaseLock(n) ELSE lock
        /\ UNCHANGED <<stage, entries, calls, lapses, overtaken>>
        /\ Exchanged(m, {WithId(n, m.from, From(n, m).inst,
                                IF granted THEN "UnlockGrant" ELSE "UnlockDeny", m.id)})

\* rangeLockExpiryTime_ passes.
LockExpires(n) ==
    /\ lock[n].held /\ lapses < MaxLapses
    /\ lock' = [lock EXCEPT ![n].held = FALSE]
    /\ lapses' = lapses + 1
    /\ UNCHANGED <<table, whole, stage, entries, calls, msgs, overtaken>>

\* A probe tells of a neighbourhood that became too small.
ResetLock(n) ==
    /\ lock[n].owner /= n /\ lapses < MaxLapses
    /\ lock' = ReleaseLock(n)
    /\ lapses' = lapses + 1
    /\ UNCHANGED <<table, whole, stage, entries, calls, msgs, overtaken>>

-----------------------------------------------------------------------------
(***************************************************************************)
(* JoinManager: its lock entries.                                          *)
(***************************************************************************)

\* A lock counts whether or not the node it comes from knows of this one.
DoneIsCompleted(e) == e.done

Completed(e) == e.done /\ e.known

NewEntry(inst) == [inst |-> inst, id |-> 0, done |-> FALSE, known |-> FALSE]

NoEntries == [k \in {} |-> NewEntry(0)]

\* UpdateNeighborhood, when j has the entries es and knows t.
UpdateNeighborhood(j, es, t) ==
    [k \in Hood(t, j) |-> IF k \in DOMAIN es /\ es[k].inst >= t[k].inst THEN es[k]
                          ELSE NewEntry(t[k].inst)]

\* The locks of nodes that left the neighbourhood are released.
Releases(j, es, t) ==
    {WithId(j, k, es[k].inst, "LockRelease", es[k].id) :
        k \in {x \in DOMAIN es \ Hood(t, j) : es[x].done}}

\* GetLock(NodeInstance).
HasLock(es, k, inst) == k \in DOMAIN es /\ es[k].inst = inst

StillDone(e) == e

Reset(e) == [e EXCEPT !.done = FALSE]

\* CreateTransfer.
Transfer(k, e) == [node |-> k, inst |-> e.inst, id |-> e.id, held |-> e.done]

AcquireLock(e, id) == IF e.done THEN e ELSE [e EXCEPT !.done = TRUE, !.id = id]

\* CheckCompletion, from the stage st with the entries es: the next stage.  With
\* whole ranges, only an empty set of entries leaves the range uncovered.
AllCompleted(es) == \A k \in DOMAIN es : Completed(es[k])

NextStage(st, es) ==
    IF ~AllCompleted(es) \/ (st = "Locking" /\ DOMAIN es = {}) THEN st
    ELSE CASE st = "Locking"      -> "Establishing"
           [] st = "Establishing" -> "UnLocking"
           [] st = "UnLocking"    -> "Routing"

\* The call to StartNewPhase when a stage ends; but for the stage UnLocking, which begins
\* with the step of the timer.
NewPhase(st, es) == ({NextStage(st, es)} \ {st}) \cap {"Establishing", "Routing"}

CheckCompletion(j, st, es) ==
    /\ stage' = [stage EXCEPT ![j] = NextStage(st, es)]
    /\ calls' = [calls EXCEPT ![j] = @ \cup NewPhase(st, es)]
    /\ entries' = [entries EXCEPT ![j] =
         IF ~AllCompleted(es) THEN es
         ELSE IF st = "UnLocking" THEN NoEntries
         ELSE [k \in DOMAIN es |-> Reset(es[k])]]

\* A neighbour of j went down.
AnyDown(j) == \E k \in DOMAIN entries[j] : IsDown(table[j], k, entries[j][k].inst)

\* ResetStateForJoining, before a call to RestartJoining; what else the threads of j
\* have left to do is cs.
ResetStateForJoining(j, cs) ==
    /\ Inst(j) < MaxInstance /\ "RestartInstance" \notin cs
    /\ stage' = [stage EXCEPT ![j] = IF @ = "Routing" THEN @ ELSE "Query"]
    /\ entries' = [entries EXCEPT ![j] = NoEntries]
    /\ calls' = [calls EXCEPT ![j] = cs \cup {"RestartInstance"}]
    /\ overtaken' = IF stage[j] = "Routing" \/ "Establishing" \in cs
                    THEN overtaken \cup {j} ELSE overtaken

\* RestartJoining, unless the node is closed.
RestartInstance(j) ==
    /\ "RestartInstance" \in calls[j]
    /\ calls' = [calls EXCEPT ![j] = @ \ {"RestartInstance"}]
    /\ table' = IF Phase(j) = Shutdown THEN table
                ELSE [table EXCEPT ![j][j] = [inst |-> Inst(j) + 1, phase |-> Joining]]
    /\ UNCHANGED <<whole, stage, entries, lock, msgs, lapses, overtaken>>

-----------------------------------------------------------------------------
(***************************************************************************)
(* JoinManager: the stages.                                                *)
(***************************************************************************)

\* The query of j reaches the ring node n, which answers it.
NeighborhoodQueryRequestHandler(n, j) ==
    LET query == [kind |-> "Query", from |-> j, headers |-> table[j], range |-> FALSE]
    IN  /\ stage[j] = "Query" \/ (stage[j] = "Routing" /\ Phase(j) = Joining)
        /\ Phase(n) = Routing
        /\ table' = [table EXCEPT ![n] = Learned(n, query)]
        /\ UNCHANGED <<whole, stage, entries, lock, calls, lapses, overtaken>>
        /\ msgs' = msgs \cup {Message(n, j, Inst(j), "QueryReply")}
        /\ Cardinality(msgs') <= MaxMessages

\* The answer is followed by another query unless the join may go on: the node is
\* not throttled and the global lease is not about to expire.
OnNeighborhoodQueryRequestCompleted(j, m) ==
    /\ Received(j, m, "QueryReply")
    /\ \/ UNCHANGED <<stage, overtaken>>
       \/ /\ stage[j] = "Query" /\ stage' = [stage EXCEPT ![j] = "Locking"]
          /\ overtaken' = IF "RestartInstance" \in calls[j] THEN overtaken \cup {j} ELSE overtaken
    /\ UNCHANGED <<entries, lock, calls, lapses>>
    /\ Exchanged(m, {})

\* RunStateMachine while locking: the entries in due get a message, the ones in old
\* were acquired more than JoinLockDuration ago.
RunLocking(j, due, old) ==
    LET es == UpdateNeighborhood(j, entries[j], table[j])
        asked == {k \in due : ~es[k].done} \cup old
    IN  /\ stage[j] = "Locking"
        /\ due \subseteq DOMAIN es /\ old \subseteq {k \in due : es[k].done}
        /\ lapses' = lapses + Cardinality(old) /\ lapses' <= MaxLapses
        /\ UNCHANGED <<table, whole, lock, overtaken>>
        /\ CheckCompletion(j, "Locking",
               [k \in DOMAIN es |-> IF k \in old THEN Reset(es[k]) ELSE es[k]])
        /\ msgs' = msgs \cup Releases(j, entries[j], table[j])
             \cup {WithId(j, k, es[k].inst, "LockRequest", 0) : k \in asked}
             \cup {WithId(j, k, es[k].inst, "LockRenew", es[k].id) : k \in due \ asked}
        /\ Cardinality(msgs') <= MaxMessages

\* RunStateMachine while unlocking, first half: the unlock requests that are due.  It
\* ends when it finds, without the lock, that the stage has taken too long or has not.
\* Where nothing comes of the second half, the step stands for both; a thread that is
\* held up between them counts as a lapse.
RunUnLocking(j) ==
    LET es == entries[j]
        down == AnyDown(j)
    IN  /\ stage[j] = "UnLocking"
        /\ UNCHANGED <<table, whole, stage, entries, lock, overtaken>>
        /\ \/ ~down /\ UNCHANGED <<calls, lapses>>
           \/ down /\ UNCHANGED lapses /\ calls' = [calls EXCEPT ![j] = @ \cup {"CheckDown"}]
           \/ /\ lapses < MaxLapses /\ lapses' = lapses + 1
              /\ \E c \in {"CheckDown", "TimedOut"} : calls' = [calls EXCEPT ![j] = @ \cup {c}]
        /\ \E due \in SUBSET {k \in DOMAIN es : ~Completed(es[k])} :
             msgs' = msgs \cup {WithId(j, k, es[k].inst, "Unlock", es[k].id) : k \in due}
        /\ Cardinality(msgs') <= MaxMessages

\* Second half, whatever the stage is by now: the restart.
RestartUnLocking(j, c) ==
    /\ c \in calls[j] \cap {"CheckDown", "TimedOut"}
    /\ UNCHANGED <<table, whole, lock, msgs, lapses>>
    /\ \/ /\ c = "CheckDown" /\ ~AnyDown(j)
          /\ calls' = [calls EXCEPT ![j] = @ \ {c}]
          /\ UNCHANGED <<stage, entries, overtaken>>
       \/ /\ c = "TimedOut" \/ AnyDown(j)
          /\ ResetStateForJoining(j, calls[j] \ {c})

LockGrantHandler(j, m) ==
    LET t == Learned(j, m)
        es == UpdateNeighborhood(j, entries[j], t)
        known == [es EXCEPT ![m.from].known = TRUE]
        acquired ==
            CASE stage[j] = "Locking" -> /\ HasLock(es, m.from, From(j, m).inst)
                                         /\ ~m.renew \/ Completed(known[m.from])
              [] stage[j] \in {"Establishing", "UnLocking"} ->
                    HasLock(entries[j], m.from, From(j, m).inst)
              [] OTHER -> FALSE
    IN  /\ Received(j, m, "LockGrant")
        /\ UNCHANGED <<lock, lapses, overtaken>>
        /\ IF stage[j] = "Locking"
           THEN CheckCompletion(j, "Locking",
                    IF ~HasLock(es, m.from, From(j, m).inst) THEN es
                    ELSE IF ~acquired THEN known
                    ELSE [known EXCEPT ![m.from] = AcquireLock(@, m.id)])
           ELSE UNCHANGED <<stage, entries, calls>>
        /\ Exchanged(m, (IF stage[j] = "Locking" THEN Releases(j, entries[j], t) ELSE {})
                        \cup (IF acquired \/ m.renew THEN {}
                              ELSE {WithId(j, m.from, From(j, m).inst, "LockRelease", m.id)}))

\* A denied request asks the owner for its locks, if j has one itself.  The early
\* return forgets the releases that UpdateNeighborhood has collected.  The header of
\* the owner is also among those of the message: considering it again adds nothing.
LockDenyHandler(j, m) ==
    LET t == Learned(j, m)
        es == UpdateNeighborhood(j, entries[j], t)
        ignored == \/ ~HasLock(es, m.from, From(j, m).inst) \/ Completed(es[m.from])
                   \/ m.owner \in {m.from, j}
        asking == [es EXCEPT ![m.from].known = TRUE]
        request == [Message(j, m.owner, t[m.owner].inst, "TransferRequest") EXCEPT !.locks =
                        {Transfer(k, asking[k]) : k \in DOMAIN asking}]
    IN  /\ Received(j, m, "LockDeny")
        /\ UNCHANGED <<stage, lock, calls, lapses, overtaken>>
        /\ IF stage[j] /= "Locking" THEN UNCHANGED entries /\ Exchanged(m, {})
           ELSE IF ignored THEN entries' = [entries EXCEPT ![j] = es] /\ Exchanged(m, {})
           ELSE /\ entries' = [entries EXCEPT ![j] = asking]
                /\ Exchanged(m, Releases(j, entries[j], t)
                     \cup (IF \E k \in DOMAIN asking : Completed(asking[k]) THEN {request} ELSE {}))

\* Whether j, who would have local locks and gain some of them, yields to the node
\* from, who would have remote ones.
YieldsToMore(j, from, local, remote, gains) == local < remote

Yields(j, from, local, remote, gains) == local < remote \/ (local = remote /\ gains /\ from < j)

\* ProcessTransferReuqest: what j, with the entries es, hands to the node from, which
\* has the locks of the request.  Both count the locks they would have.
HandedOver(j, es, from, locks) ==
    LET held == {x \in locks : x.held}
        wanted == {k \in DOMAIN es : /\ Completed(es[k])
                                     /\ \E x \in locks : ~x.held /\ x.node = k /\ x.inst = es[k].inst}
        gain == {k \in DOMAIN es : /\ ~Completed(es[k])
                                   /\ \E x \in held : x.node = k /\ x.inst = es[k].inst}
        remote == Cardinality(held) + Cardinality(wanted)
        local == Cardinality({k \in DOMAIN es : Completed(es[k])}) + Cardinality(gain)
    IN  IF Yields(j, from, local, remote, gain /= {}) THEN wanted ELSE {}

LockTransferRequestHandler(j, m) ==
    LET given == IF stage[j] = "Locking" THEN HandedOver(j, entries[j], m.from, m.locks) ELSE {}
    IN  /\ Received(j, m, "TransferRequest")
        /\ entries' = [entries EXCEPT ![j] =
                [k \in DOMAIN @ |-> IF k \in given THEN Reset(@[k]) ELSE @[k]]]
        /\ UNCHANGED <<stage, lock, calls, lapses, overtaken>>
        /\ Exchanged(m, {[Message(j, m.from, From(j, m).inst, "TransferReply") EXCEPT !.locks =
                            {Transfer(k, entries[j][k]) : k \in given}]})

LockTransferReplyHandler(j, m) ==
    LET t == Learned(j, m)
        locking == stage[j] = "Locking" /\ m.locks /= {}
        es == UpdateNeighborhood(j, entries[j], t)
        taken == {x \in m.locks : locking /\ HasLock(es, x.node, x.inst)}
        known == {x \in m.locks : t[x.node].inst = x.inst}
    IN  /\ Received(j, m, "TransferReply")
        /\ UNCHANGED <<lock, lapses, overtaken>>
        /\ IF ~locking THEN UNCHANGED <<stage, entries, calls>>
           ELSE CheckCompletion(j, "Locking",
                    [k \in DOMAIN es |->
                        IF \E x \in taken : x.node = k
                        THEN AcquireLock(es[k], (CHOOSE x \in taken : x.node = k).id) ELSE es[k]])
        /\ Exchanged(m, (IF locking THEN Releases(j, entries[j], t) ELSE {})
             \cup {WithId(j, x.node, x.inst, IF x \in taken THEN "LockRenew" ELSE "LockRelease", x.id) :
                    x \in known})

\* StartNewPhase at the end of the Locking stage.  Where the node has started over,
\* the thread may or may not have seen it.
StartLeaseEstablish(j) ==
    /\ "Establishing" \in calls[j]
    /\ calls' = [calls EXCEPT ![j] = @ \ {"Establishing"}]
    /\ \/ table' = [table EXCEPT ![j][j].phase = Inserting]
       \/ stage[j] /= "Establishing" /\ UNCHANGED table
    /\ UNCHANGED <<whole, stage, entries, lock, msgs, lapses, overtaken>>

\* The lease with k is established, or it is not.
LeaseEstablishHandler(j, k) ==
    /\ stage[j] = "Establishing" /\ Phase(j) = Inserting
    /\ k \in DOMAIN entries[j] /\ ~Completed(entries[j][k])
    /\ \/ /\ CheckCompletion(j, "Establishing", [entries[j] EXCEPT ![k].done = TRUE])
          /\ UNCHANGED <<lapses, overtaken>>
       \/ /\ lapses < MaxLapses /\ lapses' = lapses + 1
          /\ ResetStateForJoining(j, calls[j])
    /\ UNCHANGED <<table, whole, lock, msgs>>

\* An answer to the unlock request in hand.
Answers(j, m) ==
    /\ stage[j] = "UnLocking" /\ HasLock(entries[j], m.from, From(j, m).inst)
    /\ entries[j][m.from].id = m.id /\ ~Completed(entries[j][m.from])

UnLockGrantHandler(j, m) ==
    /\ Received(j, m, "UnlockGrant")
    /\ IF Answers(j, m)
       THEN CheckCompletion(j, "UnLocking", [entries[j] EXCEPT ![m.from].done = TRUE])
       ELSE UNCHANGED <<stage, entries, calls>>
    /\ UNCHANGED <<lock, lapses, overtaken>>
    /\ Exchanged(m, {})

UnLockDenyHandler(j, m) ==
    /\ Received(j, m, "UnlockDeny")
    /\ IF Answers(j, m) THEN ResetStateForJoining(j, calls[j])
       ELSE UNCHANGED <<stage, entries, calls, overtaken>>
    /\ UNCHANGED <<lock, lapses>>
    /\ Exchanged(m, {})

\* StartNewPhase at the end of the join.
StartRouting(j) ==
    /\ stage[j] = "Routing"
    /\ \E c \in calls[j] \cap {"Establishing", "Routing"} : calls' = [calls EXCEPT ![j] = @ \ {c}]
    /\ table' = [table EXCEPT ![j][j].phase = Routing]
    /\ UNCHANGED <<whole, stage, entries, lock, msgs, lapses, overtaken>>

-----------------------------------------------------------------------------
(***************************************************************************)
(* A ring node closes or fails, and the lease layer tells the others.      *)
(***************************************************************************)

Close(n) ==
    /\ Phase(n) = Routing /\ lapses < MaxLapses
    /\ table' = [table EXCEPT ![n][n].phase = Shutdown]
    /\ lapses' = lapses + 1
    /\ UNCHANGED <<whole, stage, entries, lock, calls, msgs, overtaken>>

SetShutdown(n, k) ==
    /\ Phase(k) = Shutdown /\ Phase(n) /= Shutdown
    /\ table[n][k].inst > 0 /\ table' = [table EXCEPT ![n] = Gone(@, k, Inst(k))]
    /\ UNCHANGED <<whole, stage, entries, lock, calls, msgs, lapses, overtaken>>

-----------------------------------------------------------------------------
Init ==
    /\ table = [n \in Nodes |-> [k \in Nodes |->
                  IF k \in Joiners /\ k /= n THEN [inst |-> 0, phase |-> Booting]
                  ELSE [inst |-> 1, phase |-> IF k \in Members THEN Routing ELSE Joining]]]
    /\ whole = [n \in Nodes |-> n \in Members]
    /\ stage = [n \in Nodes |-> IF n \in Members THEN "Routing" ELSE "Query"]
    /\ entries = [n \in Nodes |-> NoEntries]
    /\ lock = [n \in Nodes |-> [owner |-> n, ownerInst |-> 1, id |-> 0, held |-> FALSE]]
    /\ calls = [n \in Nodes |-> {}]
    /\ msgs = {}
    /\ lapses = 0
    /\ overtaken = {}

Handle(n, m) ==
    /\ Phase(n) /= Shutdown
    /\ \/ Undelivered(n, m)
       \/ FaultHandler(n, m)
       \/ PingHandler(n, m)
       \/ LockRequestHandler(n, m)
       \/ LockRenewHandler(n, m)
       \/ LockReleaseHandler(n, m)
       \/ UnlockHandler(n, m)
       \/ OnNeighborhoodQueryRequestCompleted(n, m)
       \/ LockGrantHandler(n, m)
       \/ LockDenyHandler(n, m)
       \/ LockTransferRequestHandler(n, m)
       \/ LockTransferReplyHandler(n, m)
       \/ UnLockGrantHandler(n, m)
       \/ UnLockDenyHandler(n, m)

Timeout(j) ==
    \/ /\ stage[j] = "Locking"
       /\ \E due \in SUBSET Hood(table[j], j) : \E old \in SUBSET (due \cap DOMAIN entries[j]) :
            RunLocking(j, due, old)
    \/ RunUnLocking(j)

\* What the threads of j that have left the lock do next.
Resume(j) ==
    \/ \E c \in Calls : RestartUnLocking(j, c)
    \/ RestartInstance(j)
    \/ StartLeaseEstablish(j)
    \/ StartRouting(j)

Next ==
    \/ \E m \in msgs : Lose(m) \/ Handle(m.to, m)
    \/ \E n, k \in Nodes : Ping(n, k) \/ SetShutdown(n, k)
    \/ \E j \in Joiners, k \in Nodes : NeighborhoodQueryRequestHandler(k, j) \/ LeaseEstablishHandler(j, k)
    \/ \E n \in Nodes : LockExpires(n) \/ ResetLock(n) \/ Close(n)
    \/ \E j \in Joiners : Timeout(j) \/ Resume(j)

Spec == Init /\ [][Next]_vars

\* Messages that are not lost arrive, and the timer of the JoinManager asks again for
\* the locks that are missing or not confirmed.  The timer fires for ever; that it
\* finds room among the messages under way is what the strong fairness says.
Arrives(from, to, kind, renew, empty) ==
    \E m \in msgs : /\ m.from = from /\ m.to = to /\ m.kind = kind
                    /\ m.renew = renew /\ (m.locks = {}) = empty
                    /\ Handle(to, m)

Missing(j) ==
    {k \in Hood(table[j], j) : ~(k \in DOMAIN entries[j] /\ Completed(entries[j][k]))}

\* GetExtendedHood goes backwards around the circle: the first entry is the next lower
\* node, or else the highest one.
First(j) ==
    LET hood == Hood(table[j], j)
        lower == {k \in hood : k < j}
    IN  CHOOSE k \in hood : IF lower = {} THEN \A x \in hood : x <= k
                            ELSE k \in lower /\ \A x \in lower : x <= k

\* The timer asks for the lock of k.  While the first entry is pending, the others need
\* never be asked again: that takes five requests of the first without an answer.
Retry(j, k) ==
    /\ k \in Missing(j) /\ (k = First(j) \/ First(j) \notin Missing(j))
    /\ \E due \in SUBSET Hood(table[j], j) : k \in due /\ RunLocking(j, due, {})

Fairness ==
    /\ \A j \in Joiners, n \in Members :
         /\ SF_vars(Retry(j, n))
         /\ \A kind \in {"LockRequest", "LockRenew", "LockRelease"} :
                WF_vars(Arrives(j, n, kind, FALSE, TRUE))
         /\ WF_vars(Arrives(n, j, "LockDeny", FALSE, TRUE))
         /\ \A renew \in BOOLEAN : WF_vars(Arrives(n, j, "LockGrant", renew, TRUE))
    /\ \A j \in Joiners : \A k \in Joiners \ {j} :
         /\ WF_vars(Arrives(j, k, "TransferRequest", FALSE, FALSE))
         /\ \A empty \in BOOLEAN : WF_vars(Arrives(j, k, "TransferReply", FALSE, empty))

-----------------------------------------------------------------------------
(***************************************************************************)
(* What must be true.                                                      *)
(***************************************************************************)

Entry == [inst : 1..MaxInstance, id : 0..MaxLockId, done : BOOLEAN, known : BOOLEAN]

\* The types; and a lock whose range is locked has an owner other than the node
\* itself (owner_ and rangeLockExpiryTime_ are kept by two classes under two locks).
TypeOK ==
    /\ table \in [Nodes -> [Nodes -> [inst : 0..MaxInstance, phase : Booting..Shutdown]]]
    /\ whole \in [Nodes -> BOOLEAN]
    /\ stage \in [Nodes -> Stages]
    /\ \A n \in Nodes : /\ DOMAIN entries[n] \subseteq Nodes \ {n}
                        /\ \A k \in DOMAIN entries[n] : entries[n][k] \in Entry
    /\ lock \in [Nodes -> [owner : Nodes, ownerInst : 1..MaxInstance, id : 0..MaxLockId, held : BOOLEAN]]
    /\ \A n \in Nodes : lock[n].held => lock[n].owner /= n
    /\ calls \in [Nodes -> SUBSET Calls] /\ overtaken \subseteq Nodes
    /\ Cardinality(msgs) <= MaxMessages /\ lapses \in 0..MaxLapses

\* Two nodes in the ring have each other in their rings, at their right instances.
\* This is the consistency rule that InternalConsider relies on when it takes the
\* header of a routing node it does not have for a stale one.
ConsistencyRule ==
    \A n, k \in Nodes : Phase(n) = Routing /\ Phase(k) = Routing =>
        Available(table[n][k]) /\ table[n][k].inst = Inst(k)

\* The consistency rule holds as long as no restart and no thread that goes on with
\* the join overtake each other.
RoutingKnown == overtaken = {} => ConsistencyRule

\* The ring node c has released its lock to j, or has granted it.
Unlocked(j, c) ==
    /\ stage[j] = "UnLocking"
    /\ \/ entries[j][c].done
       \/ \E m \in msgs : /\ m.kind = "UnlockGrant" /\ m.from = c /\ m.to = j
                          /\ m.toInst = Inst(j) /\ m.id = entries[j][c].id

\* An inserting node that starts over, or has to: it needs a node to unlock that is
\* down, or whose lock has gone to another.
MustRestart(j) ==
    \/ "RestartInstance" \in calls[j]
    \/ /\ stage[j] \in {"Establishing", "UnLocking"} /\ Phase(j) = Inserting
       /\ \E c \in DOMAIN entries[j] :
             ~Unlocked(j, c) /\ (Phase(c) /= Routing \/ lock[c].id /= entries[j][c].id)

\* Nobody takes a node that is up for one that is down: neither a suspected header
\* nor a fault shuts down the instance a node has now, unless it can no longer get
\* into the ring as this instance.  The exception is that of the consistency rule.
DownIsDown ==
    overtaken = {} =>
        \A n, k \in Nodes : table[n][k] = [inst |-> Inst(k), phase |-> Shutdown] =>
            Phase(k) = Shutdown \/ MustRestart(k)

\* Whoever believes to have the lock id of k.
Holds(j, k, inst, id) ==
    /\ HasLock(entries[j], k, inst) /\ entries[j][k].id = id
    /\ entries[j][k].done \/ stage[j] \in {"Establishing", "UnLocking"}

\* A message that gives the lock id of k to its receiver.
Gives(m, k, inst, id) ==
    \/ m.kind = "LockGrant" /\ ~m.renew /\ m.from = k /\ m.headers[k].inst = inst /\ m.id = id
    \/ m.kind = "TransferReply" /\ \E x \in m.locks : x.node = k /\ x.inst = inst /\ x.id = id

\* A lock id is in one hand, through grants, renewals, transfers, expiries and
\* restarts: JoinLockManager takes the id alone as the proof that its sender has
\* the lock.
OneHolder ==
    \A k \in Nodes, inst \in 1..MaxInstance, id \in 0..MaxLockId :
        Cardinality({j \in Joiners : Holds(j, k, inst, id)})
            + Cardinality({m \in msgs : Gives(m, k, inst, id)}) <= 1

\* Joining nodes that compete do not lock each other out: when all of them are
\* collecting locks, one gets them all.
Resolved ==
    (\A j \in Joiners : stage[j] = "Locking") ~> (\E j \in Joiners : stage[j] = "Establishing")

=============================================================================
