----------------------------- MODULE Join_ring ------------------------------
(***************************************************************************)
(* What the nodes of module Join know of each other, for any nodes and     *)
(* bounds:                                                                 *)
(*                                                                         *)
(*   RingKnown       nodes in the ring know each other                     *)
(*   DownMeansDown   who is taken for down is down, or must start over     *)
(*                                                                         *)
(* Both hold as long as no node was overtaken: a node that enters the ring *)
(* with its own restart still to come breaks them.  Until then RingInv is  *)
(* inductive (with IInv, CallsOK and OneHand).  That it is follows from    *)
(* what a step of one node may do, Turn: first, a turn of any node keeps   *)
(* RingInv; then, every step is a turn of some node.                       *)
(***************************************************************************)
EXTENDS Join_proofs

-----------------------------------------------------------------------------
(***************************************************************************)
(* Nodes in the ring know each other.  A node is as good as in the ring    *)
(* from when it has all locks: then every ring node is among its entries,  *)
(* and nobody else can get that far.  From then on a lock that a ring node *)
(* releases goes to whoever that node, which now knows the inserting one,  *)
(* tells of it.                                                            *)
(***************************************************************************)

Later == {"Establishing", "UnLocking"}

Ring(n) == Phase(n) = Routing

\* Who knows t has the present instance of k in its ring.
Knows(t, k) == Available(t[k]) /\ t[k].inst = Inst(k)

\* The ring node c has its lock id still.
Fresh(c, id) == Phase(c) = Routing /\ lock[c].id = id

\* Node j has the lock of c in hand, or had it when it became inserting.
Has(j, c) == c \in DOMAIN entries[j] /\ (entries[j][c].done \/ stage[j] \in Later)

\* An inserting node that may still get into the ring.
Bound(j) ==
    /\ stage[j] \in Later
    /\ \A c \in DOMAIN entries[j] : Unlocked(j, c) \/ Fresh(c, entries[j][c].id)

\* One that was unlocked by all, and has not said so yet.
Finished(j) == stage[j] = "Routing" /\ Phase(j) = Inserting

Entering(j) == Bound(j) \/ Finished(j)

\* Whoever has the lock of c from now on must know n.
In(n, c) == Ring(n) \/ Finished(n) \/ (Bound(n) /\ c \in DOMAIN entries[n] /\ Unlocked(n, c))

\* Node j is about to get a new instance.
Starting(j) == "RestartInstance" \in calls[j]

\* The header h of k is no newer than k; only a node that must start over may be
\* taken for down before it is.
AtMost(h, k) ==
    \/ h.inst < Inst(k)
    \/ h.inst = Inst(k) /\ (h.phase <= Phase(k) \/ (h.phase = Shutdown /\ MustRestart(k)))

Order ==
    /\ \A n, k \in Nodes : AtMost(table[n][k], k)
    /\ \A m \in msgs, k \in Nodes : AtMost(m.headers[k], k)

\* What phase a node has in each stage, and what its threads have left to do.
StagePhase(j) ==
    /\ stage[j] = "Query" => Phase(j) = Joining \/ (Phase(j) = Inserting /\ Starting(j))
    /\ stage[j] = "Locking" => Phase(j) = Joining
    /\ stage[j] = "Establishing" => Phase(j) \in {Joining, Inserting}
    /\ stage[j] = "UnLocking" => Phase(j) = Inserting
    /\ stage[j] = "Routing" => Phase(j) \in {Inserting, Routing, Shutdown}
    /\ stage[j] \in {"Query", "Routing"} => DOMAIN entries[j] = {}
    /\ Starting(j) => stage[j] = "Query"
    /\ "Establishing" \in calls[j] => stage[j] = "Establishing" /\ Phase(j) = Joining
    /\ "Routing" \in calls[j] => stage[j] = "Routing" /\ Phase(j) = Inserting

StagesFit == \A j \in Nodes : StagePhase(j)

\* Instances in messages and entries are known ones, and a node that is known to the
\* node whose lock it asks for is known at its present instance.
Kept ==
    /\ \A m \in msgs : /\ m.toInst \in 0..table[m.from][m.to].inst
                       /\ m.kind = "Fault" => m.id \in 0..(Inst(m.from) - 1)
    /\ \A j \in Nodes : \A c \in DOMAIN entries[j] :
          /\ entries[j][c].inst <= table[j][c].inst
          /\ entries[j][c].known => table[c][j].inst = Inst(j)
          /\ stage[j] \in Later => entries[j][c].known
    /\ \A j \in Nodes : stage[j] \in Later => DOMAIN entries[j] /= {}

\* A node that was in the ring as this instance.
Up(c, inst) == inst = Inst(c) /\ Phase(c) >= Routing

HandsUp ==
    /\ \A j \in Nodes : \A c \in DOMAIN entries[j] : Has(j, c) => Up(c, entries[j][c].inst)
    /\ \A m \in msgs :
          /\ m.kind = "LockGrant" /\ ~m.renew => Up(m.from, m.headers[m.from].inst)
          /\ m.kind = "TransferReply" => \A x \in m.locks : Up(x.node, x.inst)

\* The lock id of c is with j, who is unlocking it as its instance inst, or with nobody.
OnlyWith(j, inst, c, id) ==
    /\ id <= lock[c].id
    /\ \A x \in msgs : ~Giving(x, c, id)
    /\ \A i \in Nodes : HandOf(i, c, id) => i = j /\ stage[i] = "UnLocking" /\ inst = Inst(i)

UnlocksMatch ==
    \A m \in msgs :
        /\ m.kind = "Unlock" => /\ m.headers[m.from].phase = Inserting
                                /\ OnlyWith(m.from, m.headers[m.from].inst, m.to, m.id)
        /\ m.kind = "UnlockGrant" => OnlyWith(m.to, m.toInst, m.from, m.id)

\* A lock that is given, or kept while others are collected, comes with what its node knew.
LocksTell ==
    /\ \A j \in Nodes : stage[j] = "Locking" =>
          \A c \in DOMAIN entries[j] : entries[j][c].done /\ Fresh(c, entries[j][c].id) =>
              \A n \in Nodes : In(n, c) => Knows(table[j], n)
    /\ \A m \in msgs, c \in Nodes : Giving(m, c, lock[c].id) /\ Ring(c) =>
          \A n \in Nodes : In(n, c) => Knows(m.headers, n)

OneEnters == \A i, j \in Nodes : Entering(i) /\ Entering(j) => i = j

\* What an entering node and a ring node n know of each other.
BoundTo(j, n) ==
    /\ n \in DOMAIN entries[j] /\ Knows(table[j], n) /\ table[n][j].inst = Inst(j)
    /\ Unlocked(j, n) => Knows(table[n], j)

Covered ==
    \A j, n \in Nodes : Ring(n) =>
        /\ Bound(j) => BoundTo(j, n)
        /\ Finished(j) => Knows(table[j], n) /\ Knows(table[n], j)

RingInv ==
    /\ Order /\ StagesFit /\ Kept /\ HandsUp /\ UnlocksMatch /\ LocksTell
    /\ OneEnters /\ Covered /\ ConsistencyRule

\* Where a thread was overtaken, a node may be anywhere in the join.
RingUnlessOvertaken == overtaken = {} => RingInv

-----------------------------------------------------------------------------
(***************************************************************************)
(* What a step of node n does.                                             *)
(***************************************************************************)

\* The header h is no older than g.
NotOlder(h, g) == h.inst > g.inst \/ (h.inst = g.inst /\ h.phase >= g.phase)

Alone(n) ==
    \A k \in Nodes \ {n} : /\ table'[k] = table[k] /\ stage'[k] = stage[k]
                           /\ entries'[k] = entries[k] /\ lock'[k] = lock[k] /\ calls'[k] = calls[k]

\* What n knows gets no older, and no newer than the nodes are.
RowGrows(n) ==
    \A k \in Nodes : /\ NotOlder(table'[n][k], table[n][k])
                     /\ k /= n => AtMost(table'[n][k], k)

\* Its instance is a new one only when it starts over, and it starts over once it is
\* about to.
Lives(n) ==
    /\ StagePhase(n)'
    /\ table'[n][n].inst = Inst(n) \/ (Starting(n) /\ stage'[n] = "Query")
    /\ Starting(n) => Starting(n)' \/ table'[n][n].inst > Inst(n)
    /\ stage'[n] = "Query" => stage[n] = "Query" \/ Starting(n)'
    /\ table'[n][n].phase = Routing => Phase(n) = Routing \/ Finished(n)

\* The entries name known instances, and who knows n.
EntriesFit(n) ==
    \A c \in DOMAIN entries'[n] :
        /\ entries'[n][c].inst <= table'[n][c].inst
        /\ entries'[n][c].known => table[c][n].inst = Inst(n)

\* A lock in hand was there before, or is one that a message gives.
Holding(n, c) ==
    /\ Has(n, c) /\ entries'[n][c].inst = entries[n][c].inst /\ entries'[n][c].id = entries[n][c].id
    /\ stage'[n] = "Locking" => stage[n] = "Locking"

Meets(n, m) == \A k \in Nodes \ {n} : NotOlder(table'[n][k], m.headers[k])

Taking(n, c) ==
    /\ stage[n] = "Locking"
    /\ \E m \in msgs : /\ Meets(n, m) /\ Giving(m, c, entries'[n][c].id)
                       /\ Up(c, entries'[n][c].inst)

Grasps(n) ==
    \A c \in DOMAIN entries'[n] :
        entries'[n][c].done \/ stage'[n] \in Later => Holding(n, c) \/ Taking(n, c)

\* From stage to stage: with all locks and known to all, and on with the same entries.
Completes(n) ==
    /\ stage[n] = "Locking" /\ stage'[n] = "Establishing"
    /\ DOMAIN entries'[n] = Hood(table'[n], n)

GoesOn(n) ==
    /\ stage[n] \in Later /\ DOMAIN entries'[n] = DOMAIN entries[n]
    /\ stage[n] = "UnLocking" => stage'[n] = "UnLocking"
    /\ \A c \in DOMAIN entries[n] : entries'[n][c].id = entries[n][c].id
    /\ stage'[n] = "UnLocking" => \A c \in DOMAIN entries[n] : entries'[n][c].done => Unlocked(n, c)

Advances(n) ==
    /\ stage'[n] \in Later =>
          /\ DOMAIN entries'[n] /= {} /\ \A c \in DOMAIN entries'[n] : entries'[n][c].known
          /\ Completes(n) \/ GoesOn(n)
    /\ stage'[n] = "Routing" =>
          \/ stage[n] = "Routing"
          \/ stage[n] = "UnLocking" /\ \A c \in DOMAIN entries[n] : Unlocked(n, c)

\* A new message that grants, hands over, or asks to have a lock released, or has
\* released it.
Issues(n, g) ==
    Phase(n) = Routing /\ lock'[n].id > lock[n].id /\ g.id = lock'[n].id /\ g.headers = table'[n]

HandsOver(n, g) ==
    /\ g.locks /= {} => stage[n] = "Locking" /\ g.headers = table'[n]
    /\ \A x \in g.locks : HandOf(n, x.node, x.id) /\ Up(x.node, x.inst)

AsksUnlock(n, g) ==
    stage[n] = "UnLocking" /\ HandOf(n, g.to, g.id) /\ g.headers = table[n]

GrantsUnlock(n, g) ==
    /\ Phase(n) /= Shutdown /\ g.id = lock[n].id /\ g.toInst = table'[n][g.to].inst
    /\ \E m \in msgs : /\ m.kind = "Unlock" /\ m.to = n /\ m.from = g.to /\ m.id = g.id
                       /\ g.to /= n => NotOlder(table'[n][g.to], m.headers[g.to])

Sends(n, g) ==
    /\ g.from = n /\ g.headers \in {table[n], table'[n]}
    /\ g.toInst \in 0..table'[n][g.to].inst
    /\ g.kind = "Fault" => g.id \in 0..(Inst(n) - 1)
    /\ g.kind = "LockGrant" /\ ~g.renew => Issues(n, g)
    /\ g.kind = "TransferReply" => HandsOver(n, g)
    /\ g.kind = "Unlock" => AsksUnlock(n, g)
    /\ g.kind = "UnlockGrant" => GrantsUnlock(n, g)

Turn(n) ==
    /\ Alone(n) /\ RowGrows(n) /\ Lives(n) /\ EntriesFit(n) /\ Grasps(n) /\ Advances(n)
    /\ lock'[n].id >= lock[n].id
    /\ \A g \in msgs' \ msgs : Sends(n, g)

\* A row of n that is no older and no newer than it may be.
RowFits(n, t) == \A k \in Nodes \ {n} : NotOlder(t[k], table[n][k]) /\ AtMost(t[k], k)

-----------------------------------------------------------------------------
(***************************************************************************)
(* A turn preserves the invariant.                                         *)
(***************************************************************************)

\* Instances and phases are numbers.
LEMMA Numbers ==
    ASSUME IInv
    PROVE  /\ \A n, k \in Nodes : table[n][k] \in Header /\ table[n][k].inst \in Nat /\ table[n][k].phase \in 0..4
           /\ \A n \in Nodes : Inst(n) \in Nat /\ Phase(n) \in 0..4 /\ lock[n].id \in 0..MaxLockId
           /\ \A m \in msgs, k \in Nodes : m.headers[k] \in Header /\ m.headers[k].inst \in Nat
                                           /\ m.headers[k].phase \in 0..4
           /\ \A m \in msgs : m.from \in Nodes /\ m.to \in Nodes
           /\ \A n \in Nodes : /\ DOMAIN entries[n] \subseteq Nodes \ {n}
                               /\ \A c \in DOMAIN entries[n] :
                                     entries[n][c].id \in 0..MaxLockId /\ entries[n][c].inst \in Nat
                                     /\ entries[n][c].done \in BOOLEAN /\ entries[n][c].known \in BOOLEAN
           /\ MaxLockId \in Nat
<1>1. \A h \in Header : h.inst \in Nat /\ h.phase \in 0..4
  BY NodesAssumption DEF Header, Booting, Shutdown
<1>2. \A n, k \in Nodes : table[n][k] \in Header
  BY DEF IInv
<1>3. \A n \in Nodes : lock[n].id \in 0..MaxLockId
  BY DEF IInv, LockOK
<1>4. \A m \in msgs : m.from \in Nodes /\ m.to \in Nodes /\ \A k \in Nodes : m.headers[k] \in Header
  BY DEF IInv, MsgsOK, MsgOK
<1>5. \A n \in Nodes : /\ DOMAIN entries[n] \subseteq Nodes \ {n}
                       /\ \A c \in DOMAIN entries[n] : entries[n][c] \in Entry
  BY DEF IInv, EntriesOK
<1>6. \A e \in Entry : e.id \in 0..MaxLockId /\ e.inst \in Nat /\ e.done \in BOOLEAN /\ e.known \in BOOLEAN
  BY NodesAssumption DEF Entry
<1>7. \A n \in Nodes : Inst(n) \in Nat /\ Phase(n) \in 0..4
  BY <1>1, <1>2 DEF Inst, Phase
<1>8. QED
  BY <1>1, <1>2, <1>3, <1>4, <1>5, <1>6, <1>7, NodesAssumption

\* The same after the step.
LEMMA NumbersNext ==
    ASSUME IInv'
    PROVE  /\ \A n, k \in Nodes : table'[n][k] \in Header /\ table'[n][k].inst \in Nat
                                  /\ table'[n][k].phase \in 0..4
           /\ \A n \in Nodes : lock'[n].id \in 0..MaxLockId
           /\ \A m \in msgs', k \in Nodes : m.headers[k] \in Header /\ m.headers[k].inst \in Nat
                                           /\ m.headers[k].phase \in 0..4
           /\ \A m \in msgs' : m.from \in Nodes /\ m.to \in Nodes
           /\ \A n \in Nodes : /\ DOMAIN entries'[n] \subseteq Nodes \ {n}
                               /\ \A c \in DOMAIN entries'[n] :
                                     entries'[n][c].id \in 0..MaxLockId /\ entries'[n][c].inst \in Nat
                                     /\ entries'[n][c].done \in BOOLEAN /\ entries'[n][c].known \in BOOLEAN
           /\ MaxLockId \in Nat
<1>1. \A h \in Header : h.inst \in Nat /\ h.phase \in 0..4
  BY NodesAssumption DEF Header, Booting, Shutdown
<1>2. \A n, k \in Nodes : table'[n][k] \in Header
  BY DEF IInv
<1>3. \A n \in Nodes : lock'[n].id \in 0..MaxLockId
  BY DEF IInv, LockOK
<1>4. \A m \in msgs' : m.from \in Nodes /\ m.to \in Nodes /\ \A k \in Nodes : m.headers[k] \in Header
  BY DEF IInv, MsgsOK, MsgOK
<1>5. \A n \in Nodes : /\ DOMAIN entries'[n] \subseteq Nodes \ {n}
                       /\ \A c \in DOMAIN entries'[n] : entries'[n][c] \in Entry
  BY DEF IInv, EntriesOK
<1>6. \A e \in Entry : e.id \in 0..MaxLockId /\ e.inst \in Nat /\ e.done \in BOOLEAN /\ e.known \in BOOLEAN
  BY NodesAssumption DEF Entry
<1>8. QED
  BY <1>1, <1>2, <1>3, <1>4, <1>5, <1>6, NodesAssumption

\* A node that was in the ring stays the instance it is.
LEMMA UpStays ==
    ASSUME IInv, IInv', RingInv, NEW n \in Nodes, Turn(n), NEW c \in Nodes, NEW inst, Up(c, inst)
    PROVE  Up(c, inst)' /\ table'[c][c].inst = Inst(c)
<1>1. CASE c /= n
  BY <1>1 DEF Up, Inst, Phase, Turn, Alone
<1>2. CASE c = n
  <2>1. ~Starting(c) /\ Phase(c) >= Routing /\ inst = Inst(c)
    BY DEF Up, RingInv, StagesFit, StagePhase, Joining, Inserting, Routing
  <2>2. table'[c][c].inst = table[c][c].inst /\ NotOlder(table'[c][c], table[c][c])
    BY <1>2, <2>1 DEF Turn, Lives, RowGrows, Inst
  <2>3. table'[c][c].phase >= table[c][c].phase
    BY <2>2, Numbers DEF NotOlder
  <2>4. table'[c][c].phase >= Routing
    BY <2>1, <2>3, Numbers, NumbersNext DEF Phase, Routing
  <2>5. QED
    BY <2>1, <2>2, <2>4 DEF Up, Inst, Phase
<1>3. QED
  BY <1>1, <1>2

\* The hands of a node that has all locks: ids of nodes that were in the ring.
LEMMA LaterHolds ==
    ASSUME IInv, OneHand, RingInv, NEW j \in Nodes, stage[j] \in Later, NEW c \in DOMAIN entries[j]
    PROVE  /\ c \in Nodes /\ c /= j /\ HandOf(j, c, entries[j][c].id) /\ Has(j, c)
           /\ entries[j][c].id <= lock[c].id /\ Phase(c) >= Routing
<1>1. c \in Nodes /\ c /= j /\ entries[j][c].id \in 0..MaxLockId
  BY Numbers
<1>2. HandOf(j, c, entries[j][c].id) /\ Has(j, c)
  BY DEF HandOf, Has, Later
<1>3. QED
  BY <1>1, <1>2 DEF OneHand, RingInv, HandsUp, Up

\* Who is released by a ring node after the step was before, or is by this step.
LEMMA UnlockedBefore ==
    ASSUME IInv, IInv', OneHand, RingInv, NEW n \in Nodes, Turn(n), NEW j \in Nodes,
           NEW c \in DOMAIN entries'[j], Unlocked(j, c)'
    PROVE  /\ stage[j] \in Later /\ c \in DOMAIN entries[j] /\ entries'[j][c].id = entries[j][c].id
           /\ stage'[j] = "UnLocking" /\ table'[j][j].inst = Inst(j)
           /\ \/ Unlocked(j, c)
              \/ /\ c = n /\ j /= n
                 /\ \E g \in msgs' : GrantsUnlock(n, g) /\ g.to = j /\ g.id = entries[j][c].id
                                     /\ g.toInst = Inst(j)
<1>1. stage'[j] = "UnLocking"
  BY DEF Unlocked
<1>2. /\ stage[j] \in Later /\ c \in DOMAIN entries[j] /\ entries'[j][c].id = entries[j][c].id
      /\ j = n => (entries'[j][c].done => Unlocked(j, c))
  <2>1. CASE j = n
    <3>1. GoesOn(n)
      BY <1>1, <2>1 DEF Turn, Advances, Completes, Later
    <3>2. QED
      BY <1>1, <2>1, <3>1 DEF GoesOn
  <2>2. CASE j /= n
    BY <1>1, <2>2 DEF Turn, Alone, Later
  <2>3. QED
    BY <2>1, <2>2
<1>3. table'[j][j].inst = Inst(j)
  <2>1. CASE j = n
    BY <1>1, <2>1 DEF Turn, Lives
  <2>2. CASE j /= n
    BY <2>2 DEF Turn, Alone, Inst
  <2>3. QED
    BY <2>1, <2>2
<1>4. HandOf(j, c, entries[j][c].id) /\ c \in Nodes /\ c /= j /\ entries[j][c].id \in 0..MaxLockId
  BY <1>2, LaterHolds, Numbers
<1>5. CASE entries'[j][c].done
  <2>1. CASE j = n
    BY <1>1, <1>2, <1>3, <1>5, <2>1
  <2>2. CASE j /= n
    <3>1. stage[j] = "UnLocking" /\ entries[j][c].done
      BY <1>1, <1>5, <2>2 DEF Turn, Alone
    <3>2. QED
      BY <1>1, <1>2, <1>3, <3>1 DEF Unlocked
  <2>3. QED
    BY <2>1, <2>2
<1>6. CASE \E g \in msgs' : /\ g.kind = "UnlockGrant" /\ g.from = c /\ g.to = j
                            /\ g.toInst = table'[j][j].inst /\ g.id = entries'[j][c].id
  <2>1. PICK g \in msgs' : /\ g.kind = "UnlockGrant" /\ g.from = c /\ g.to = j
                           /\ g.toInst = table'[j][j].inst /\ g.id = entries'[j][c].id
    BY <1>6
  <2>2. CASE g \in msgs
    <3>1. OnlyWith(g.to, g.toInst, g.from, g.id)
      BY <2>1, <2>2 DEF RingInv, UnlocksMatch
    <3>2. stage[j] = "UnLocking"
      BY <1>2, <1>4, <2>1, <3>1 DEF OnlyWith
    <3>3. Unlocked(j, c)
      BY <1>2, <1>3, <2>1, <2>2, <3>2 DEF Unlocked
    <3>4. QED
      BY <1>1, <1>2, <1>3, <3>3
  <2>3. CASE g \notin msgs
    <3>1. Sends(n, g)
      BY <2>3 DEF Turn
    <3>2. c = n /\ GrantsUnlock(n, g)
      BY <2>1, <3>1 DEF Sends
    <3>3. QED
      BY <1>1, <1>2, <1>3, <1>4, <2>1, <3>2
  <2>4. QED
    BY <2>2, <2>3
<1>7. entries'[j][c].done \/ \E g \in msgs' : /\ g.kind = "UnlockGrant" /\ g.from = c /\ g.to = j
                            /\ g.toInst = table'[j][j].inst /\ g.id = entries'[j][c].id
  BY DEF Unlocked, Inst
<1>8. QED
  BY <1>5, <1>6, <1>7

\* A node that has all locks and may get into the ring after a step could before.
LEMMA BoundBefore ==
    ASSUME IInv, IInv', OneHand, RingInv, NEW n \in Nodes, Turn(n), NEW j \in Nodes,
           stage[j] \in Later, Bound(j)'
    PROVE  Bound(j)
<1>1. stage'[j] \in Later /\ \A c \in DOMAIN entries'[j] : Unlocked(j, c)' \/ Fresh(c, entries[j][c].id)'
        \/ entries'[j][c].id /= entries[j][c].id
  BY DEF Bound, Fresh, Phase
<1>2. DOMAIN entries'[j] = DOMAIN entries[j]
      /\ \A c \in DOMAIN entries[j] : entries'[j][c].id = entries[j][c].id
  <2>1. CASE j = n
    <3>1. GoesOn(n)
      BY <1>1, <2>1 DEF Turn, Advances, Completes, Later
    <3>2. QED
      BY <2>1, <3>1 DEF GoesOn
  <2>2. CASE j /= n
    BY <2>2 DEF Turn, Alone
  <2>3. QED
    BY <2>1, <2>2
<1>3. SUFFICES ASSUME NEW c \in DOMAIN entries[j] PROVE Unlocked(j, c) \/ Fresh(c, entries[j][c].id)
  BY DEF Bound
<1> DEFINE id == entries[j][c].id
<1>4. c \in Nodes /\ c /= j /\ id <= lock[c].id /\ Phase(c) >= Routing
  BY LaterHolds
<1>5. id \in Nat /\ lock[c].id \in Nat /\ lock'[c].id \in Nat /\ Phase(c) \in 0..4
  BY <1>4, Numbers, NumbersNext
<1>6. CASE Unlocked(j, c)'
  <2>1. CASE Unlocked(j, c)
    BY <2>1
  <2>2. CASE \E g \in msgs' : GrantsUnlock(n, g) /\ g.to = j /\ g.id = id /\ c = n
    <3>1. Phase(c) /= Shutdown /\ id = lock[c].id
      BY <2>2 DEF GrantsUnlock
    <3>2. QED
      BY <1>4, <1>5, <3>1 DEF Fresh, Routing, Shutdown
  <2>3. QED
    BY <1>2, <1>6, <2>1, <2>2, UnlockedBefore
<1>7. CASE Fresh(c, id)'
  <2>1. lock'[c].id = id /\ table'[c][c].phase = Routing
    BY <1>2, <1>7 DEF Fresh, Phase
  <2>2. lock'[c].id >= lock[c].id
    BY <1>4, <1>5 DEF Turn, Alone
  <2>3. lock[c].id = id
    BY <1>4, <1>5, <2>1, <2>2
  <2>4. Phase(c) /= Shutdown
    <3>1. Up(c, Inst(c))
      BY <1>4 DEF Up
    <3>2. table'[c][c].inst = table[c][c].inst
      BY <1>4, <3>1, UpStays DEF Inst
    <3>3. NotOlder(table'[c][c], table[c][c])
      <4>1. CASE c = n
        BY <4>1 DEF Turn, RowGrows
      <4>2. CASE c /= n
        BY <1>4, <4>2, Numbers DEF Turn, Alone, NotOlder
      <4>3. QED
        BY <4>1, <4>2
    <3>4. QED
      BY <1>4, <2>1, <3>2, <3>3, Numbers DEF NotOlder, Phase, Routing, Shutdown
  <2>5. QED
    BY <1>4, <1>5, <2>3, <2>4 DEF Fresh, Routing, Shutdown
<1>8. QED
  BY <1>1, <1>2, <1>6, <1>7

\* Stages and phases fit after the step.
LEMMA StagesNext ==
    ASSUME RingInv, NEW n \in Nodes, Turn(n)
    PROVE  StagesFit'
<1> SUFFICES ASSUME NEW j \in Nodes PROVE StagePhase(j)'
  BY DEF StagesFit
<1>1. CASE j = n
  BY <1>1 DEF Turn, Lives
<1>2. CASE j /= n
  <2>1. StagePhase(j)
    BY DEF RingInv, StagesFit
  <2>2. /\ table'[j] = table[j] /\ stage'[j] = stage[j]
        /\ entries'[j] = entries[j] /\ calls'[j] = calls[j]
    BY <1>2 DEF Turn, Alone
  <2>3. QED
    BY <2>1, <2>2 DEF StagePhase, Starting, Phase
<1>3. QED
  BY <1>1, <1>2

\* Nobody gets older.
LEMMA SelfGrows ==
    ASSUME IInv, NEW n \in Nodes, Turn(n), NEW k \in Nodes
    PROVE  NotOlder(table'[k][k], table[k][k])
<1>1. CASE k = n
  BY <1>1 DEF Turn, RowGrows
<1>2. CASE k /= n
  BY <1>2, Numbers DEF Turn, Alone, NotOlder
<1>3. QED
  BY <1>1, <1>2

\* Who must start over is about to, or is not bound for the ring.
LEMMA BoundOrNot ==
    ASSUME NEW j
    PROVE  MustRestart(j) <=> Starting(j) \/ (stage[j] \in Later /\ Phase(j) = Inserting /\ ~Bound(j))
  BY DEF MustRestart, Starting, Bound, Fresh, Later

\* Who must start over must still, or has.
LEMMA RestartStays ==
    ASSUME IInv, IInv', OneHand, RingInv, NEW n \in Nodes, Turn(n), NEW k \in Nodes, MustRestart(k)
    PROVE  MustRestart(k)' \/ table'[k][k].inst > Inst(k)
<1>1. SUFFICES ASSUME ~(table'[k][k].inst > Inst(k)), ~Starting(k)' PROVE MustRestart(k)'
  BY DEF MustRestart, Starting
<1>2. ~Starting(k)
  BY <1>1 DEF Turn, Lives, Alone, Starting
<1>3. stage[k] \in Later /\ Phase(k) = Inserting /\ ~Bound(k)
  BY <1>2, BoundOrNot
<1>4. table'[k][k].phase >= Inserting
  BY <1>3, <1>1, SelfGrows, Numbers, NumbersNext DEF NotOlder, Inst, Phase
<1>5. StagePhase(k)' /\ stage'[k] \in Stages
  BY StagesNext DEF StagesFit, IInv
<1>6. stage'[k] \notin {"Query", "Locking"}
  <2>1. stage'[k] /= "Query"
    BY <1>3, <1>1 DEF Turn, Lives, Alone, Later
  <2>2. stage'[k] /= "Locking"
    BY <1>4, <1>5 DEF StagePhase, Phase, Joining, Inserting
  <2>3. QED
    BY <2>1, <2>2
<1>7. stage'[k] /= "Routing"
  <2>1. SUFFICES ASSUME stage'[k] = "Routing" PROVE FALSE
    OBVIOUS
  <2>2. k = n
    BY <1>3, <2>1 DEF Turn, Alone, Later
  <2>3. \A c \in DOMAIN entries[k] : Unlocked(k, c)
    BY <1>3, <2>1, <2>2 DEF Turn, Advances, Later
  <2>4. QED
    BY <1>3, <2>3 DEF Bound
<1>8. stage'[k] \in Later /\ Phase(k)' = Inserting
  <2>1. stage'[k] \in Later
    BY <1>5, <1>6, <1>7 DEF Stages, Later
  <2>2. Phase(k)' = Inserting
    BY <1>4, <1>5, <2>1 DEF StagePhase, Later, Phase, Joining, Inserting
  <2>3. QED
    BY <2>1, <2>2
<1>9. ~Bound(k)'
  BY <1>3, BoundBefore
<1>10. QED
  BY <1>8, <1>9 DEF MustRestart, Bound, Fresh, Later

\* A header stays no newer than its node.
LEMMA AtMostStays ==
    ASSUME IInv, IInv', OneHand, RingInv, NEW n \in Nodes, Turn(n), NEW k \in Nodes,
           NEW h \in Header, AtMost(h, k)
    PROVE  AtMost(h, k)'
<1>1. NotOlder(table'[k][k], table[k][k])
  BY SelfGrows
<1>2. h.inst \in Nat /\ h.phase \in Nat
  BY NodesAssumption DEF Header, Booting, Shutdown
<1>3. /\ table[k][k].inst \in Nat /\ table[k][k].phase \in Nat
      /\ table'[k][k].inst \in Nat /\ table'[k][k].phase \in Nat
  BY Numbers, NumbersNext
<1>4. MustRestart(k) => MustRestart(k)' \/ table'[k][k].inst > table[k][k].inst
  BY RestartStays DEF Inst
<1>5. QED
  BY <1>1, <1>2, <1>3, <1>4 DEF AtMost, NotOlder, Inst, Phase

\* No header is newer than its node.
LEMMA OrderNext ==
    ASSUME IInv, IInv', OneHand, RingInv, NEW n \in Nodes, Turn(n)
    PROVE  Order'
<1>1. \A i, k \in Nodes : AtMost(table[i][k], k)
  BY DEF RingInv, Order
<1>2. \A m \in msgs, k \in Nodes : AtMost(m.headers[k], k)
  BY DEF RingInv, Order
<1>3. ASSUME NEW k \in Nodes, NEW h \in Header, AtMost(h, k)
      PROVE  \/ h.inst < table'[k][k].inst
             \/ /\ h.inst = table'[k][k].inst
                /\ h.phase <= table'[k][k].phase \/ (h.phase = Shutdown /\ MustRestart(k)')
  <2>1. AtMost(h, k)'
    BY <1>3, AtMostStays
  <2>2. QED
    BY <2>1 DEF AtMost, Inst, Phase
<1>4. ASSUME NEW i \in Nodes, NEW k \in Nodes
      PROVE  \/ table'[i][k].inst < table'[k][k].inst
             \/ /\ table'[i][k].inst = table'[k][k].inst
                /\ \/ table'[i][k].phase <= table'[k][k].phase
                   \/ table'[i][k].phase = Shutdown /\ MustRestart(k)'
  <2>1. table'[i][k] \in Header /\ table'[i][k].inst \in Nat /\ table'[i][k].phase \in Nat
    BY NumbersNext
  <2>2. CASE i = k
    BY <2>1, <2>2
  <2>3. CASE i /= k
    <3>1. AtMost(table'[i][k], k)
      <4>1. CASE i = n
        BY <2>3, <4>1 DEF Turn, RowGrows
      <4>2. CASE i /= n
        BY <1>1, <4>2 DEF Turn, Alone
      <4>3. QED
        BY <4>1, <4>2
    <3>2. QED
      BY <1>3, <2>1, <3>1
  <2>4. QED
    BY <2>2, <2>3
<1>5. ASSUME NEW m \in msgs', NEW k \in Nodes
      PROVE  \/ m.headers[k].inst < table'[k][k].inst
             \/ /\ m.headers[k].inst = table'[k][k].inst
                /\ \/ m.headers[k].phase <= table'[k][k].phase
                   \/ m.headers[k].phase = Shutdown /\ MustRestart(k)'
  <2>1. m.headers[k] \in Header
    BY NumbersNext
  <2>2. CASE m \in msgs
    BY <1>2, <1>3, <2>1, <2>2
  <2>3. CASE m \notin msgs
    <3>1. m.headers = table[n] \/ m.headers = table'[n]
      BY <2>3 DEF Turn, Sends
    <3>2. CASE m.headers = table[n]
      BY <1>1, <1>3, <2>1, <3>2
    <3>3. CASE m.headers = table'[n]
      BY <1>4, <3>3
    <3>4. QED
      BY <3>1, <3>2, <3>3
  <2>4. QED
    BY <2>2, <2>3
<1>6. QED
  BY <1>4, <1>5 DEF Order, AtMost, Inst, Phase

\* Who is on the way into the ring, or in it, may be known as it is.
LEMMA Present ==
    ASSUME RingInv, NEW k \in Nodes, Ring(k) \/ Entering(k)
    PROVE  ~MustRestart(k) /\ Phase(k) /= Shutdown
<1>1. StagePhase(k)
  BY DEF RingInv, StagesFit
<1>2. CASE Bound(k)
  BY <1>1, <1>2, BoundOrNot DEF Bound, StagePhase, Later, Joining, Inserting, Shutdown
<1>3. CASE Ring(k) \/ Finished(k)
  <2>1. stage[k] \notin Later /\ ~Starting(k)
    BY <1>1, <1>3 DEF Ring, Finished, StagePhase, Later, Joining, Inserting, Routing
  <2>2. QED
    BY <1>3, <2>1, BoundOrNot DEF Ring, Finished, Inserting, Routing, Shutdown
<1>4. QED
  BY <1>2, <1>3 DEF Entering

\* A header no older than one of a present node in the ring says the same.
LEMMA Sees ==
    ASSUME IInv, RingInv, NEW k \in Nodes, Ring(k) \/ Entering(k),
           NEW h \in Header, NEW g \in Header, Available(h), h.inst = Inst(k),
           NotOlder(g, h), AtMost(g, k)
    PROVE  Available(g) /\ g.inst = Inst(k)
<1>1. ~MustRestart(k) /\ Phase(k) /= Shutdown
  BY Present
<1>2. h.inst \in Nat /\ h.phase \in 0..4 /\ g.inst \in Nat /\ g.phase \in 0..4
  BY NodesAssumption DEF Header, Booting, Shutdown
<1>3. Inst(k) \in Nat /\ Phase(k) \in 0..4
  BY Numbers
<1>4. QED
  BY <1>1, <1>2, <1>3 DEF Available, NotOlder, AtMost, Inserting, Routing, Shutdown

\* What a node knows of a present one, it knows after the step.
LEMMA KnowsStill ==
    ASSUME IInv, IInv', RingInv, NEW n \in Nodes, Turn(n), NEW i \in Nodes, NEW k \in Nodes,
           Ring(k) \/ Entering(k), Knows(table[i], k), table'[k][k].inst = Inst(k),
           i /= k \/ Phase(k)' \in {Inserting, Routing}
    PROVE  Available(table'[i][k]) /\ table'[i][k].inst = table'[k][k].inst
<1>1. CASE i = k
  BY <1>1 DEF Available, Phase
<1>2. CASE i /= n
  BY <1>2 DEF Turn, Alone, Knows
<1>3. CASE i = n /\ i /= k
  <2>1. NotOlder(table'[n][k], table[n][k]) /\ AtMost(table'[n][k], k)
    BY <1>3 DEF Turn, RowGrows
  <2>2. table'[n][k] \in Header /\ table[n][k] \in Header
    BY Numbers, NumbersNext
  <2>3. Available(table[n][k]) /\ table[n][k].inst = Inst(k)
    BY <1>3 DEF Knows
  <2>4. Available(table'[n][k]) /\ table'[n][k].inst = Inst(k)
    BY <2>1, <2>2, <2>3, Sees
  <2>5. QED
    BY <1>3, <2>4
<1>4. QED
  BY <1>1, <1>2, <1>3

\* Whoever is in the ring, or counts as being in it, after the step did before, or the
\* step is the ring node c releasing its lock, which k had.
LEMMA InBefore ==
    ASSUME IInv, IInv', OneHand, RingInv, NEW n \in Nodes, Turn(n), NEW k \in Nodes, NEW c \in Nodes,
           Ring(c), In(k, c)'
    PROVE  /\ In(k, c) \/ (c = n /\ k /= n /\ HandOf(k, c, lock[c].id) /\ stage[k] \in Later)
           /\ table'[k][k].inst = Inst(k)
<1>1. StagePhase(k) /\ StagePhase(k)' /\ NotOlder(table'[k][k], table[k][k])
  BY StagesNext, SelfGrows DEF RingInv, StagesFit
<1>2. CASE Ring(k)'
  <2>1. table'[k][k].phase = Routing
    BY <1>2 DEF Ring, Phase
  <2>2. Phase(k) = Routing \/ Finished(k)
    <3>1. CASE k = n
      BY <2>1, <3>1 DEF Turn, Lives
    <3>2. CASE k /= n
      BY <2>1, <3>2 DEF Turn, Alone, Phase
    <3>3. QED
      BY <3>1, <3>2
  <2>3. table'[k][k].inst = Inst(k)
    <3>1. stage'[k] /= "Query"
      BY <1>1, <2>1 DEF StagePhase, Phase, Joining, Inserting, Routing
    <3>2. CASE k = n
      BY <3>1, <3>2 DEF Turn, Lives
    <3>3. CASE k /= n
      BY <3>3 DEF Turn, Alone, Inst
    <3>4. QED
      BY <3>2, <3>3
  <2>4. QED
    BY <2>2, <2>3 DEF In, Ring
<1>3. CASE Finished(k)'
  <2>1. stage'[k] = "Routing" /\ table'[k][k].phase = Inserting
    BY <1>3 DEF Finished, Phase
  <2>2. table'[k][k].inst = Inst(k)
    <3>1. CASE k = n
      BY <2>1, <3>1 DEF Turn, Lives
    <3>2. CASE k /= n
      BY <3>2 DEF Turn, Alone, Inst
    <3>3. QED
      BY <3>1, <3>2
  <2>3. CASE stage[k] = "Routing"
    <3>1. Phase(k) <= Inserting
      BY <1>1, <2>1, <2>2, Numbers, NumbersNext DEF NotOlder, Inst, Phase, Inserting
    <3>2. Phase(k) = Inserting
      BY <1>1, <2>3, <3>1 DEF StagePhase, Inserting, Routing, Shutdown
    <3>3. QED
      BY <2>2, <2>3, <3>2 DEF In, Finished
  <2>4. CASE stage[k] /= "Routing"
    <3>1. k = n
      BY <2>1, <2>4 DEF Turn, Alone
    <3>2. stage[k] = "UnLocking" /\ \A x \in DOMAIN entries[k] : Unlocked(k, x)
      BY <2>1, <2>4, <3>1 DEF Turn, Advances
    <3>3. Bound(k)
      BY <3>2 DEF Bound, Later
    <3>4. c \in DOMAIN entries[k]
      BY <3>3 DEF RingInv, Covered, BoundTo
    <3>5. QED
      BY <2>2, <3>2, <3>3, <3>4 DEF In
  <2>5. QED
    BY <2>3, <2>4
<1>4. CASE Bound(k)' /\ c \in DOMAIN entries'[k] /\ Unlocked(k, c)'
  <2>1. /\ stage[k] \in Later /\ c \in DOMAIN entries[k] /\ table'[k][k].inst = Inst(k)
        /\ \/ Unlocked(k, c)
           \/ c = n /\ k /= n /\ \E g \in msgs' : GrantsUnlock(n, g) /\ g.id = entries[k][c].id
    BY <1>4, UnlockedBefore
  <2>2. Bound(k)
    BY <1>4, <2>1, BoundBefore
  <2>3. CASE Unlocked(k, c)
    BY <2>1, <2>2, <2>3 DEF In
  <2>4. CASE c = n /\ k /= n /\ \E g \in msgs' : GrantsUnlock(n, g) /\ g.id = entries[k][c].id
    <3>1. entries[k][c].id = lock[c].id
      BY <2>4 DEF GrantsUnlock
    <3>2. HandOf(k, c, entries[k][c].id)
      BY <2>1, LaterHolds
    <3>3. QED
      BY <2>1, <2>4, <3>1, <3>2
  <2>5. QED
    BY <2>1, <2>3, <2>4
<1>5. QED
  BY <1>2, <1>3, <1>4 DEF In

\* A lock that is fresh after the step was before: it is one of a node that was in the
\* ring, and of an id issued.
LEMMA FreshBefore ==
    ASSUME IInv, IInv', RingInv, NEW n \in Nodes, Turn(n), NEW c \in Nodes, NEW inst, Up(c, inst),
           NEW id \in Nat, id <= lock[c].id, lock'[c].id = id, table'[c][c].phase = Routing
    PROVE  Fresh(c, id)
<1>1. id \in Nat /\ lock[c].id \in Nat /\ lock'[c].id \in Nat /\ Phase(c) \in 0..4 /\ Phase(c) >= Routing
  BY Numbers, NumbersNext DEF Up
<1>2. lock'[c].id >= lock[c].id
  BY <1>1 DEF Turn, Alone
<1>3. lock[c].id = id
  BY <1>1, <1>2
<1>4. Phase(c) /= Shutdown
  <2>1. table'[c][c].inst = table[c][c].inst
    BY UpStays DEF Inst
  <2>2. NotOlder(table'[c][c], table[c][c])
    BY SelfGrows
  <2>3. QED
    BY <2>1, <2>2, Numbers DEF NotOlder, Phase, Routing, Shutdown
<1>5. QED
  BY <1>1, <1>3, <1>4 DEF Fresh, Routing, Shutdown

\* A message gives a lock of a node that was in the ring, with an id issued.
LEMMA GivesUp ==
    ASSUME IInv, OneHand, RingInv, NEW m \in msgs, NEW c \in Nodes, NEW id \in 0..MaxLockId, Giving(m, c, id)
    PROVE  id <= lock[c].id /\ \E inst : Up(c, inst)
<1>1. id <= lock[c].id
  BY DEF OneHand
<1>2. CASE m.kind = "LockGrant" /\ ~m.renew /\ m.from = c
  BY <1>1, <1>2 DEF RingInv, HandsUp
<1>3. CASE m.kind = "TransferReply" /\ \E x \in m.locks : x.node = c
  BY <1>1, <1>3 DEF RingInv, HandsUp
<1>4. QED
  BY <1>2, <1>3 DEF Giving

\* Who has a lock of a ring node and collects more, knows who is in the ring for it.
LEMMA HandTells ==
    ASSUME IInv, IInv', OneHand, RingInv, NEW n \in Nodes, Turn(n), stage[n] = "Locking",
           NEW c \in DOMAIN entries'[n], Holding(n, c) \/ Taking(n, c),
           Fresh(c, entries'[n][c].id), NEW k \in Nodes, In(k, c)
    PROVE  k /= n /\ Available(table'[n][k]) /\ table'[n][k].inst = Inst(k)
<1>1. k /= n
  BY DEF RingInv, StagesFit, StagePhase, In, Ring, Finished, Bound, Later, Joining, Routing
<1>2. c \in Nodes /\ c /= n
  BY NumbersNext
<1>3. Ring(k) \/ Entering(k)
  BY DEF In, Entering
<1>4. table'[n][k] \in Header /\ AtMost(table'[n][k], k)
  BY <1>1, NumbersNext DEF Turn, RowGrows
<1>5. CASE Holding(n, c)
  <2>1. c \in DOMAIN entries[n] /\ entries[n][c].done /\ Fresh(c, entries[n][c].id)
    BY <1>5 DEF Holding, Has, Later
  <2>2. Knows(table[n], k)
    BY <2>1 DEF RingInv, LocksTell
  <2>3. NotOlder(table'[n][k], table[n][k]) /\ table[n][k] \in Header
    BY Numbers DEF Turn, RowGrows
  <2>4. QED
    BY <1>1, <1>3, <1>4, <2>2, <2>3, Sees DEF Knows
<1>6. CASE Taking(n, c)
  <2>1. PICK m \in msgs : Meets(n, m) /\ Giving(m, c, entries'[n][c].id)
    BY <1>6 DEF Taking
  <2>2. Giving(m, c, lock[c].id) /\ Ring(c)
    BY <2>1 DEF Fresh, Ring
  <2>3. Knows(m.headers, k)
    BY <1>2, <2>2 DEF RingInv, LocksTell
  <2>4. NotOlder(table'[n][k], m.headers[k]) /\ m.headers[k] \in Header
    BY <1>1, <2>1, Numbers DEF Meets
  <2>5. QED
    BY <1>1, <1>3, <1>4, <2>3, <2>4, Sees DEF Knows
<1>7. QED
  BY <1>5, <1>6

\* A lock in hand is one of a node that was in the ring.
LEMMA GraspUp ==
    ASSUME IInv, IInv', RingInv, NEW n \in Nodes, Turn(n), NEW c \in DOMAIN entries'[n],
           Holding(n, c) \/ Taking(n, c)
    PROVE  Up(c, entries'[n][c].inst)
<1>1. CASE Holding(n, c)
  BY <1>1 DEF Holding, Has, RingInv, HandsUp
<1>2. CASE Taking(n, c)
  BY <1>2 DEF Taking
<1>3. QED
  BY <1>1, <1>2

\* A node that gets all its locks: all ring nodes are among its entries, and nobody else
\* is on the way into the ring.
LEMMA BoundNow ==
    ASSUME IInv, IInv', OneHand, OneHand', RingInv, NEW n \in Nodes, Turn(n), Completes(n), Bound(n)'
    PROVE  /\ \A i \in Nodes : ~Entering(i)
           /\ \A x \in Nodes : Ring(x) =>
                 /\ x /= n /\ x \in DOMAIN entries'[n] /\ table[x][n].inst = Inst(n)
                 /\ Available(table'[n][x]) /\ table'[n][x].inst = Inst(x)
<1>1. /\ stage[n] = "Locking" /\ stage'[n] = "Establishing" /\ DOMAIN entries'[n] = Hood(table'[n], n)
      /\ DOMAIN entries'[n] /= {} /\ \A c \in DOMAIN entries'[n] : entries'[n][c].known
  BY DEF Completes, Turn, Advances, Later
<1>2. ASSUME NEW c \in DOMAIN entries'[n]
      PROVE  /\ c \in Nodes /\ c /= n /\ Fresh(c, entries'[n][c].id) /\ Ring(c)
             /\ Holding(n, c) \/ Taking(n, c)
             /\ Up(c, entries'[n][c].inst)
             /\ table[c][n].inst = Inst(n)
  <2>1. c \in Nodes /\ c /= n
    BY NumbersNext
  <2>2. Holding(n, c) \/ Taking(n, c)
    BY <1>1 DEF Turn, Grasps, Later
  <2>3. Up(c, entries'[n][c].inst)
    BY <2>2, GraspUp
  <2>4. lock'[c].id = entries'[n][c].id /\ table'[c][c].phase = Routing
    <3>1. ~Unlocked(n, c)'
      BY <1>1 DEF Unlocked
    <3>2. QED
      BY <3>1 DEF Bound, Fresh, Phase
  <2>5. Fresh(c, entries'[n][c].id) /\ Ring(c)
    BY <2>1, <2>4 DEF Turn, Alone, Fresh, Phase, Ring
  <2>6. table[c][n].inst = Inst(n)
    BY <1>1 DEF Turn, EntriesFit
  <2>7. QED
    BY <2>1, <2>2, <2>3, <2>5, <2>6
<1>3. ASSUME NEW c \in DOMAIN entries'[n], NEW k \in Nodes, In(k, c)
      PROVE  /\ k /= n /\ k \in DOMAIN entries'[n]
             /\ Available(table'[n][k]) /\ table'[n][k].inst = Inst(k)
  <2>1. k /= n /\ Available(table'[n][k]) /\ table'[n][k].inst = Inst(k)
    BY <1>1, <1>2, <1>3, HandTells
  <2>2. QED
    BY <1>1, <2>1 DEF Hood
<1>4. PICK c : c \in DOMAIN entries'[n]
  BY <1>1
<1>5. ASSUME NEW i \in Nodes, In(i, c) PROVE Phase(i) >= Routing
  BY <1>2, <1>3, <1>4, <1>5 DEF Up
<1>6. ASSUME NEW i \in Nodes, Entering(i) PROVE FALSE
  <2>1. ~(Phase(i) >= Routing)
    BY <1>6 DEF RingInv, StagesFit, StagePhase, Entering, Bound, Finished, Later, Joining, Inserting, Routing
  <2>2. CASE Finished(i)
    BY <1>5, <2>1, <2>2 DEF In
  <2>3. CASE Bound(i)
    <3>1. c \in DOMAIN entries[i]
      BY <1>2, <1>4, <2>3 DEF RingInv, Covered, BoundTo
    <3>2. CASE Unlocked(i, c)
      BY <1>5, <2>1, <2>3, <3>1, <3>2 DEF In
    <3>3. CASE Fresh(c, entries[i][c].id)
      <4>1. stage[i] \in Later /\ i /= n
        BY <1>1, <2>3 DEF Bound, Later
      <4>2. PICK id \in 0..MaxLockId : id = lock[c].id
        BY <1>2, <1>4, Numbers
      <4>3. HandOf(i, c, id)'
        <5>1. stage'[i] \in Later /\ c \in DOMAIN entries'[i] /\ entries'[i][c].id = id
          BY <3>1, <3>3, <4>1, <4>2 DEF Turn, Alone, Fresh
        <5>2. QED
          BY <5>1 DEF HandOf, Later
      <4>4. HandOf(n, c, id)'
        <5>1. entries'[n][c].id = id
          BY <1>2, <1>4, <4>2 DEF Fresh
        <5>2. QED
          BY <1>1, <1>4, <5>1 DEF HandOf
      <4>5. c \in Nodes
        BY <1>2, <1>4
      <4>6. QED
        BY <4>1, <4>3, <4>4, <4>5 DEF OneHand
    <3>4. QED
      BY <2>3, <3>1, <3>2, <3>3 DEF Bound
  <2>4. QED
    BY <1>6, <2>2, <2>3 DEF Entering
<1>7. ASSUME NEW x \in Nodes, Ring(x)
      PROVE  /\ x /= n /\ x \in DOMAIN entries'[n] /\ table[x][n].inst = Inst(n)
             /\ Available(table'[n][x]) /\ table'[n][x].inst = Inst(x)
  <2>1. In(x, c)
    BY <1>7 DEF In
  <2>2. QED
    BY <1>2, <1>3, <1>4, <2>1
<1>8. QED
  BY <1>6, <1>7

\* Whoever is on the way into the ring was before, unless it gets all its locks now.
LEMMA EnteringBefore ==
    ASSUME IInv, IInv', OneHand, RingInv, NEW n \in Nodes, Turn(n), NEW j \in Nodes, Entering(j)'
    PROVE  \/ j = n /\ Completes(n) /\ Bound(n)' /\ table'[n][n].inst = Inst(n)
           \/ /\ Entering(j) /\ table'[j][j].inst = Inst(j)
              /\ Bound(j)' => Bound(j)
              /\ Finished(j)' => Finished(j) \/ (Bound(j) /\ \A c \in DOMAIN entries[j] : Unlocked(j, c))
<1>1. StagePhase(j) /\ StagePhase(j)' /\ NotOlder(table'[j][j], table[j][j])
  BY StagesNext, SelfGrows DEF RingInv, StagesFit
<1>2. stage'[j] \in Later \/ (stage'[j] = "Routing" /\ table'[j][j].phase = Inserting)
  BY DEF Entering, Bound, Finished, Phase
<1>3. table'[j][j].inst = Inst(j)
  <2>1. CASE j = n
    BY <1>2, <2>1 DEF Turn, Lives, Later
  <2>2. CASE j /= n
    BY <2>2 DEF Turn, Alone, Inst
  <2>3. QED
    BY <2>1, <2>2
<1>4. CASE stage'[j] \in Later
  <2>1. Bound(j)' /\ ~Finished(j)'
    BY <1>4 DEF Entering, Finished, Later
  <2>2. CASE stage[j] \in Later
    <3>1. Bound(j)
      BY <2>1, <2>2, BoundBefore
    <3>2. QED
      BY <1>3, <2>1, <3>1 DEF Entering
  <2>3. CASE stage[j] \notin Later
    <3>1. j = n
      BY <1>4, <2>3 DEF Turn, Alone
    <3>2. Completes(n)
      BY <1>4, <2>3, <3>1 DEF Turn, Advances, GoesOn
    <3>3. QED
      BY <1>3, <2>1, <3>1, <3>2
  <2>4. QED
    BY <2>2, <2>3
<1>5. CASE stage'[j] = "Routing" /\ table'[j][j].phase = Inserting
  <2>1. ~Bound(j)'
    BY <1>5 DEF Bound, Later
  <2>2. CASE stage[j] = "Routing"
    <3>1. Phase(j) <= Inserting
      BY <1>1, <1>3, <1>5, Numbers, NumbersNext DEF NotOlder, Inst, Phase, Inserting
    <3>2. Phase(j) = Inserting
      BY <1>1, <2>2, <3>1 DEF StagePhase, Inserting, Routing, Shutdown
    <3>3. QED
      BY <1>3, <2>1, <2>2, <3>2 DEF Entering, Finished
  <2>3. CASE stage[j] /= "Routing"
    <3>1. j = n
      BY <1>5, <2>3 DEF Turn, Alone
    <3>2. stage[j] = "UnLocking" /\ \A x \in DOMAIN entries[j] : Unlocked(j, x)
      BY <1>5, <2>3, <3>1 DEF Turn, Advances
    <3>3. Bound(j)
      BY <3>2 DEF Bound, Later
    <3>4. QED
      BY <1>3, <2>1, <3>2, <3>3 DEF Entering
  <2>4. QED
    BY <2>2, <2>3
<1>6. QED
  BY <1>2, <1>4, <1>5

\* One at a time is on the way into the ring.
LEMMA OneEntersNext ==
    ASSUME IInv, IInv', OneHand, OneHand', RingInv, NEW n \in Nodes, Turn(n)
    PROVE  OneEnters'
<1> SUFFICES ASSUME NEW i \in Nodes, NEW j \in Nodes, Entering(i)', Entering(j)'
             PROVE  i = j
  BY DEF OneEnters
<1>1. CASE Completes(n) /\ Bound(n)'
  <2>1. \A x \in Nodes : ~Entering(x)
    BY <1>1, BoundNow
  <2>2. i = n /\ j = n
    BY <2>1, EnteringBefore
  <2>3. QED
    BY <2>2
<1>2. CASE ~(Completes(n) /\ Bound(n)')
  <2>1. Entering(i) /\ Entering(j)
    BY <1>2, EnteringBefore
  <2>2. QED
    BY <2>1 DEF RingInv, OneEnters
<1>3. QED
  BY <1>1, <1>2

\* Who is in the ring after the step was, or had been unlocked by all.
LEMMA RingBefore ==
    ASSUME IInv, IInv', RingInv, NEW n \in Nodes, Turn(n), NEW x \in Nodes, table'[x][x].phase = Routing
    PROVE  (Ring(x) \/ Finished(x)) /\ table'[x][x].inst = Inst(x)
<1>1. Phase(x) = Routing \/ Finished(x)
  <2>1. CASE x = n
    BY <2>1 DEF Turn, Lives
  <2>2. CASE x /= n
    BY <2>2 DEF Turn, Alone, Phase
  <2>3. QED
    BY <2>1, <2>2
<1>2. StagePhase(x)'
  BY StagesNext DEF StagesFit
<1>3. stage'[x] /= "Query"
  BY <1>2 DEF StagePhase, Phase, Joining, Inserting, Routing
<1>4. table'[x][x].inst = Inst(x)
  <2>1. CASE x = n
    BY <1>3, <2>1 DEF Turn, Lives
  <2>2. CASE x /= n
    BY <2>2 DEF Turn, Alone, Inst
  <2>3. QED
    BY <2>1, <2>2
<1>5. QED
  BY <1>1, <1>4 DEF Ring

\* Nodes in the ring, or finished, know each other.
LEMMA BothKnow ==
    ASSUME RingInv, NEW i \in Nodes, NEW k \in Nodes, i /= k,
           Ring(i) \/ Finished(i), Ring(k) \/ Finished(k)
    PROVE  Knows(table[i], k)
<1>1. CASE Ring(i) /\ Ring(k)
  BY <1>1 DEF RingInv, ConsistencyRule, Ring, Knows
<1>2. CASE Finished(i) /\ Finished(k)
  BY <1>2 DEF RingInv, OneEnters, Entering
<1>3. CASE Ring(i) /\ Finished(k)
  BY <1>3 DEF RingInv, Covered
<1>4. CASE Finished(i) /\ Ring(k)
  BY <1>4 DEF RingInv, Covered
<1>5. QED
  BY <1>1, <1>2, <1>3, <1>4

\* Nodes in the ring still know each other after a turn: who gets there was known to all.
LEMMA ConsistentNext ==
    ASSUME IInv, IInv', RingInv, NEW n \in Nodes, Turn(n)
    PROVE  ConsistencyRule'
<1> SUFFICES ASSUME NEW i \in Nodes, NEW k \in Nodes,
                    table'[i][i].phase = Routing, table'[k][k].phase = Routing
             PROVE  Available(table'[i][k]) /\ table'[i][k].inst = table'[k][k].inst
  BY DEF ConsistencyRule, Phase, Inst
<1>1. CASE i = k
  BY <1>1 DEF Available
<1>2. CASE i /= k
  <2>1. /\ Ring(i) \/ Finished(i)
        /\ (Ring(k) \/ Finished(k)) /\ table'[k][k].inst = Inst(k)
    BY RingBefore
  <2>2. Knows(table[i], k) /\ (Ring(k) \/ Entering(k))
    BY <1>2, <2>1, BothKnow DEF Entering
  <2>3. QED
    BY <1>2, <2>1, <2>2, KnowsStill
<1>3. QED
  BY <1>1, <1>2

\* A ring node that grants the unlock request of a bound node has met its present header.
LEMMA MetUnlocking ==
    ASSUME IInv, IInv', OneHand, RingInv, NEW n \in Nodes, Turn(n), NEW j \in Nodes, j /= n, Bound(j),
           n \in DOMAIN entries[j], NEW g \in msgs', GrantsUnlock(n, g), g.to = j, g.id = entries[j][n].id
    PROVE  Available(table'[n][j]) /\ table'[n][j].inst = Inst(j)
<1>1. PICK m \in msgs : /\ m.kind = "Unlock" /\ m.to = n /\ m.from = j /\ m.id = entries[j][n].id
                        /\ NotOlder(table'[n][j], m.headers[j])
  BY DEF GrantsUnlock
<1>2. m.headers[j].phase = Inserting /\ OnlyWith(j, m.headers[j].inst, n, entries[j][n].id)
  BY <1>1 DEF RingInv, UnlocksMatch
<1>3. HandOf(j, n, entries[j][n].id)
  BY LaterHolds DEF Bound
<1>4. m.headers[j].inst = Inst(j)
  BY <1>2, <1>3 DEF OnlyWith
<1>5. m.headers[j] \in Header /\ table'[n][j] \in Header /\ AtMost(table'[n][j], j)
  BY Numbers, NumbersNext DEF Turn, RowGrows
<1>6. QED
  BY <1>1, <1>2, <1>4, <1>5, Sees DEF Entering, Available

\* What an entering node and the ring nodes know of each other.
LEMMA CoveredNext ==
    ASSUME IInv, IInv', OneHand, OneHand', RingInv, NEW n \in Nodes, Turn(n)
    PROVE  Covered'
<1> SUFFICES ASSUME NEW j \in Nodes, NEW x \in Nodes, table'[x][x].phase = Routing, Entering(j)'
             PROVE  /\ Bound(j)' => BoundTo(j, x)'
                    /\ Finished(j)' => Knows(table[j], x)' /\ Knows(table[x], j)'
  BY DEF Covered, Ring, Phase, Entering
<1>1. (Ring(x) \/ Finished(x)) /\ table'[x][x].inst = Inst(x)
  BY RingBefore
<1>2. CASE j = n /\ Completes(n) /\ Bound(n)' /\ table'[n][n].inst = Inst(n)
  <2>1. Ring(x)
    BY <1>1, <1>2, BoundNow DEF Entering
  <2>2. /\ x /= n /\ x \in DOMAIN entries'[n] /\ table[x][n].inst = Inst(n)
        /\ Available(table'[n][x]) /\ table'[n][x].inst = Inst(x)
    BY <1>2, <2>1, BoundNow
  <2>3. table'[x][n].inst = table'[n][n].inst
    BY <1>2, <2>2 DEF Turn, Alone
  <2>4. ~Unlocked(n, x)' /\ ~Finished(n)'
    BY <1>2 DEF Completes, Unlocked, Finished
  <2>5. BoundTo(n, x)'
    BY <1>1, <2>2, <2>3, <2>4 DEF BoundTo, Knows, Inst
  <2>6. QED
    BY <1>2, <2>4, <2>5
<1>3. CASE /\ Entering(j) /\ table'[j][j].inst = Inst(j)
           /\ Bound(j)' => Bound(j)
           /\ Finished(j)' => Finished(j) \/ (Bound(j) /\ \A c \in DOMAIN entries[j] : Unlocked(j, c))
  <2>1. x /= j
    <3>1. SUFFICES ASSUME x = j PROVE FALSE
      OBVIOUS
    <3>2. Bound(j)' \/ Finished(j)'
      BY DEF Entering
    <3>3. StagePhase(j)'
      BY StagesNext DEF StagesFit
    <3>4. QED
      BY <3>1, <3>2, <3>3 DEF Bound, Finished, StagePhase, Phase, Later, Joining, Inserting, Routing
  <2>2. Ring(x)
    BY <1>1, <1>3, <2>1 DEF RingInv, OneEnters, Entering
  <2>3. ASSUME Knows(table[j], x) PROVE Knows(table[j], x)'
    <3>1. Available(table'[j][x]) /\ table'[j][x].inst = table'[x][x].inst
      BY <1>1, <2>1, <2>2, <2>3, KnowsStill
    <3>2. QED
      BY <3>1 DEF Knows, Inst
  <2>4. ASSUME Knows(table[x], j) PROVE Knows(table[x], j)'
    <3>1. Available(table'[x][j]) /\ table'[x][j].inst = table'[j][j].inst
      BY <1>3, <2>1, <2>4, KnowsStill
    <3>2. QED
      BY <3>1 DEF Knows, Inst
  <2>5. ASSUME Bound(j)' PROVE BoundTo(j, x)'
    <3>1. Bound(j) /\ BoundTo(j, x)
      BY <1>3, <2>2, <2>5 DEF RingInv, Covered
    <3>2. x \in DOMAIN entries'[j]
      <4>1. stage'[j] \in Later
        BY <2>5 DEF Bound
      <4>2. CASE j = n
        <5>1. GoesOn(n)
          BY <3>1, <4>1, <4>2 DEF Turn, Advances, Completes, Bound, Later
        <5>2. QED
          BY <3>1, <4>2, <5>1 DEF GoesOn, BoundTo
      <4>3. CASE j /= n
        BY <3>1, <4>3 DEF Turn, Alone, BoundTo
      <4>4. QED
        BY <4>2, <4>3
    <3>3. Knows(table[j], x)'
      BY <2>3, <3>1 DEF BoundTo
    <3>4. table'[x][j].inst = table'[j][j].inst
      <4>1. table[x][j].inst = Inst(j)
        BY <3>1 DEF BoundTo
      <4>2. CASE x = n
        <5>1. NotOlder(table'[x][j], table[x][j]) /\ AtMost(table'[x][j], j)
          BY <2>1, <4>2 DEF Turn, RowGrows
        <5>2. QED
          BY <1>3, <4>1, <5>1, Numbers, NumbersNext DEF NotOlder, AtMost
      <4>3. CASE x /= n
        BY <1>3, <4>1, <4>3 DEF Turn, Alone
      <4>4. QED
        BY <4>2, <4>3
    <3>5. ASSUME Unlocked(j, x)' PROVE Knows(table[x], j)'
      <4>1. /\ x \in DOMAIN entries[j]
            /\ \/ Unlocked(j, x)
               \/ /\ x = n /\ j /= n
                  /\ \E g \in msgs' : GrantsUnlock(n, g) /\ g.to = j /\ g.id = entries[j][x].id
        BY <3>2, <3>5, UnlockedBefore
      <4>2. CASE Unlocked(j, x)
        BY <2>4, <3>1, <4>2 DEF BoundTo
      <4>3. CASE /\ x = n /\ j /= n
                 /\ \E g \in msgs' : GrantsUnlock(n, g) /\ g.to = j /\ g.id = entries[j][x].id
        <5>1. Available(table'[x][j]) /\ table'[x][j].inst = Inst(j)
          BY <3>1, <4>1, <4>3, MetUnlocking
        <5>2. QED
          BY <1>3, <5>1 DEF Knows, Inst
      <4>4. QED
        BY <4>1, <4>2, <4>3
    <3>6. QED
      BY <3>2, <3>3, <3>4, <3>5 DEF BoundTo, Inst
  <2>6. ASSUME Finished(j)' PROVE Knows(table[j], x)' /\ Knows(table[x], j)'
    <3>1. CASE Finished(j)
      BY <2>2, <2>3, <2>4, <3>1 DEF RingInv, Covered
    <3>2. CASE Bound(j) /\ \A c \in DOMAIN entries[j] : Unlocked(j, c)
      BY <2>2, <2>3, <2>4, <3>2 DEF RingInv, Covered, BoundTo
    <3>3. QED
      BY <1>3, <2>6, <3>1, <3>2
  <2>7. QED
    BY <2>5, <2>6
<1>4. QED
  BY <1>2, <1>3, EnteringBefore

\* Locks still come with what their nodes know.
LEMMA LocksTellNext ==
    ASSUME IInv, IInv', OneHand, OneHand', RingInv, NEW n \in Nodes, Turn(n)
    PROVE  LocksTell'
<1>1. ASSUME NEW j \in Nodes, stage'[j] = "Locking", NEW c \in DOMAIN entries'[j], entries'[j][c].done,
             lock'[c].id = entries'[j][c].id, table'[c][c].phase = Routing, NEW k \in Nodes, In(k, c)'
      PROVE  Knows(table[j], k)'
  <2> DEFINE id == entries'[j][c].id
  <2>1. c \in Nodes /\ c /= j /\ id \in 0..MaxLockId /\ id \in Nat
    BY NumbersNext
  <2>2. CASE j = n
    <3>1. Holding(n, c) \/ Taking(n, c)
      BY <1>1, <2>2 DEF Turn, Grasps
    <3>2. stage[n] = "Locking"
      BY <1>1, <2>2, <3>1 DEF Holding, Taking
    <3>3. Fresh(c, id) /\ Ring(c)
      BY <1>1, <2>1, <2>2 DEF Turn, Alone, Fresh, Ring, Phase
    <3>4. In(k, c) /\ table'[k][k].inst = Inst(k)
      BY <1>1, <2>1, <2>2, <3>3, InBefore
    <3>5. Available(table'[n][k]) /\ table'[n][k].inst = Inst(k)
      BY <2>2, <3>1, <3>2, <3>3, <3>4, HandTells
    <3>6. QED
      BY <2>2, <3>4, <3>5 DEF Knows, Inst
  <2>3. CASE j /= n
    <3>1. stage[j] = "Locking" /\ entries'[j] = entries[j] /\ c \in DOMAIN entries[j] /\ entries[j][c].done
      BY <1>1, <2>3 DEF Turn, Alone
    <3>2. HandOf(j, c, id)
      BY <3>1 DEF HandOf
    <3>3. id <= lock[c].id /\ Up(c, entries[j][c].inst)
      BY <2>1, <3>1, <3>2 DEF OneHand, RingInv, HandsUp, Has
    <3>4. Fresh(c, id)
      BY <1>1, <2>1, <3>3, FreshBefore
    <3>5. \A i \in Nodes : HandOf(i, c, id) => i = j
      BY <2>1, <3>2 DEF OneHand
    <3>6. In(k, c) /\ table'[k][k].inst = Inst(k)
      <4>1. Ring(c) /\ id = lock[c].id
        BY <3>4 DEF Fresh, Ring
      <4>2. \/ In(k, c)
            \/ HandOf(k, c, lock[c].id) /\ stage[k] \in Later
        BY <1>1, <2>1, <4>1, InBefore
      <4>3. table'[k][k].inst = Inst(k)
        BY <1>1, <2>1, <4>1, InBefore
      <4>4. ~(HandOf(k, c, lock[c].id) /\ stage[k] \in Later)
        BY <3>1, <3>5, <4>1 DEF Later
      <4>5. QED
        BY <4>2, <4>3, <4>4
    <3>7. Knows(table[j], k)
      BY <3>1, <3>4, <3>6 DEF RingInv, LocksTell
    <3>8. (Ring(k) \/ Entering(k)) /\ k /= j
      <4>1. Ring(k) \/ Entering(k)
        BY <3>6 DEF In, Entering
      <4>2. ~(Ring(j) \/ Entering(j))
        BY <3>1 DEF RingInv, StagesFit, StagePhase, Ring, Entering, Bound, Finished, Later, Joining, Routing
      <4>3. QED
        BY <4>1, <4>2
    <3>9. Available(table'[j][k]) /\ table'[j][k].inst = table'[k][k].inst
      BY <3>6, <3>7, <3>8, KnowsStill
    <3>10. QED
      BY <3>9 DEF Knows, Inst
  <2>4. QED
    BY <2>2, <2>3
<1>2. ASSUME NEW m \in msgs', NEW c \in Nodes, NEW id \in 0..MaxLockId, id = lock'[c].id, Giving(m, c, id),
             table'[c][c].phase = Routing, NEW k \in Nodes, In(k, c)'
      PROVE  Available(m.headers[k]) /\ m.headers[k].inst = table'[k][k].inst
  <2>1. CASE m \in msgs
    <3>1. id <= lock[c].id /\ \E inst : Up(c, inst)
      BY <1>2, <2>1, GivesUp
    <3>2. id \in Nat
      OBVIOUS
    <3>3. Fresh(c, id)
      BY <1>2, <3>1, <3>2, FreshBefore
    <3>4. Ring(c) /\ lock[c].id = id
      BY <3>3 DEF Fresh, Ring
    <3>5. ~HandOf(k, c, id)
      BY <1>2, <2>1 DEF OneHand
    <3>6. In(k, c) /\ table'[k][k].inst = Inst(k)
      BY <1>2, <3>4, <3>5, InBefore
    <3>7. Knows(m.headers, k)
      BY <1>2, <2>1, <3>4, <3>6 DEF RingInv, LocksTell
    <3>8. QED
      BY <3>6, <3>7 DEF Knows
  <2>2. CASE m \notin msgs
    <3>1. Sends(n, m)
      BY <2>2 DEF Turn
    <3>2. CASE m.kind = "LockGrant" /\ ~m.renew /\ m.from = c
      <4>1. c = n /\ m.headers = table'[n]
        BY <3>1, <3>2 DEF Sends, Issues
      <4>2. Knows(table[c], k)'
        <5>1. CASE Ring(k)'
          <6>1. ConsistencyRule'
            BY ConsistentNext
          <6>2. table'[k][k].phase = Routing
            BY <5>1 DEF Ring, Phase
          <6>3. QED
            BY <1>2, <6>1, <6>2 DEF ConsistencyRule, Knows, Phase, Inst
        <5>2. CASE Finished(k)' \/ (Bound(k)' /\ Unlocked(k, c)')
          <6>1. Covered'
            BY CoveredNext
          <6>2. Ring(c)'
            BY <1>2 DEF Ring, Phase
          <6>3. QED
            BY <5>2, <6>1, <6>2 DEF Covered, BoundTo
        <5>3. QED
          BY <1>2, <5>1, <5>2 DEF In
      <4>3. QED
        BY <4>1, <4>2 DEF Knows, Inst
    <3>3. CASE m.kind = "TransferReply" /\ \E x \in m.locks : x.node = c /\ x.id = id
      <4>1. m.headers = table'[n] /\ stage[n] = "Locking" /\ HandOf(n, c, id)
        BY <3>1, <3>3 DEF Sends, HandsOver
      <4>2. c \in DOMAIN entries[n] /\ entries[n][c].done /\ entries[n][c].id = id /\ c /= n
        BY <4>1, Numbers DEF HandOf
      <4>3. Fresh(c, id) /\ Ring(c)
        BY <1>2, <4>2 DEF Turn, Alone, Fresh, Ring, Phase
      <4>4. In(k, c) /\ table'[k][k].inst = Inst(k)
        BY <1>2, <4>2, <4>3, InBefore
      <4>5. Knows(table[n], k)
        BY <4>1, <4>2, <4>3, <4>4 DEF RingInv, LocksTell
      <4>6. (Ring(k) \/ Entering(k)) /\ k /= n
        <5>1. Ring(k) \/ Entering(k)
          BY <4>4 DEF In, Entering
        <5>2. ~(Ring(n) \/ Entering(n))
          BY <4>1 DEF RingInv, StagesFit, StagePhase, Ring, Entering, Bound, Finished, Later, Joining, Routing
        <5>3. QED
          BY <5>1, <5>2
      <4>7. QED
        BY <4>1, <4>4, <4>5, <4>6, KnowsStill
    <3>4. QED
      BY <1>2, <3>2, <3>3 DEF Giving
  <2>3. QED
    BY <2>1, <2>2
<1>3. /\ \A j \in Nodes : stage'[j] = "Locking" =>
            \A c \in DOMAIN entries'[j] : entries'[j][c].done /\ Fresh(c, entries[j][c].id)' =>
               \A k \in Nodes : In(k, c)' => Knows(table[j], k)'
  BY <1>1 DEF Fresh, Phase
<1>4. \A m \in msgs', c \in Nodes : Giving(m, c, lock'[c].id) /\ table'[c][c].phase = Routing =>
               \A k \in Nodes : In(k, c)' => Available(m.headers[k]) /\ m.headers[k].inst = table'[k][k].inst
  BY <1>2, NumbersNext
<1>5. QED
  BY <1>3, <1>4 DEF LocksTell, Giving, Ring, Phase, Knows, Inst

\* Locks in hand or on their way are still of nodes that were in the ring.
LEMMA HandsUpNext ==
    ASSUME IInv, IInv', RingInv, NEW n \in Nodes, Turn(n)
    PROVE  HandsUp'
<1>1. ASSUME NEW c \in Nodes, NEW inst, Up(c, inst)
      PROVE  inst = table'[c][c].inst /\ table'[c][c].phase >= Routing
  <2>1. Up(c, inst)'
    BY <1>1, UpStays
  <2>2. QED
    BY <2>1 DEF Up, Inst, Phase
<1>2. ASSUME NEW j \in Nodes, NEW c \in DOMAIN entries'[j], entries'[j][c].done \/ stage'[j] \in Later
      PROVE  Up(c, entries'[j][c].inst) /\ c \in Nodes
  <2>1. c \in Nodes
    BY NumbersNext
  <2>2. CASE j = n
    <3>1. Holding(n, c) \/ Taking(n, c)
      BY <1>2, <2>2 DEF Turn, Grasps
    <3>2. QED
      BY <2>1, <2>2, <3>1, GraspUp
  <2>3. CASE j /= n
    BY <1>2, <2>1, <2>3 DEF Turn, Alone, RingInv, HandsUp, Has
  <2>4. QED
    BY <2>2, <2>3
<1>3. ASSUME NEW m \in msgs', m.kind = "LockGrant" /\ ~m.renew
      PROVE  \/ Up(m.from, m.headers[m.from].inst) /\ m.from \in Nodes
             \/ /\ m.headers[m.from].inst = table'[m.from][m.from].inst
                /\ table'[m.from][m.from].phase >= Routing
  <2>1. CASE m \in msgs
    BY <1>3, <2>1, Numbers DEF RingInv, HandsUp
  <2>2. CASE m \notin msgs
    <3>1. m.from = n /\ Phase(n) = Routing /\ m.headers = table'[n]
      BY <1>3, <2>2 DEF Turn, Sends, Issues
    <3>2. Up(n, Inst(n))
      BY <3>1 DEF Up, Routing
    <3>3. table'[n][n].phase >= Routing
      BY <1>1, <3>2
    <3>4. QED
      BY <3>1, <3>3
  <2>3. QED
    BY <2>1, <2>2
<1>4. ASSUME NEW m \in msgs', m.kind = "TransferReply", NEW x \in m.locks
      PROVE  Up(x.node, x.inst) /\ x.node \in Nodes
  <2>1. CASE m \in msgs
    <3>1. x.node \in Nodes
      BY <2>1 DEF IInv, MsgsOK, MsgOK, LockItem
    <3>2. QED
      BY <1>4, <2>1, <3>1 DEF RingInv, HandsUp
  <2>2. CASE m \notin msgs
    <3>1. HandOf(n, x.node, x.id) /\ Up(x.node, x.inst)
      BY <1>4, <2>2 DEF Turn, Sends, HandsOver
    <3>2. x.node \in Nodes
      BY <3>1, Numbers DEF HandOf
    <3>3. QED
      BY <3>1, <3>2
  <2>3. QED
    BY <2>1, <2>2
<1>5. /\ \A j \in Nodes : \A c \in DOMAIN entries'[j] : entries'[j][c].done \/ stage'[j] \in Later =>
            entries'[j][c].inst = table'[c][c].inst /\ table'[c][c].phase >= Routing
      /\ \A m \in msgs' : m.kind = "LockGrant" /\ ~m.renew =>
            m.headers[m.from].inst = table'[m.from][m.from].inst /\ table'[m.from][m.from].phase >= Routing
      /\ \A m \in msgs' : m.kind = "TransferReply" => \A x \in m.locks :
            x.inst = table'[x.node][x.node].inst /\ table'[x.node][x.node].phase >= Routing
  BY <1>1, <1>2, <1>3, <1>4
<1>6. QED
  BY <1>5 DEF HandsUp, Has, Up, Inst, Phase

\* A lock id that only j may have, on its way to be released, nobody else gets.
LEMMA OnlyStill ==
    ASSUME IInv, IInv', RingInv, NEW n \in Nodes, Turn(n), NEW j \in Nodes, NEW inst,
           NEW c \in Nodes, NEW id \in 0..MaxLockId, OnlyWith(j, inst, c, id)
    PROVE  OnlyWith(j, inst, c, id)'
<1>1. /\ id <= lock[c].id /\ \A x \in msgs : ~Giving(x, c, id)
      /\ \A i \in Nodes : HandOf(i, c, id) => i = j /\ stage[i] = "UnLocking" /\ inst = Inst(i)
  BY DEF OnlyWith
<1>2. id \in Nat /\ lock[c].id \in Nat /\ lock'[c].id \in Nat
  BY Numbers, NumbersNext
<1>3. lock'[c].id >= lock[c].id
  BY <1>2 DEF Turn, Alone
<1>4. id <= lock'[c].id
  BY <1>1, <1>2, <1>3
<1>5. ASSUME NEW g \in msgs', Giving(g, c, id) PROVE FALSE
  <2>1. g \notin msgs
    BY <1>1, <1>5
  <2>2. Sends(n, g)
    BY <2>1 DEF Turn
  <2>3. CASE g.kind = "LockGrant" /\ ~g.renew /\ g.from = c /\ g.id = id
    <3>1. c = n /\ lock'[n].id > lock[n].id /\ id = lock'[n].id
      BY <2>2, <2>3 DEF Sends, Issues
    <3>2. QED
      BY <1>1, <1>2, <3>1
  <2>4. CASE g.kind = "TransferReply" /\ \E x \in g.locks : x.node = c /\ x.id = id
    <3>1. stage[n] = "Locking" /\ HandOf(n, c, id)
      BY <2>2, <2>4 DEF Sends, HandsOver
    <3>2. QED
      BY <1>1, <3>1
  <2>5. QED
    BY <1>5, <2>3, <2>4 DEF Giving
<1>6. ASSUME NEW i \in Nodes, c \in DOMAIN entries'[i], entries'[i][c].id = id,
             entries'[i][c].done \/ stage'[i] \in Later
      PROVE  i = j /\ stage'[i] = "UnLocking" /\ inst = table'[i][i].inst
  <2>1. CASE i /= n
    <3>1. HandOf(i, c, id)
      BY <1>6, <2>1 DEF Turn, Alone, HandOf, Later
    <3>2. QED
      BY <1>1, <2>1, <3>1 DEF Turn, Alone, Inst
  <2>2. CASE i = n
    <3>1. Holding(n, c)
      <4>1. Holding(n, c) \/ Taking(n, c)
        BY <1>6, <2>2 DEF Turn, Grasps
      <4>2. ~Taking(n, c)
        BY <1>1, <1>6, <2>2 DEF Taking
      <4>3. QED
        BY <4>1, <4>2
    <3>2. HandOf(n, c, id)
      BY <1>6, <2>2, <3>1 DEF Holding, Has, HandOf, Later
    <3>3. n = j /\ stage[n] = "UnLocking" /\ inst = Inst(n)
      BY <1>1, <3>2
    <3>4. StagePhase(n)' /\ stage'[n] \in Stages
      BY StagesNext DEF StagesFit, IInv
    <3>5. stage'[n] \in Later
      <4>1. stage'[n] /= "Locking"
        BY <3>1, <3>3 DEF Holding
      <4>2. stage'[n] \notin {"Query", "Routing"}
        BY <1>6, <2>2, <3>4 DEF StagePhase
      <4>3. QED
        BY <3>4, <4>1, <4>2 DEF Stages, Later
    <3>6. stage'[n] = "UnLocking"
      BY <3>3, <3>5 DEF Turn, Advances, Completes, GoesOn
    <3>7. table'[n][n].inst = Inst(n)
      BY <3>6 DEF Turn, Lives
    <3>8. QED
      BY <2>2, <3>3, <3>6, <3>7
  <2>3. QED
    BY <2>1, <2>2
<1>7. QED
  BY <1>4, <1>5, <1>6 DEF OnlyWith, Giving, HandOf, Inst, Later

\* Locks are unlocked by who has them, as the instance it is.
LEMMA UnlocksMatchNext ==
    ASSUME IInv, IInv', OneHand, RingInv, NEW n \in Nodes, Turn(n)
    PROVE  UnlocksMatch'
<1>1. ASSUME NEW m \in msgs', m.kind \in {"Unlock", "UnlockGrant"}
      PROVE  m.from \in Nodes /\ m.to \in Nodes /\ m.id \in 0..MaxLockId
  BY <1>1 DEF IInv, MsgsOK, MsgOK
<1>2. ASSUME NEW m \in msgs', m.kind = "Unlock"
      PROVE  /\ m.headers[m.from].phase = Inserting
             /\ OnlyWith(m.from, m.headers[m.from].inst, m.to, m.id)
  <2>1. CASE m \in msgs
    BY <1>2, <2>1 DEF RingInv, UnlocksMatch
  <2>2. CASE m \notin msgs
    <3>1. m.from = n /\ stage[n] = "UnLocking" /\ HandOf(n, m.to, m.id) /\ m.headers = table[n]
      BY <1>2, <2>2 DEF Turn, Sends, AsksUnlock
    <3>2. m.headers[m.from].phase = Inserting /\ m.headers[m.from].inst = Inst(n)
      BY <3>1 DEF RingInv, StagesFit, StagePhase, Phase, Inst
    <3>3. OnlyWith(n, Inst(n), m.to, m.id)
      BY <1>1, <1>2, <3>1 DEF OneHand, OnlyWith
    <3>4. QED
      BY <3>1, <3>2, <3>3
  <2>3. QED
    BY <2>1, <2>2
<1>3. ASSUME NEW m \in msgs', m.kind = "UnlockGrant"
      PROVE  OnlyWith(m.to, m.toInst, m.from, m.id)
  <2>1. CASE m \in msgs
    BY <1>3, <2>1 DEF RingInv, UnlocksMatch
  <2>2. CASE m \notin msgs
    <3>1. m.from = n /\ GrantsUnlock(n, m)
      BY <1>3, <2>2 DEF Turn, Sends
    <3>2. PICK u \in msgs : /\ u.kind = "Unlock" /\ u.to = n /\ u.from = m.to /\ u.id = m.id
                            /\ m.to /= n => NotOlder(table'[n][m.to], u.headers[m.to])
      BY <3>1 DEF GrantsUnlock
    <3>3. OnlyWith(m.to, u.headers[m.to].inst, n, m.id)
      BY <3>2 DEF RingInv, UnlocksMatch
    <3>4. ASSUME NEW i \in Nodes, HandOf(i, n, m.id)
          PROVE  i = m.to /\ stage[i] = "UnLocking" /\ m.toInst = Inst(i)
      <4>1. i = m.to /\ stage[i] = "UnLocking" /\ u.headers[i].inst = Inst(i)
        BY <3>3, <3>4 DEF OnlyWith
      <4>2. i /= n
        BY <3>4, Numbers DEF HandOf
      <4>3. NotOlder(table'[n][i], u.headers[i]) /\ AtMost(table'[n][i], i)
        BY <3>2, <4>1, <4>2 DEF Turn, RowGrows
      <4>4. table'[n][i].inst = Inst(i)
        BY <4>1, <4>3, Numbers, NumbersNext DEF NotOlder, AtMost
      <4>5. QED
        BY <3>1, <4>1, <4>4 DEF GrantsUnlock
    <3>5. QED
      BY <3>1, <3>3, <3>4 DEF OnlyWith
  <2>3. QED
    BY <2>1, <2>2
<1>4. ASSUME NEW m \in msgs'
      PROVE  /\ m.kind = "Unlock" => /\ m.headers[m.from].phase = Inserting
                                     /\ OnlyWith(m.from, m.headers[m.from].inst, m.to, m.id)'
             /\ m.kind = "UnlockGrant" => OnlyWith(m.to, m.toInst, m.from, m.id)'
  <2> DEFINE inst == m.headers[m.from].inst
  <2>1. ASSUME m.kind = "Unlock" PROVE OnlyWith(m.from, inst, m.to, m.id)'
    BY <1>1, <1>2, <2>1, OnlyStill
  <2>2. ASSUME m.kind = "UnlockGrant" PROVE OnlyWith(m.to, m.toInst, m.from, m.id)'
    BY <1>1, <1>3, <2>2, OnlyStill
  <2>3. QED
    BY <1>2, <2>1, <2>2
<1>5. QED
  BY <1>4 DEF UnlocksMatch

\* What is kept of instances.
LEMMA KeptNext ==
    ASSUME IInv, IInv', RingInv, NEW n \in Nodes, Turn(n)
    PROVE  Kept'
<1>1. ASSUME NEW i \in Nodes, NEW k \in Nodes PROVE table'[i][k].inst >= table[i][k].inst
  <2>1. NotOlder(table'[i][k], table[i][k])
    <3>1. CASE i = n
      BY <3>1 DEF Turn, RowGrows
    <3>2. CASE i /= n
      BY <3>2, Numbers DEF Turn, Alone, NotOlder
    <3>3. QED
      BY <3>1, <3>2
  <2>2. QED
    BY <2>1, Numbers, NumbersNext DEF NotOlder
<1>2. ASSUME NEW m \in msgs'
      PROVE  /\ m.toInst \in 0..table'[m.from][m.to].inst
             /\ m.kind = "Fault" => m.id \in 0..(table'[m.from][m.from].inst - 1)
  <2>1. m.from \in Nodes /\ m.to \in Nodes
    BY NumbersNext
  <2>2. CASE m \in msgs
    <3>1. /\ m.toInst \in 0..table[m.from][m.to].inst
          /\ m.kind = "Fault" => m.id \in 0..(table[m.from][m.from].inst - 1)
      BY <2>2 DEF RingInv, Kept, Inst
    <3>2. /\ table'[m.from][m.to].inst >= table[m.from][m.to].inst
          /\ table'[m.from][m.from].inst >= table[m.from][m.from].inst
      BY <1>1, <2>1
    <3>3. QED
      BY <2>1, <3>1, <3>2, Numbers, NumbersNext
  <2>3. CASE m \notin msgs
    <3>1. /\ m.from = n /\ m.toInst \in 0..table'[n][m.to].inst
          /\ m.kind = "Fault" => m.id \in 0..(table[n][n].inst - 1)
      BY <2>3 DEF Turn, Sends, Inst
    <3>2. table'[n][n].inst >= table[n][n].inst
      BY <1>1
    <3>3. QED
      BY <3>1, <3>2, Numbers, NumbersNext
  <2>4. QED
    BY <2>2, <2>3
<1>3. ASSUME NEW j \in Nodes, NEW c \in DOMAIN entries'[j]
      PROVE  /\ entries'[j][c].inst <= table'[j][c].inst
             /\ entries'[j][c].known => table'[c][j].inst = table'[j][j].inst
             /\ stage'[j] \in Later => entries'[j][c].known
  <2>1. c \in Nodes /\ c /= j
    BY NumbersNext
  <2>2. CASE j = n
    <3>1. StagePhase(n)'
      BY StagesNext DEF StagesFit
    <3>2. stage'[n] /= "Query"
      BY <2>2, <3>1 DEF StagePhase
    <3>3. table'[n][n].inst = Inst(n) /\ table'[c] = table[c]
      BY <2>1, <2>2, <3>2 DEF Turn, Lives, Alone
    <3>4. entries'[n][c].inst <= table'[n][c].inst /\ (entries'[n][c].known => table[c][n].inst = Inst(n))
      BY <2>2 DEF Turn, EntriesFit
    <3>5. stage'[n] \in Later => entries'[n][c].known
      BY <2>2 DEF Turn, Advances
    <3>6. QED
      BY <2>2, <3>3, <3>4, <3>5
  <2>3. CASE j /= n
    <3>1. /\ entries'[j] = entries[j] /\ table'[j] = table[j] /\ stage'[j] = stage[j]
          /\ entries[j][c].inst <= table[j][c].inst
          /\ entries[j][c].known => table[c][j].inst = Inst(j)
          /\ stage[j] \in Later => entries[j][c].known
      BY <2>3 DEF Turn, Alone, RingInv, Kept
    <3>2. ASSUME table[c][j].inst = Inst(j) PROVE table'[c][j].inst = Inst(j)
      <4>1. CASE c = n
        <5>1. NotOlder(table'[c][j], table[c][j]) /\ AtMost(table'[c][j], j)
          BY <2>3, <4>1 DEF Turn, RowGrows
        <5>2. QED
          BY <2>1, <3>2, <5>1, Numbers, NumbersNext DEF NotOlder, AtMost
      <4>2. CASE c /= n
        BY <2>1, <3>2, <4>2 DEF Turn, Alone
      <4>3. QED
        BY <4>1, <4>2
    <3>3. QED
      BY <3>1, <3>2 DEF Inst
  <2>4. QED
    BY <2>2, <2>3
<1>4. ASSUME NEW j \in Nodes, stage'[j] \in Later PROVE DOMAIN entries'[j] /= {}
  <2>1. CASE j = n
    BY <1>4, <2>1 DEF Turn, Advances
  <2>2. CASE j /= n
    BY <1>4, <2>2 DEF Turn, Alone, RingInv, Kept
  <2>3. QED
    BY <2>1, <2>2
<1>5. QED
  BY <1>2, <1>3, <1>4 DEF Kept, Inst

\* All of it.
LEMMA TurnOK ==
    ASSUME IInv, IInv', OneHand, OneHand', RingInv, NEW n \in Nodes, Turn(n)
    PROVE  RingInv'
  BY OrderNext, StagesNext, KeptNext, HandsUpNext, UnlocksMatchNext, LocksTellNext, OneEntersNext,
     CoveredNext, ConsistentNext DEF RingInv
-----------------------------------------------------------------------------
(***************************************************************************)
(* Every step is somebody's turn: what a node learns.                      *)
(***************************************************************************)

\* A header considered is no older than what is known, and no newer than the node: a
\* ring node knows whoever is in the ring or may still get there, so that who it
\* suspects is down, or must start over.
LEMMA ConsideredGrows ==
    ASSUME IInv, RingInv, NEW n \in Nodes, NEW k \in Nodes, k /= n, NEW h \in Header, NEW isInserting,
           AtMost(h, k), NEW c, c = Considered(n, k, h, isInserting)
    PROVE  NotOlder(c, table[n][k]) /\ AtMost(c, k)
<1> DEFINE cur == table[n][k]
<1>1. /\ cur.inst \in Nat /\ cur.phase \in 0..4 /\ AtMost(cur, k)
      /\ h.inst \in Nat /\ h.phase \in 0..4 /\ Inst(k) \in Nat /\ Phase(k) \in 0..4
  <2>1. AtMost(cur, k)
    BY DEF RingInv, Order
  <2>2. cur.inst \in Nat /\ cur.phase \in 0..4 /\ Inst(k) \in Nat /\ Phase(k) \in 0..4
    BY Numbers
  <2>3. h.inst \in 0..MaxInstance /\ h.phase \in 0..4
    BY DEF Header, Booting, Shutdown
  <2>4. h.inst \in Nat
    BY <2>3, NodesAssumption
  <2>5. QED
    BY <2>1, <2>2, <2>3, <2>4
<1>2. \/ c = cur
      \/ /\ \/ c = h
            \/ /\ c = [h EXCEPT !.phase = Shutdown] /\ Suspected(n, cur, h) /\ Phase(n) = Routing
               /\ h.phase = Routing \/ cur.inst < h.inst
         /\ ~(cur.inst > h.inst) /\ ~(cur.inst = h.inst /\ cur.phase > h.phase)
  BY DEF Considered
<1>3. CASE c = cur
  BY <1>1, <1>3 DEF NotOlder
<1>4. CASE c = h /\ ~(cur.inst > h.inst) /\ ~(cur.inst = h.inst /\ cur.phase > h.phase)
  BY <1>1, <1>4 DEF NotOlder
<1>5. CASE /\ c = [h EXCEPT !.phase = Shutdown] /\ Suspected(n, cur, h) /\ Phase(n) = Routing
           /\ h.phase = Routing \/ cur.inst < h.inst
           /\ ~(cur.inst > h.inst)
  <2>1. c.inst = h.inst /\ c.phase = Shutdown
    BY <1>5, WithPhase
  <2>2. NotOlder(c, cur)
    BY <1>1, <1>5, <2>1 DEF NotOlder, Shutdown
  <2>3. ASSUME h.inst = Inst(k), Phase(k) /= Shutdown PROVE MustRestart(k)
    <3>1. h.phase \in {Inserting, Routing} /\ ~(Available(cur) /\ cur.inst = Inst(k))
      BY <1>1, <1>5, <2>3 DEF Suspected, Available
    <3>2. h.phase <= Phase(k)
      BY <2>3, <3>1, <1>1 DEF AtMost, Inserting, Routing, Shutdown
    <3>3. Phase(k) \in {Inserting, Routing}
      BY <1>1, <2>3, <3>1, <3>2 DEF Inserting, Routing, Shutdown
    <3>4. Phase(k) = Inserting
      BY <1>5, <3>1, <3>3 DEF RingInv, ConsistencyRule
    <3>5. cur.inst /= Inst(k)
      BY <1>1, <1>5, <2>3, <3>2, <3>4 DEF Inserting, Routing
    <3>6. ~Bound(k) /\ ~Finished(k)
      BY <1>5, <3>5 DEF RingInv, Covered, Ring, BoundTo, Knows
    <3>7. Starting(k) \/ stage[k] \in Later
      <4>1. StagePhase(k) /\ stage[k] \in Stages
        BY DEF RingInv, StagesFit, IInv
      <4>2. QED
        BY <3>4, <3>6, <4>1 DEF StagePhase, Finished, Later, Stages, Joining, Inserting
    <3>8. QED
      BY <3>4, <3>6, <3>7, BoundOrNot
  <2>4. h.inst <= Inst(k)
    BY <1>1 DEF AtMost
  <2>5. AtMost(c, k)
    BY <1>1, <2>1, <2>3, <2>4 DEF AtMost
  <2>6. QED
    BY <2>2, <2>5
<1>6. QED
  BY <1>2, <1>3, <1>4, <1>5

\* Who is not in the ring yet takes what it is told; a joining node is never suspected,
\* and one that asks to unlock is believed.
LEMMA ConsideredMeets ==
    ASSUME IInv, NEW n \in Nodes, NEW k \in Nodes, k /= n, NEW h \in Header, NEW isInserting,
           ~Available(table[n][n]) \/ ~Available(h) \/ (isInserting /\ h.phase /= Routing),
           NEW c, c = Considered(n, k, h, isInserting)
    PROVE  NotOlder(c, h)
<1>1. /\ table[n][k].inst \in Nat /\ table[n][k].phase \in 0..4
      /\ h.inst \in Nat /\ h.phase \in 0..4
  BY Numbers, NodesAssumption DEF Header, Booting, Shutdown
<1>2. \/ c = table[n][k] /\ (\/ table[n][k].inst > h.inst
                             \/ table[n][k].inst = h.inst /\ table[n][k].phase > h.phase)
      \/ c = h
  BY DEF Considered, Suspected
<1>3. QED
  BY <1>1, <1>2 DEF NotOlder

\* A ring node knows at least the instance it is told of, if only as one that is down.
LEMMA CatchesUp ==
    ASSUME IInv, NEW n \in Nodes, Phase(n) = Routing, NEW k \in Nodes, k /= n, NEW h \in Header,
           NEW c, c = Considered(n, k, h, FALSE)
    PROVE  c.inst >= h.inst
<1>1. table[n][k].inst \in Nat /\ h.inst \in Nat
  BY Numbers, NodesAssumption DEF Header
<1>2. PICK d : d = [h EXCEPT !.phase = Shutdown]
  OBVIOUS
<1>3. d.inst = h.inst
  BY <1>2, WithPhase
<1>4. \/ c = table[n][k] /\ table[n][k].inst >= h.inst
      \/ c = h
      \/ c = d
  BY <1>1, <1>2 DEF Considered
<1>5. c.inst = h.inst \/ c.inst >= h.inst
  BY <1>3, <1>4
<1>6. \A a \in Nat : a >= a
  OBVIOUS
<1>7. QED
  BY <1>1, <1>5, <1>6, Zenon

\* What is learned.
LEMMA LearnedGrows ==
    ASSUME IInv, RingInv, NEW n \in Nodes, NEW m,
           m.headers \in [Nodes -> Header], \A k \in Nodes : AtMost(m.headers[k], k)
    PROVE  /\ RowFits(n, Learned(n, m))
           /\ ~Available(table[n][n]) => \A k \in Nodes \ {n} : NotOlder(Learned(n, m)[k], m.headers[k])
           /\ /\ m.from \in Nodes \ {n}
              /\ \/ m.headers[m.from].phase = Joining
                 \/ m.kind = "Unlock" /\ m.headers[m.from].phase = Inserting
              => NotOlder(Learned(n, m)[m.from], m.headers[m.from])
<1> DEFINE ins(k) == m.kind = "Unlock" /\ k = m.from
           c(k) == Considered(n, k, m.headers[k], ins(k))
<1>1. \A k \in Nodes : Learned(n, m)[k] = c(k)
  BY DEF Learned
<1>2. ASSUME NEW k \in Nodes \ {n}
      PROVE  /\ NotOlder(c(k), table[n][k]) /\ AtMost(c(k), k)
             /\ (\/ ~Available(table[n][n]) \/ ~Available(m.headers[k])
                 \/ ins(k) /\ m.headers[k].phase /= Routing)
                   => NotOlder(c(k), m.headers[k])
  <2>1. m.headers[k] \in Header /\ AtMost(m.headers[k], k)
    OBVIOUS
  <2> DEFINE h == m.headers[k]
             i == ins(k)
             d == Considered(n, k, h, i)
  <2>2. NotOlder(d, table[n][k]) /\ AtMost(d, k)
    <3> HIDE DEF h, i
    <3>1. h \in Header /\ AtMost(h, k)
      BY <2>1 DEF h
    <3>2. QED
      BY <3>1, ConsideredGrows
  <2>3. ASSUME ~Available(table[n][n]) \/ ~Available(h) \/ (i /\ h.phase /= Routing) PROVE NotOlder(d, h)
    <3> HIDE DEF h, i
    <3>1. h \in Header
      BY <2>1 DEF h
    <3>2. QED
      BY <2>3, <3>1, ConsideredMeets
  <2>4. QED
    BY <2>2, <2>3
<1>3. Inserting /= Routing /\ \A h : h.phase = Joining => ~Available(h)
  BY DEF Available, Joining, Inserting, Routing
<1> HIDE DEF c
<1>4. QED
  BY <1>1, <1>2, <1>3 DEF RowFits

\* Of a message under way.
LEMMA LearnedTold ==
    ASSUME IInv, RingInv, NEW n \in Nodes, NEW m \in msgs
    PROVE  /\ RowFits(n, Learned(n, m)) /\ Learned(n, m)[n] = table[n][n] /\ RowOK(n, Learned(n, m))
           /\ Phase(n) = Joining => \A k \in Nodes \ {n} : NotOlder(Learned(n, m)[k], m.headers[k])
           /\ m.kind = "Unlock" /\ m.from /= n => NotOlder(Learned(n, m)[m.from], m.headers[m.from])
<1>1. m.headers \in [Nodes -> Header] /\ m.from \in Nodes
  BY DEF IInv, MsgsOK, MsgOK
<1>2. \A k \in Nodes : AtMost(m.headers[k], k)
  BY DEF RingInv, Order
<1>3. m.kind = "Unlock" => m.headers[m.from].phase = Inserting
  BY DEF RingInv, UnlocksMatch
<1>4. Phase(n) = Joining => ~Available(table[n][n])
  BY DEF Phase, Available, Joining, Inserting, Routing
<1>5. Learned(n, m)[n] = table[n][n] /\ RowOK(n, Learned(n, m))
  BY InHand
<1>6. QED
  BY <1>1, <1>2, <1>3, <1>4, <1>5, LearnedGrows

\* What is known as down once it is.
LEMMA GoneFits ==
    ASSUME IInv, NEW n \in Nodes, NEW t, t \in [Nodes -> Header], RowFits(n, t),
           NEW k \in Nodes, NEW inst \in Nat,
           inst < Inst(k) \/ (inst = Inst(k) /\ Phase(k) = Shutdown), k /= n \/ t[n].inst > inst
    PROVE  /\ RowFits(n, Gone(t, k, inst)) /\ Gone(t, k, inst)[n] = t[n]
<1> DEFINE g == Gone(t, k, inst)
           h == [t[k] EXCEPT !.phase = Shutdown]
<1>1. t[k] \in Header /\ t[k].inst \in Nat /\ t[k].phase \in 0..4 /\ t[n].inst \in Nat
  BY NodesAssumption DEF Header, Booting, Shutdown
<1>2. h = [inst |-> t[k].inst, phase |-> Shutdown]
  BY <1>1, WithPhase
<1>3. h.inst = t[k].inst /\ h.phase = Shutdown
  BY <1>2
<1>4. \A x \in Nodes : g[x] = IF x = k /\ t[k].inst <= inst THEN h ELSE t[x]
  BY DEF Gone
<1> HIDE DEF g, h
<1>5. ASSUME t[k].inst <= inst
      PROVE  k /= n /\ NotOlder(h, table[n][k]) /\ AtMost(h, k)
  <2>1. k /= n
    BY <1>1, <1>5
  <2>2. NotOlder(t[k], table[n][k]) /\ AtMost(t[k], k)
    BY <2>1 DEF RowFits
  <2>3. NotOlder(h, table[n][k])
    BY <1>1, <1>3, <2>2, Numbers DEF NotOlder, Shutdown
  <2>4. AtMost(h, k)
    BY <1>1, <1>3, <1>5, <2>2, Numbers DEF AtMost
  <2>5. QED
    BY <2>1, <2>3, <2>4
<1>6. g[n] = t[n]
  BY <1>4, <1>5
<1>7. RowFits(n, g)
  BY <1>4, <1>5 DEF RowFits
<1>8. QED
  BY <1>6, <1>7 DEF g
-----------------------------------------------------------------------------
(***************************************************************************)
(* The parts of a turn.                                                    *)
(***************************************************************************)

\* The node n gets the row t.
LEMMA RowIs ==
    ASSUME IInv, NEW n \in Nodes, NEW t, RowFits(n, t),
           table' = [table EXCEPT ![n] = t] \/ (UNCHANGED table /\ t = table[n])
    PROVE  /\ table'[n] = t /\ \A k \in Nodes \ {n} : table'[k] = table[k]
           /\ NotOlder(t[n], table[n][n]) => RowGrows(n)
<1>1. table'[n] = t /\ \A k \in Nodes \ {n} : table'[k] = table[k]
  BY DEF IInv
<1>2. QED
  BY <1>1 DEF RowFits, RowGrows

\* What is known fits.
LEMMA RowStays ==
    ASSUME IInv, RingInv, NEW n \in Nodes
    PROVE  RowFits(n, table[n]) /\ NotOlder(table[n][n], table[n][n])
  BY Numbers DEF RowFits, NotOlder, RingInv, Order

\* A node that stays at its stage with its entries.
LEMMA Stays ==
    ASSUME IInv, IInv', RingInv, NEW n \in Nodes, RowGrows(n), StagePhase(n)',
           stage'[n] = stage[n], entries'[n] = entries[n], table'[n][n].inst = Inst(n),
           Starting(n) => Starting(n)', table'[n][n].phase = Routing => Phase(n) = Routing \/ Finished(n)
    PROVE  Lives(n) /\ EntriesFit(n) /\ Grasps(n) /\ Advances(n)
<1>1. Lives(n)
  BY DEF Lives
<1>2. EntriesFit(n)
  <2> SUFFICES ASSUME NEW c \in DOMAIN entries[n]
               PROVE  /\ entries[n][c].inst <= table'[n][c].inst
                      /\ entries[n][c].known => table[c][n].inst = Inst(n)
    BY DEF EntriesFit
  <2>1. c \in Nodes /\ entries[n][c] \in Entry
    BY Numbers DEF IInv, EntriesOK
  <2>2. entries[n][c].inst <= table[n][c].inst /\ (entries[n][c].known => table[c][n].inst = Inst(n))
    BY DEF RingInv, Kept
  <2>3. NotOlder(table'[n][c], table[n][c])
    BY <2>1 DEF RowGrows
  <2>4. entries[n][c].inst \in Nat
    BY <2>1, NodesAssumption DEF Entry
  <2>5. QED
    BY <2>1, <2>2, <2>3, <2>4, Numbers, NumbersNext DEF NotOlder
<1>3. Grasps(n)
  BY DEF Grasps, Holding, Has
<1>4. Advances(n)
  <2>1. stage[n] \in Later => DOMAIN entries[n] /= {} /\ \A c \in DOMAIN entries[n] : entries[n][c].known
    BY DEF RingInv, Kept
  <2>2. stage[n] = "UnLocking" => \A c \in DOMAIN entries[n] : entries[n][c].done => Unlocked(n, c)
    BY DEF Unlocked
  <2>3. QED
    BY <2>1, <2>2 DEF Advances, GoesOn
<1>5. QED
  BY <1>1, <1>2, <1>3, <1>4

\* A node that starts over has nothing in hand.
LEMMA StartsOver ==
    ASSUME NEW n \in Nodes, StagePhase(n)', stage'[n] = "Query", DOMAIN entries'[n] = {},
           \/ Starting(n)' /\ table'[n][n] = table[n][n]
           \/ Starting(n) /\ stage[n] = "Query" /\ table'[n][n].inst > Inst(n) /\ table'[n][n].phase = Joining
    PROVE  Lives(n) /\ EntriesFit(n) /\ Grasps(n) /\ Advances(n)
<1>1. Lives(n)
  BY DEF Lives, Inst, Phase, Joining, Routing
<1>2. QED
  BY <1>1 DEF EntriesFit, Grasps, Advances, Later

\* Lock x is one in hand, or one that a message gives.
InReach(n, next, x) ==
    \/ /\ x \in DOMAIN entries[n] /\ entries[n][x].done
       /\ next[x].inst = entries[n][x].inst /\ next[x].id = entries[n][x].id
    \/ \E m \in msgs : Meets(n, m) /\ Giving(m, x, next[x].id) /\ Up(x, next[x].inst)

\* The entries of a node that collects locks.
Collects(n, next) ==
    /\ EntriesOK(n, next)
    /\ \A x \in DOMAIN next :
          /\ next[x].inst <= table'[n][x].inst
          /\ next[x].known => table[x][n].inst = Inst(n)
          /\ next[x].done => InReach(n, next, x)

\* They are what it has, or it has got all.
LEMMA CollectsOK ==
    ASSUME IInv, RingInv, NEW n \in Nodes, NEW next, Collects(n, next),
           stage[n] = "Locking", table'[n][n] = table[n][n],
           \/ stage'[n] = "Locking" /\ entries'[n] = next /\ calls'[n] = calls[n]
           \/ /\ stage'[n] = "Establishing" /\ AllCompleted(next) /\ DOMAIN next /= {}
              /\ calls'[n] = calls[n] \cup {"Establishing"}
              /\ DOMAIN entries'[n] = DOMAIN next /\ DOMAIN next = Hood(table'[n], n)
              /\ \A x \in DOMAIN next : entries'[n][x] = Reset(next[x])
    PROVE  Lives(n) /\ EntriesFit(n) /\ Grasps(n) /\ Advances(n)
<1>1. Phase(n) = Joining /\ ~Starting(n) /\ calls[n] \cap {"Establishing", "Routing"} = {}
  BY DEF RingInv, StagesFit, StagePhase
<1>2. DOMAIN entries'[n] = DOMAIN next
  OBVIOUS
<1>3. ASSUME NEW x \in DOMAIN next
      PROVE  /\ entries'[n][x].inst = next[x].inst /\ entries'[n][x].id = next[x].id
             /\ entries'[n][x].known = next[x].known
             /\ entries'[n][x].done \/ stage'[n] \in Later => next[x].done
             /\ stage'[n] \in Later => next[x].known
  <2>1. next[x] \in Entry
    BY DEF Collects, EntriesOK
  <2>2. /\ Reset(next[x]).id = next[x].id /\ Reset(next[x]).inst = next[x].inst
        /\ Reset(next[x]).known = next[x].known
    BY <2>1 DEF Reset, Entry
  <2>3. CASE stage'[n] = "Locking" /\ entries'[n] = next
    BY <2>3 DEF Later
  <2>4. CASE stage'[n] = "Establishing" /\ AllCompleted(next) /\ entries'[n][x] = Reset(next[x])
    BY <2>2, <2>4 DEF AllCompleted, Completed
  <2>5. QED
    BY <2>3, <2>4
<1>4. Lives(n)
  <2>1. StagePhase(n)'
    BY <1>1 DEF StagePhase, Starting, Phase, Joining, Inserting, Routing
  <2>2. QED
    BY <1>1, <2>1 DEF Lives, Phase, Inst, Joining, Routing
<1>5. EntriesFit(n)
  BY <1>2, <1>3 DEF EntriesFit, Collects
<1>6. Grasps(n)
  <2> SUFFICES ASSUME NEW x \in DOMAIN next, entries'[n][x].done \/ stage'[n] \in Later
               PROVE  Holding(n, x) \/ Taking(n, x)
    BY <1>2 DEF Grasps
  <2>1. /\ entries'[n][x].inst = next[x].inst /\ entries'[n][x].id = next[x].id /\ next[x].done
    BY <1>3
  <2>2. InReach(n, next, x)
    BY <2>1 DEF Collects
  <2>3. QED
    BY <2>1, <2>2 DEF InReach, Holding, Has, Taking
<1>7. Advances(n)
  BY <1>2, <1>3 DEF Advances, Completes, Later
<1>8. QED
  BY <1>4, <1>5, <1>6, <1>7

\* The check for completion while it collects.
LEMMA CollectedOK ==
    ASSUME IInv, CallsOK, RingInv, NEW n \in Nodes, NEW next, Collects(n, next),
           DOMAIN next = Hood(table'[n], n),
           stage[n] = "Locking", table'[n][n] = table[n][n], CheckCompletion(n, "Locking", next)
    PROVE  /\ Lives(n) /\ EntriesFit(n) /\ Grasps(n) /\ Advances(n)
           /\ \A k \in Nodes \ {n} : /\ stage'[k] = stage[k] /\ entries'[k] = entries[k]
                                     /\ calls'[k] = calls[k]
<1> DEFINE ns == NextStage("Locking", next)
           reset == [x \in DOMAIN next |-> Reset(next[x])]
           ne == IF ~AllCompleted(next) THEN next ELSE reset
           nc == calls[n] \cup NewPhase("Locking", next)
<1>1. /\ stage' = [stage EXCEPT ![n] = ns] /\ entries' = [entries EXCEPT ![n] = ne]
      /\ calls' = [calls EXCEPT ![n] = nc]
  BY DEF CheckCompletion
<1>2. \/ ns = "Locking" /\ ne = next
      \/ /\ ns = "Establishing" /\ AllCompleted(next) /\ DOMAIN next /= {}
         /\ DOMAIN ne = DOMAIN next /\ \A x \in DOMAIN next : ne[x] = Reset(next[x])
  <2>1. CASE ~AllCompleted(next)
    BY <2>1 DEF NextStage
  <2>2. CASE AllCompleted(next) /\ DOMAIN next = {}
    <3>1. next = [x \in DOMAIN next |-> next[x]]
      BY DEF Collects, EntriesOK
    <3>2. reset = next
      BY <2>2, <3>1
    <3>3. QED
      BY <2>2, <3>2 DEF NextStage
  <2>3. CASE AllCompleted(next) /\ DOMAIN next /= {}
    BY <2>3 DEF NextStage
  <2>4. QED
    BY <2>1, <2>2, <2>3
<1>3. nc = IF ns = "Establishing" THEN calls[n] \cup {"Establishing"} ELSE calls[n]
  BY <1>2 DEF NewPhase
<1> HIDE DEF ns, ne, nc
<1>4. /\ stage'[n] = ns /\ entries'[n] = ne /\ calls'[n] = nc
      /\ \A k \in Nodes \ {n} : stage'[k] = stage[k] /\ entries'[k] = entries[k] /\ calls'[k] = calls[k]
  BY <1>1 DEF IInv, CallsOK
<1>5. QED
  BY <1>2, <1>4, <1>3, CollectsOK

\* The neighbourhood of n, brought up to date.
LEMMA UpdateFits ==
    ASSUME IInv, RingInv, NEW n \in Nodes, RowGrows(n), RowOK(n, table'[n]), NEW u,
           u = UpdateNeighborhood(n, entries[n], table'[n])
    PROVE  /\ Collects(n, u) /\ DOMAIN u = Hood(table'[n], n)
           /\ \A x \in DOMAIN u : u[x].inst = table'[n][x].inst
           /\ \A x \in DOMAIN u : u[x].done => x \in DOMAIN entries[n] /\ u[x] = entries[n][x]
<1> DEFINE t == table'[n]
<1>1. EntriesOK(n, entries[n])
  BY DEF IInv
<1> HIDE DEF t
<1>2. EntriesOK(n, u) /\ DOMAIN u = Hood(t, n)
      /\ \A x \in DOMAIN u : u[x].done => x \in DOMAIN entries[n] /\ u[x] = entries[n][x]
  BY <1>1, UpdateOK DEF t
<1>3. \A x \in DOMAIN u : \/ u[x] = NewEntry(t[x].inst)
                          \/ x \in DOMAIN entries[n] /\ entries[n][x].inst >= t[x].inst /\ u[x] = entries[n][x]
  BY <1>2 DEF UpdateNeighborhood, t
<1>4. \A x \in DOMAIN u : u[x].inst = t[x].inst
  <2> TAKE x \in DOMAIN u
  <2>1. CASE u[x] = NewEntry(t[x].inst)
    BY <2>1 DEF NewEntry
  <2>2. CASE x \in DOMAIN entries[n] /\ entries[n][x].inst >= t[x].inst /\ u[x] = entries[n][x]
    <3>1. entries[n][x].inst <= table[n][x].inst /\ x \in Nodes /\ entries[n][x] \in Entry
      BY <1>1, <2>2 DEF RingInv, Kept, EntriesOK
    <3>2. NotOlder(t[x], table[n][x])
      BY <3>1 DEF RowGrows, t
    <3>3. t[x].inst \in Nat /\ entries[n][x].inst \in Nat /\ table[n][x].inst \in Nat
      BY <3>1, Numbers, NodesAssumption DEF RowOK, Header, Entry, t
    <3>4. QED
      BY <2>2, <3>1, <3>2, <3>3 DEF NotOlder
  <2>3. QED
    BY <1>3, <2>1, <2>2
<1>5. \A x \in DOMAIN u : u[x].known => table[x][n].inst = Inst(n)
  <2> TAKE x \in DOMAIN u
  <2>1. ~NewEntry(t[x].inst).known
    BY DEF NewEntry
  <2>2. x \in DOMAIN entries[n] => (entries[n][x].known => table[x][n].inst = Inst(n))
    BY DEF RingInv, Kept
  <2>3. QED
    BY <1>3, <2>1, <2>2
<1>6. \A x \in DOMAIN u : t[x].inst \in Nat
  BY <1>2, NodesAssumption DEF EntriesOK, RowOK, Header, t
<1>7. \A x \in DOMAIN u : u[x].done => InReach(n, u, x)
  BY <1>2 DEF InReach
<1>8. QED
  BY <1>2, <1>4, <1>5, <1>6, <1>7 DEF Collects, t

\* One entry replaced by another that fits.
LEMMA CollectsOneMore ==
    ASSUME NEW n \in Nodes, NEW u, Collects(n, u), NEW x \in DOMAIN u,
           NEW next, EntriesOK(n, next), DOMAIN next = DOMAIN u,
           \A y \in DOMAIN u \ {x} : next[y] = u[y],
           next[x].inst = u[x].inst, next[x].known => table[x][n].inst = Inst(n),
           next[x].done => InReach(n, next, x)
    PROVE  Collects(n, next)
<1>1. next[x].inst <= table'[n][x].inst
  BY DEF Collects
<1>2. \A y \in DOMAIN u \ {x} : next[y].done => InReach(n, next, y)
  BY DEF Collects, InReach
<1>3. QED
  BY <1>1, <1>2 DEF Collects

\* An entry replaced.
LEMMA Replaced ==
    ASSUME NEW n \in Nodes, NEW u, EntriesOK(n, u), NEW x \in DOMAIN u, NEW e \in Entry, NEW next,
           next = [u EXCEPT ![x] = e]
    PROVE  /\ EntriesOK(n, next) /\ DOMAIN next = DOMAIN u /\ next[x] = e
           /\ \A y \in DOMAIN u \ {x} : next[y] = u[y]
  BY ReplaceOK DEF EntriesOK
-----------------------------------------------------------------------------
(***************************************************************************)
(* Steps that leave stage and entries alone.                               *)
(***************************************************************************)

\* Messages that give and release nothing.
Quiet == {"Ping", "QueryReply", "LockRequest", "LockRenew", "LockRelease", "LockDeny",
          "TransferRequest", "UnlockDeny"}

\* A message that neither grants a lock, hands one over, nor has to do with unlocking.
LEMMA SendsQuiet ==
    ASSUME NEW n, NEW g, g.from = n, g.headers = table'[n], g.toInst \in 0..table'[n][g.to].inst,
           g.kind \in Quiet
    PROVE  Sends(n, g)
  BY DEF Sends, Quiet

\* The lock of n alone, with no older id.
LockGoes(n) == lock'[n].id >= lock[n].id /\ \A k \in Nodes \ {n} : lock'[k] = lock[k]

\* The changes a handler makes to the lock of its node never bring back an older id.
LEMMA LockGoesOK ==
    ASSUME IInv, NEW n \in Nodes,
           \/ UNCHANGED lock \/ lock' = ReleaseLock(n)
           \/ lock' = [lock EXCEPT ![n].held = FALSE]
           \/ \E l : lock' = [lock EXCEPT ![n] = l] /\ l.id >= lock[n].id
    PROVE  LockGoes(n)
<1>1. lock = [k \in Nodes |-> lock[k]] /\ lock[n].id \in Nat
  BY Numbers, NodesAssumption DEF IInv
<1>2. lock[n].id >= lock[n].id
  BY <1>1
<1>3. CASE UNCHANGED lock
  BY <1>2, <1>3 DEF LockGoes
<1>4. CASE lock' = ReleaseLock(n)
  BY <1>1, <1>2, <1>4 DEF LockGoes, ReleaseLock
<1>5. CASE lock' = [lock EXCEPT ![n].held = FALSE]
  <2> DEFINE l == [lock[n] EXCEPT !.held = FALSE]
  <2>1. l.id = lock[n].id
    BY DEF IInv, LockOK
  <2>2. lock' = [lock EXCEPT ![n] = l]
    BY <1>5
  <2> HIDE DEF l
  <2>3. QED
    BY <1>1, <1>2, <2>1, <2>2 DEF LockGoes
<1>6. CASE \E l : lock' = [lock EXCEPT ![n] = l] /\ l.id >= lock[n].id
  BY <1>1, <1>6 DEF LockGoes
<1>7. QED
  BY <1>3, <1>4, <1>5, <1>6

\* What is left to do of the stages is what it was.
CallsStay(n) ==
    /\ \A k \in Nodes \ {n} : calls'[k] = calls[k]
    /\ \A c \in {"Establishing", "Routing", "RestartInstance"} : c \in calls'[n] <=> c \in calls[n]

\* A node that knows more than before, and otherwise stays where it is.
LEMMA StillTurn ==
    ASSUME IInv, IInv', RingInv, NEW n \in Nodes, RowGrows(n), table'[n][n] = table[n][n],
           UNCHANGED calls \/ CallsStay(n),
           \A k \in Nodes \ {n} : table'[k] = table[k],
           \A k \in Nodes : stage'[k] = stage[k] /\ entries'[k] = entries[k], LockGoes(n),
           \A g \in msgs' \ msgs : Sends(n, g)
    PROVE  Turn(n)
<1>1. CallsStay(n)
  BY DEF CallsStay
<1>2. Alone(n)
  BY <1>1 DEF Alone, LockGoes, CallsStay
<1>3. StagePhase(n)' /\ (Starting(n) => Starting(n)')
  BY <1>1 DEF RingInv, StagesFit, StagePhase, Starting, CallsStay, Phase
<1>4. Lives(n) /\ EntriesFit(n) /\ Grasps(n) /\ Advances(n)
  BY <1>3, Stays DEF Phase, Inst
<1>5. QED
  BY <1>2, <1>4 DEF Turn, LockGoes

\* Receiving a message.
LEMMA Receives ==
    ASSUME IInv, RingInv, NEW n \in Nodes, NEW m, NEW kind, Received(n, m, kind)
    PROVE  /\ m \in msgs /\ m.kind = kind /\ m.to = n /\ m.from \in Nodes
           /\ table'[n] = Learned(n, m) /\ RowOK(n, table'[n]) /\ table'[n][n] = table[n][n]
           /\ \A k \in Nodes \ {n} : table'[k] = table[k]
           /\ RowGrows(n)
           /\ From(n, m) = table'[n][m.from] /\ From(n, m).inst \in 0..table'[n][m.from].inst
           /\ Phase(n) = Joining => Meets(n, m)
           /\ kind = "Unlock" /\ m.from /= n => NotOlder(table'[n][m.from], m.headers[m.from])
           /\ table[m.from][n].inst = Inst(n)
<1>1. /\ m \in msgs /\ m.kind = kind /\ m.to = n /\ m.toInst = Inst(n)
      /\ table' = [table EXCEPT ![n] = Learned(n, m)]
  BY DEF Received
<1>2. /\ RowFits(n, Learned(n, m)) /\ Learned(n, m)[n] = table[n][n] /\ RowOK(n, Learned(n, m))
      /\ Phase(n) = Joining => \A k \in Nodes \ {n} : NotOlder(Learned(n, m)[k], m.headers[k])
      /\ m.kind = "Unlock" /\ m.from /= n => NotOlder(Learned(n, m)[m.from], m.headers[m.from])
  BY <1>1, LearnedTold
<1>3. /\ table'[n] = Learned(n, m) /\ \A k \in Nodes \ {n} : table'[k] = table[k]
      /\ RowGrows(n)
  BY <1>1, <1>2, RowIs, RowStays
<1>4. m.from \in Nodes /\ From(n, m) = Learned(n, m)[m.from] /\ From(n, m).inst \in Nat
  BY <1>1, InHand, Numbers, NodesAssumption DEF Header
<1>5. From(n, m).inst \in 0..table'[n][m.from].inst
  BY <1>3, <1>4
<1>6. table[m.from][n].inst = Inst(n)
  <2>1. m.toInst \in 0..table[m.from][n].inst
    BY <1>1 DEF RingInv, Kept
  <2>2. AtMost(table[m.from][n], n)
    BY <1>4 DEF RingInv, Order
  <2>3. QED
    BY <1>1, <1>4, <2>1, <2>2, Numbers DEF AtMost
<1>7. QED
  BY <1>1, <1>2, <1>3, <1>4, <1>5, <1>6 DEF Meets

\* A message for another instance: the fault names one that n has had before.
LEMMA UndeliveredTurn ==
    ASSUME IInv, IInv', RingInv, NEW n \in Nodes, NEW m, Undelivered(n, m)
    PROVE  Turn(n)
<1> DEFINE t == Learned(n, m)
           inst == t[m.from].inst
           g == WithId(n, m.from, inst, "Fault", m.toInst)
<1>1. /\ m \in msgs /\ m.to = n /\ (m.toInst /= Inst(n) \/ inst = 0)
      /\ table' = [table EXCEPT ![n] = t]
      /\ UNCHANGED <<stage, entries, lock, calls>>
      /\ msgs' \subseteq msgs \cup (IF inst = 0 THEN {} ELSE {g})
  BY DEF Undelivered, Exchanged
<1>2. RowFits(n, t) /\ t[n] = table[n][n] /\ RowOK(n, t) /\ m.from \in Nodes
  BY <1>1, LearnedTold, Numbers DEF IInv, MsgsOK, MsgOK
<1>3. /\ table'[n] = t /\ \A k \in Nodes \ {n} : table'[k] = table[k]
      /\ RowGrows(n)
  BY <1>1, <1>2, RowIs, RowStays
<1>4. ASSUME NEW x \in msgs' \ msgs PROVE Sends(n, x)
  <2>1. x = g /\ m.toInst /= Inst(n)
    BY <1>1, <1>4
  <2> HIDE DEF t, inst
  <2>2. /\ x.from = n /\ x.headers = table'[n] /\ x.to = m.from /\ x.toInst = inst
        /\ x.kind = "Fault" /\ x.id = m.toInst
    BY <2>1 DEF WithId, Message
  <2>3. x.toInst \in 0..table'[n][x.to].inst
    BY <1>2, <1>3, <2>2, NumbersNext DEF inst
  <2>4. m.toInst \in 0..(Inst(n) - 1)
    <3>1. m.toInst \in 0..table[m.from][n].inst
      BY <1>1 DEF RingInv, Kept
    <3>2. AtMost(table[m.from][n], n)
      BY <1>2 DEF RingInv, Order
    <3>3. table[m.from][n].inst \in Nat /\ Inst(n) \in Nat
      BY <1>2, Numbers
    <3>4. table[m.from][n].inst <= Inst(n)
      BY <3>2, <3>3 DEF AtMost
    <3>5. QED
      BY <2>1, <3>1, <3>3, <3>4
  <2>5. QED
    BY <2>2, <2>3, <2>4 DEF Sends
<1>5. LockGoes(n)
  BY <1>1, LockGoesOK
<1>6. QED
  BY <1>1, <1>2, <1>3, <1>4, <1>5, StillTurn

\* A fault tells of an instance that is no more.
LEMMA FaultTurn ==
    ASSUME IInv, IInv', RingInv, NEW n \in Nodes, NEW m, FaultHandler(n, m)
    PROVE  Turn(n)
<1> DEFINE t == Learned(n, m)
           u == Gone(t, m.from, m.id)
<1>1. /\ m \in msgs /\ m.kind = "Fault" /\ m.to = n
      /\ table' = [table EXCEPT ![n] = u]
      /\ UNCHANGED <<stage, entries, lock, calls>> /\ msgs' \subseteq msgs
  BY DEF FaultHandler, Exchanged
<1>2. RowFits(n, t) /\ t[n] = table[n][n] /\ RowOK(n, t) /\ m.from \in Nodes
  BY <1>1, LearnedTold, Numbers DEF IInv, MsgsOK, MsgOK
<1>3. m.id \in Nat /\ m.id < Inst(m.from)
  BY <1>1, <1>2, Numbers DEF RingInv, Kept
<1>4. RowFits(n, u) /\ u[n] = table[n][n]
  <2>1. t \in [Nodes -> Header]
    BY <1>2 DEF RowOK
  <2>2. m.from /= n \/ t[n].inst > m.id
    BY <1>2, <1>3, Numbers DEF Inst
  <2> HIDE DEF t
  <2>3. QED
    BY <1>2, <1>3, <2>1, <2>2, GoneFits
<1> HIDE DEF u
<1>5. /\ table'[n] = u /\ \A k \in Nodes \ {n} : table'[k] = table[k]
      /\ RowGrows(n)
  BY <1>1, <1>4, RowIs, RowStays
<1>6. LockGoes(n)
  BY <1>1, LockGoesOK
<1>7. QED
  BY <1>1, <1>4, <1>5, <1>6, StillTurn

\* What is heard of a node that is down.
LEMMA SetShutdownTurn ==
    ASSUME IInv, IInv', RingInv, NEW n \in Nodes, NEW k \in Nodes, SetShutdown(n, k)
    PROVE  Turn(n)
<1> DEFINE u == Gone(table[n], k, Inst(k))
<1>1. /\ Phase(k) = Shutdown /\ Phase(n) /= Shutdown /\ table' = [table EXCEPT ![n] = u]
      /\ UNCHANGED <<stage, entries, lock, calls, msgs>>
  BY DEF SetShutdown
<1>2. RowFits(n, table[n])
  BY RowStays
<1>3. RowFits(n, u) /\ u[n] = table[n][n]
  <2>1. table[n] \in [Nodes -> Header] /\ Inst(k) \in Nat /\ k /= n
    BY <1>1, Numbers DEF IInv
  <2>2. QED
    BY <1>1, <1>2, <2>1, GoneFits
<1> HIDE DEF u
<1>4. /\ table'[n] = u /\ \A i \in Nodes \ {n} : table'[i] = table[i]
      /\ RowGrows(n)
  BY <1>1, <1>3, RowIs, RowStays
<1>5. LockGoes(n)
  BY <1>1, LockGoesOK
<1>6. QED
  BY <1>1, <1>3, <1>4, <1>5, StillTurn
\* A message received that changes what is known, and perhaps the lock.
LEMMA CalmTurn ==
    ASSUME IInv, IInv', RingInv, NEW n \in Nodes, NEW m, NEW kind, Received(n, m, kind),
           UNCHANGED <<stage, entries, calls>>, LockGoes(n), \A g \in msgs' \ msgs : Sends(n, g)
    PROVE  Turn(n)
<1>1. /\ table'[n][n] = table[n][n] /\ RowGrows(n)
      /\ \A k \in Nodes \ {n} : table'[k] = table[k]
  BY Receives
<1>2. QED
  BY <1>1, StillTurn

\* A step that changes the lock or the messages, and nothing else.
LEMMA IdleTurn ==
    ASSUME IInv, IInv', RingInv, NEW n \in Nodes, UNCHANGED <<table, stage, entries>>, LockGoes(n),
           UNCHANGED calls \/ CallsStay(n),
           \A g \in msgs' \ msgs : Sends(n, g)
    PROVE  Turn(n)
<1>1. RowGrows(n) /\ \A k \in Nodes \ {n} : table'[k] = table[k]
  BY RowIs, RowStays
<1>2. QED
  BY <1>1, StillTurn

\* A message that is lost: a turn of its receiver, that changes nothing.
LEMMA LoseTurn ==
    ASSUME IInv, IInv', RingInv, NEW m \in msgs, Lose(m)
    PROVE  m.to \in Nodes /\ Turn(m.to)
<1>1. /\ msgs' \subseteq msgs /\ UNCHANGED <<table, stage, entries, lock, calls>>
  BY DEF Lose
<1>2. m.to \in Nodes
  BY DEF IInv, MsgsOK, MsgOK
<1>3. LockGoes(m.to)
  BY <1>1, <1>2, LockGoesOK
<1>4. QED
  BY <1>1, <1>2, <1>3, IdleTurn

\* A lock whose range or owner expires keeps its id.
LEMMA LockLapsesTurn ==
    ASSUME IInv, IInv', RingInv, NEW n \in Nodes, LockExpires(n) \/ ResetLock(n)
    PROVE  Turn(n)
<1>1. /\ lock' = [lock EXCEPT ![n].held = FALSE] \/ lock' = ReleaseLock(n)
      /\ UNCHANGED <<table, stage, entries, calls, msgs>>
  BY DEF LockExpires, ResetLock
<1>2. LockGoes(n)
  BY <1>1, LockGoesOK
<1>3. QED
  BY <1>1, <1>2, IdleTurn

\* A ping tells what the node knows.
LEMMA PingTurn ==
    ASSUME IInv, IInv', RingInv, NEW n \in Nodes, NEW k \in Nodes, Ping(n, k)
    PROVE  Turn(n)
<1> DEFINE inst == table[n][k].inst
           ping == Message(n, k, inst, "Ping")
<1>1. /\ UNCHANGED <<table, stage, entries, lock, calls>> /\ msgs' \subseteq msgs \cup {ping}
  BY DEF Ping
<1>2. inst = table'[n][k].inst /\ inst \in Nat
  BY <1>1, Numbers
<1> HIDE DEF inst
<1>3. ping.from = n /\ ping.headers = table'[n] /\ ping.to = k /\ ping.toInst = inst /\ ping.kind = "Ping"
  BY DEF Message
<1> HIDE DEF ping
<1>4. Sends(n, ping)
  BY <1>2, <1>3, SendsQuiet DEF Quiet
<1>5. LockGoes(n)
  BY <1>1, LockGoesOK
<1>6. QED
  BY <1>1, <1>4, <1>5, IdleTurn

\* Its receiver learns that.
LEMMA PingHandlerTurn ==
    ASSUME IInv, IInv', RingInv, NEW n \in Nodes, NEW m, PingHandler(n, m)
    PROVE  Turn(n)
<1>1. Received(n, m, "Ping") /\ UNCHANGED <<stage, entries, lock, calls>> /\ msgs' \subseteq msgs
  BY DEF PingHandler, Exchanged
<1>2. LockGoes(n)
  BY <1>1, LockGoesOK
<1>3. QED
  BY <1>1, <1>2, CalmTurn

\* The query tells of the node that asks: the answer is for what it is.
LEMMA QueryRequestTurn ==
    ASSUME IInv, IInv', RingInv, NEW n \in Nodes, NEW j \in Nodes, NeighborhoodQueryRequestHandler(n, j)
    PROVE  Turn(n)
<1> DEFINE query == [kind |-> "Query", from |-> j, headers |-> table[j], range |-> FALSE]
           inst == Inst(j)
           reply == Message(n, j, inst, "QueryReply")
<1>1. /\ stage[j] = "Query" \/ (stage[j] = "Routing" /\ Phase(j) = Joining)
      /\ Phase(n) = Routing
      /\ table' = [table EXCEPT ![n] = Learned(n, query)]
      /\ UNCHANGED <<stage, entries, lock, calls>> /\ msgs' \subseteq msgs \cup {reply}
  BY DEF NeighborhoodQueryRequestHandler
<1>2. query.headers = table[j] /\ query.from = j /\ query.kind = "Query"
  OBVIOUS
<1>3. j /= n
  BY <1>1 DEF RingInv, StagesFit, StagePhase, Joining, Inserting, Routing
<1> HIDE DEF query
<1>4. /\ RowFits(n, Learned(n, query))
      /\ Learned(n, query)[j].inst >= table[j][j].inst
  <2>1. table[j] \in [Nodes -> Header] /\ \A k \in Nodes : AtMost(table[j][k], k)
    BY DEF IInv, RingInv, Order
  <2>2. RowFits(n, Learned(n, query))
    BY <1>2, <2>1, LearnedGrows
  <2>3. Learned(n, query)[j] = Considered(n, j, table[j][j], FALSE)
    BY <1>2 DEF Learned
  <2>4. table[j][j] \in Header
    BY <2>1
  <2>5. Learned(n, query)[j].inst >= table[j][j].inst
    BY <1>1, <1>3, <2>3, <2>4, CatchesUp
  <2>6. QED
    BY <2>2, <2>5
<1>5. Learned(n, query)[n] = table[n][n]
  BY DEF Learned, Considered
<1>6. /\ table'[n] = Learned(n, query) /\ \A k \in Nodes \ {n} : table'[k] = table[k]
      /\ RowGrows(n)
  BY <1>1, <1>4, <1>5, RowIs, RowStays
<1>7. inst \in 0..table'[n][j].inst
  BY <1>4, <1>6, Numbers, NumbersNext DEF Inst
<1> HIDE DEF inst
<1>8. /\ reply.from = n /\ reply.headers = table'[n] /\ reply.to = j /\ reply.toInst = inst
      /\ reply.kind = "QueryReply"
  BY DEF Message
<1> HIDE DEF reply
<1>9. Sends(n, reply)
  BY <1>7, <1>8, SendsQuiet DEF Quiet
<1>10. LockGoes(n)
  BY <1>1, LockGoesOK
<1>11. QED
  BY <1>1, <1>5, <1>6, <1>9, <1>10, StillTurn

\* The id of a lock that is granted is a new one, and the grant tells what the node knows.
LEMMA LockRequestTurn ==
    ASSUME IInv, IInv', RingInv, NEW n \in Nodes, NEW m, LockRequestHandler(n, m)
    PROVE  Turn(n)
<1> DEFINE inst == From(n, m).inst
           id == lock'[n].id
           deny == [WithId(n, m.from, inst, "LockDeny", id) EXCEPT !.owner = DenyOwner(n, m)]
           grant == WithId(n, m.from, inst, "LockGrant", id)
<1>1. Received(n, m, "LockRequest") /\ UNCHANGED <<stage, entries, calls>>
  BY DEF LockRequestHandler
<1>2. \/ UNCHANGED lock /\ Exchanged(m, {})
      \/ UNCHANGED lock /\ Exchanged(m, {deny})
      \/ /\ Phase(n) = Routing
         /\ lock' = [lock EXCEPT ![n] = Granted(n, m, NextLockId(n))] /\ Exchanged(m, {grant})
  BY DEF LockRequestHandler
<1>3. inst \in 0..table'[n][m.from].inst
  BY <1>1, Receives
<1> HIDE DEF inst, id
<1>4. /\ deny.from = n /\ deny.headers = table'[n] /\ deny.to = m.from /\ deny.toInst = inst
      /\ deny.kind = "LockDeny"
  BY DEF WithId, Message
<1>5. /\ grant.from = n /\ grant.headers = table'[n] /\ grant.to = m.from /\ grant.toInst = inst
      /\ grant.kind = "LockGrant" /\ grant.id = id
  BY DEF WithId, Message
<1> HIDE DEF deny, grant
<1>6. CASE UNCHANGED lock /\ (Exchanged(m, {}) \/ Exchanged(m, {deny}))
  <2>1. Sends(n, deny)
    BY <1>3, <1>4, SendsQuiet DEF Quiet
  <2>2. LockGoes(n)
    BY <1>6, LockGoesOK
  <2>3. msgs' \subseteq msgs \cup {deny}
    BY <1>6 DEF Exchanged
  <2>4. QED
    BY <1>1, <2>1, <2>2, <2>3, CalmTurn
<1>7. CASE /\ Phase(n) = Routing
           /\ lock' = [lock EXCEPT ![n] = Granted(n, m, NextLockId(n))] /\ Exchanged(m, {grant})
  <2>1. Granted(n, m, NextLockId(n)).id = lock[n].id + 1
    BY DEF Granted, NextLockId
  <2>2. lock[n].id \in Nat /\ lock[n].id + 1 >= lock[n].id /\ lock[n].id + 1 > lock[n].id
    BY Numbers, NodesAssumption
  <2>3. LockGoes(n)
    BY <1>7, <2>1, <2>2, LockGoesOK
  <2>4. lock'[n].id = lock[n].id + 1
    BY <1>7, <2>1 DEF IInv
  <2>5. Issues(n, grant)
    BY <1>5, <1>7, <2>2, <2>4 DEF Issues, id
  <2>6. Sends(n, grant)
    BY <1>3, <1>5, <2>5 DEF Sends
  <2>7. msgs' \subseteq msgs \cup {grant}
    BY <1>7 DEF Exchanged
  <2>8. QED
    BY <1>1, <2>3, <2>6, <2>7, CalmTurn
<1>8. QED
  BY <1>2, <1>6, <1>7

\* JoinLockManager::LockRenewHandler grants again the id that the sender named.
LEMMA LockRenewTurn ==
    ASSUME IInv, IInv', RingInv, NEW n \in Nodes, NEW m, LockRenewHandler(n, m)
    PROVE  Turn(n)
<1> DEFINE renewed == /\ From(n, m).phase = Joining
                      /\ m.id = lock[n].id /\ lock[n].owner /= n
                      /\ Extended(n, m, Learned(n, m))
           inst == From(n, m).inst
           grant == [WithId(n, m.from, inst, "LockGrant", m.id) EXCEPT !.renew = TRUE]
<1>1. /\ Received(n, m, "LockRenew") /\ UNCHANGED <<stage, entries, calls>>
      /\ lock' = IF renewed THEN [lock EXCEPT ![n] = Granted(n, m, m.id)] ELSE lock
      /\ Exchanged(m, IF renewed THEN {grant} ELSE {})
  BY DEF LockRenewHandler
<1>2. inst \in 0..table'[n][m.from].inst
  BY <1>1, Receives
<1>3. renewed => Granted(n, m, m.id).id = lock[n].id
  BY DEF Granted
<1> HIDE DEF inst, renewed
<1>4. /\ grant.from = n /\ grant.headers = table'[n] /\ grant.to = m.from /\ grant.toInst = inst
      /\ grant.kind = "LockGrant" /\ grant.renew = TRUE
  BY DEF WithId, Message
<1> HIDE DEF grant
<1>5. Sends(n, grant)
  BY <1>2, <1>4 DEF Sends
<1>6. LockGoes(n)
  <2>1. lock[n].id >= lock[n].id
    BY Numbers, NodesAssumption
  <2>2. QED
    BY <1>1, <1>3, <2>1, LockGoesOK
<1>7. msgs' \subseteq msgs \cup {grant}
  BY <1>1 DEF Exchanged
<1>8. QED
  BY <1>1, <1>5, <1>6, <1>7, CalmTurn

\* A lock that is released keeps its id.
LEMMA LockReleaseTurn ==
    ASSUME IInv, IInv', RingInv, NEW n \in Nodes, NEW m, LockReleaseHandler(n, m)
    PROVE  Turn(n)
<1>1. /\ Received(n, m, "LockRelease") /\ UNCHANGED <<stage, entries, calls>>
      /\ lock' = ReleaseLock(n) \/ UNCHANGED lock
      /\ msgs' \subseteq msgs
  BY DEF LockReleaseHandler, Exchanged
<1>2. LockGoes(n)
  BY <1>1, LockGoesOK
<1>3. QED
  BY <1>1, <1>2, CalmTurn

\* A lock is released to who asks, who is then known.
LEMMA UnlockTurn ==
    ASSUME IInv, IInv', RingInv, NEW n \in Nodes, NEW m, UnlockHandler(n, m), Phase(n) /= Shutdown
    PROVE  Turn(n)
<1> DEFINE granted == m.id = lock[n].id
           inst == From(n, m).inst
           kind == IF granted THEN "UnlockGrant" ELSE "UnlockDeny"
           answer == WithId(n, m.from, inst, kind, m.id)
<1>1. /\ Received(n, m, "Unlock") /\ UNCHANGED <<stage, entries, calls>>
      /\ lock' = ReleaseLock(n) \/ UNCHANGED lock
      /\ msgs' \subseteq msgs \cup {answer}
  BY DEF UnlockHandler, Exchanged
<1>2. /\ inst = table'[n][m.from].inst /\ inst \in 0..table'[n][m.from].inst
      /\ m \in msgs /\ m.kind = "Unlock" /\ m.to = n
      /\ m.from /= n => NotOlder(table'[n][m.from], m.headers[m.from])
  BY <1>1, Receives
<1>3. kind = "UnlockDeny" \/ (kind = "UnlockGrant" /\ m.id = lock[n].id)
  OBVIOUS
<1> HIDE DEF inst, kind, granted
<1>4. /\ answer.from = n /\ answer.headers = table'[n] /\ answer.to = m.from /\ answer.toInst = inst
      /\ answer.kind = kind /\ answer.id = m.id
  BY DEF WithId, Message
<1> HIDE DEF answer
<1>5. CASE kind = "UnlockDeny"
  <2>1. Sends(n, answer)
    BY <1>2, <1>4, <1>5, SendsQuiet DEF Quiet
  <2>2. LockGoes(n)
    BY <1>1, LockGoesOK
  <2>3. QED
    BY <1>1, <2>1, <2>2, CalmTurn
<1>6. CASE kind = "UnlockGrant" /\ m.id = lock[n].id
  <2>1. GrantsUnlock(n, answer)
    BY <1>2, <1>4, <1>6 DEF GrantsUnlock
  <2>2. Sends(n, answer)
    BY <1>2, <1>4, <1>6, <2>1 DEF Sends
  <2>3. LockGoes(n)
    BY <1>1, LockGoesOK
  <2>4. QED
    BY <1>1, <2>2, <2>3, CalmTurn
<1>7. QED
  BY <1>3, <1>5, <1>6
-----------------------------------------------------------------------------
(***************************************************************************)
(* Steps from stage to stage.                                              *)
(***************************************************************************)

\* Who closes was in the ring, and who gets into the ring is finished.
LEMMA PhaseTurn ==
    ASSUME IInv, IInv', CallsOK, RingInv, NEW n \in Nodes,
           Close(n) \/ StartLeaseEstablish(n) \/ StartRouting(n)
    PROVE  Turn(n)
<1>1. StagePhase(n) /\ stage[n] \in Stages
  BY DEF RingInv, StagesFit, IInv
<1>2. PICK p \in Booting..Shutdown, cs \in SUBSET calls[n] :
         /\ table' = [table EXCEPT ![n][n].phase = p] /\ calls' = [calls EXCEPT ![n] = cs]
         /\ \/ p = Shutdown /\ Phase(n) = Routing
            \/ p = Inserting /\ stage[n] = "Establishing" /\ Phase(n) = Joining /\ "Establishing" \notin cs
            \/ p = Routing /\ stage[n] = "Routing" /\ Phase(n) = Inserting /\ "Routing" \notin cs
  <2>1. {Shutdown, Inserting, Routing} \subseteq Booting..Shutdown
    BY DEF Booting, Inserting, Routing, Shutdown
  <2>2. CASE Close(n)
    <3>1. calls' = [calls EXCEPT ![n] = calls[n]]
      BY <2>2 DEF Close, CallsOK
    <3>2. QED
      BY <2>1, <2>2, <3>1 DEF Close
  <2>3. CASE StartLeaseEstablish(n)
    <3>1. stage[n] = "Establishing" /\ Phase(n) = Joining
      BY <1>1, <2>3 DEF StartLeaseEstablish, StagePhase
    <3>2. /\ table' = [table EXCEPT ![n][n].phase = Inserting]
          /\ calls' = [calls EXCEPT ![n] = calls[n] \ {"Establishing"}]
      BY <2>3, <3>1 DEF StartLeaseEstablish
    <3>3. PICK cs \in SUBSET calls[n] : cs = calls[n] \ {"Establishing"}
      OBVIOUS
    <3>4. "Establishing" \notin cs /\ calls' = [calls EXCEPT ![n] = cs]
      BY <3>2, <3>3
    <3>5. QED
      BY <2>1, <3>1, <3>2, <3>4
  <2>4. CASE StartRouting(n)
    <3>1. PICK c \in calls[n] \cap {"Establishing", "Routing"} : calls' = [calls EXCEPT ![n] = calls[n] \ {c}]
      BY <2>4 DEF StartRouting
    <3>2. stage[n] = "Routing" /\ c = "Routing" /\ Phase(n) = Inserting
      BY <1>1, <2>4, <3>1 DEF StartRouting, StagePhase
    <3>3. table' = [table EXCEPT ![n][n].phase = Routing]
      BY <2>4 DEF StartRouting
    <3>4. PICK cs \in SUBSET calls[n] : cs = calls[n] \ {"Routing"}
      OBVIOUS
    <3>5. "Routing" \notin cs /\ calls' = [calls EXCEPT ![n] = cs]
      BY <3>1, <3>2, <3>4
    <3>6. QED
      BY <2>1, <3>2, <3>3, <3>5
  <2>5. QED
    BY <2>2, <2>3, <2>4
<1>3. UNCHANGED <<stage, entries, lock, msgs>>
  BY DEF Close, StartLeaseEstablish, StartRouting
<1>4. calls'[n] = cs /\ \A k \in Nodes \ {n} : calls'[k] = calls[k]
  BY <1>2 DEF CallsOK
<1> DEFINE h == [table[n][n] EXCEPT !.phase = p]
           t == [table[n] EXCEPT ![n] = h]
<1>5. h.inst = Inst(n) /\ h.phase = p
  <2>1. table[n][n] \in Header
    BY Numbers
  <2>2. QED
    BY <2>1, WithPhase DEF Inst
<1>6. table' = [table EXCEPT ![n] = t]
  BY <1>2 DEF IInv
<1> HIDE DEF h
<1>7. t[n] = h /\ \A k \in Nodes \ {n} : t[k] = table[n][k]
  BY DEF IInv
<1> HIDE DEF t
<1>8. RowFits(n, t)
  BY <1>7, RowStays DEF RowFits
<1>9. NotOlder(t[n], table[n][n])
  BY <1>2, <1>5, <1>7, Numbers DEF NotOlder, Inst, Phase, Joining, Inserting, Routing, Shutdown
<1>10. /\ table'[n] = t /\ \A k \in Nodes \ {n} : table'[k] = table[k]
       /\ RowGrows(n)
  BY <1>6, <1>8, <1>9, RowIs
<1>11. Inst(n)' = Inst(n) /\ Phase(n)' = p
  BY <1>5, <1>7, <1>10 DEF Inst, Phase
<1>12. StagePhase(n)' /\ (Starting(n) => Starting(n)')
  <2>1. ~Starting(n) /\ ~Starting(n)'
    BY <1>1, <1>2, <1>4 DEF StagePhase, Starting, Joining, Inserting, Routing
  <2>2. CASE p = Shutdown /\ Phase(n) = Routing
    <3>1. stage[n] = "Routing" /\ "Routing" \notin cs /\ "Establishing" \notin cs
      BY <1>1, <1>2, <2>2 DEF StagePhase, Stages, Joining, Inserting, Routing
    <3>2. QED
      BY <1>1, <1>3, <1>4, <1>11, <2>1, <2>2, <3>1 DEF StagePhase
  <2>3. CASE p = Inserting /\ stage[n] = "Establishing" /\ Phase(n) = Joining /\ "Establishing" \notin cs
    <3>1. "Routing" \notin cs
      BY <1>1, <1>2, <2>3 DEF StagePhase
    <3>2. QED
      BY <1>1, <1>3, <1>4, <1>11, <2>1, <2>3, <3>1 DEF StagePhase
  <2>4. CASE p = Routing /\ stage[n] = "Routing" /\ Phase(n) = Inserting /\ "Routing" \notin cs
    <3>1. "Establishing" \notin cs
      BY <1>1, <1>2, <2>4 DEF StagePhase
    <3>2. QED
      BY <1>1, <1>3, <1>4, <1>11, <2>1, <2>4, <3>1 DEF StagePhase
  <2>5. QED
    BY <1>2, <2>1, <2>2, <2>3, <2>4
<1>13. table'[n][n].phase = Routing => Phase(n) = Routing \/ Finished(n)
  BY <1>2, <1>5, <1>7, <1>10 DEF Finished, Inserting, Routing, Shutdown
<1>14. Lives(n) /\ EntriesFit(n) /\ Grasps(n) /\ Advances(n)
  BY <1>3, <1>5, <1>7, <1>10, <1>12, <1>13, Stays
<1>15. LockGoes(n)
  BY <1>3, LockGoesOK
<1>16. QED
  BY <1>3, <1>4, <1>10, <1>14, <1>15 DEF Turn, Alone, LockGoes

\* ResetStateForJoining, of a node that no thread is still to take further.
LEMMA ResetTurn ==
    ASSUME IInv, CallsOK, RingInv, overtaken' = {}, NEW n \in Nodes, NEW cs \in SUBSET calls[n],
           ResetStateForJoining(n, cs), RowGrows(n), table'[n][n] = table[n][n],
           \A k \in Nodes \ {n} : table'[k] = table[k], LockGoes(n), \A g \in msgs' \ msgs : Sends(n, g)
    PROVE  Turn(n)
<1>1. /\ stage[n] /= "Routing" /\ "Establishing" \notin cs
      /\ stage' = [stage EXCEPT ![n] = IF @ = "Routing" THEN @ ELSE "Query"]
      /\ entries' = [entries EXCEPT ![n] = NoEntries]
      /\ calls' = [calls EXCEPT ![n] = cs \cup {"RestartInstance"}]
  BY DEF ResetStateForJoining
<1>2. /\ stage'[n] = "Query" /\ DOMAIN entries'[n] = {} /\ calls'[n] = cs \cup {"RestartInstance"}
      /\ \A k \in Nodes \ {n} : stage'[k] = stage[k] /\ entries'[k] = entries[k] /\ calls'[k] = calls[k]
  BY <1>1 DEF IInv, CallsOK, NoEntries
<1>3. StagePhase(n) /\ stage[n] \in Stages
  BY DEF RingInv, StagesFit, IInv
<1>4. Phase(n) \in {Joining, Inserting} /\ "Routing" \notin cs
  BY <1>1, <1>3 DEF StagePhase, Stages
<1>5. Starting(n)' /\ Phase(n)' = Phase(n)
  BY <1>2 DEF Starting, Phase
<1>6. StagePhase(n)'
  BY <1>1, <1>2, <1>4, <1>5 DEF StagePhase
<1>7. Lives(n) /\ EntriesFit(n) /\ Grasps(n) /\ Advances(n)
  BY <1>2, <1>5, <1>6, StartsOver
<1>8. QED
  BY <1>2, <1>7 DEF Turn, Alone, LockGoes

\* RestartInstance, of a node that is about to.
LEMMA RestartInstanceTurn ==
    ASSUME IInv, CallsOK, RingInv, NEW n \in Nodes, RestartInstance(n)
    PROVE  Turn(n)
<1>1. Starting(n) /\ StagePhase(n)
  BY DEF RestartInstance, Starting, RingInv, StagesFit
<1>2. /\ stage[n] = "Query" /\ DOMAIN entries[n] = {} /\ Phase(n) /= Shutdown
      /\ "Establishing" \notin calls[n] /\ "Routing" \notin calls[n]
  BY <1>1 DEF StagePhase, Joining, Inserting, Shutdown
<1>3. PICK h : h = [inst |-> Inst(n) + 1, phase |-> Joining]
  OBVIOUS
<1>4. /\ table' = [table EXCEPT ![n][n] = h] /\ UNCHANGED <<stage, entries, lock, msgs>>
      /\ calls' = [calls EXCEPT ![n] = calls[n] \ {"RestartInstance"}]
  BY <1>2, <1>3 DEF RestartInstance
<1> DEFINE t == [table[n] EXCEPT ![n] = h]
<1>5. table' = [table EXCEPT ![n] = t]
  BY <1>4 DEF IInv
<1>6. t[n] = h /\ \A k \in Nodes \ {n} : t[k] = table[n][k]
  BY DEF IInv
<1> HIDE DEF t
<1>7. h.inst > Inst(n) /\ h.phase = Joining
  BY <1>3, Numbers
<1>8. RowFits(n, t) /\ NotOlder(t[n], table[n][n])
  BY <1>6, <1>7, RowStays DEF RowFits, NotOlder, Inst
<1>9. /\ table'[n] = t /\ \A k \in Nodes \ {n} : table'[k] = table[k]
      /\ RowGrows(n)
  BY <1>5, <1>8, RowIs
<1>10. table'[n][n].inst > Inst(n) /\ table'[n][n].phase = Joining
  BY <1>6, <1>7, <1>9
<1>11. calls'[n] = calls[n] \ {"RestartInstance"} /\ \A k \in Nodes \ {n} : calls'[k] = calls[k]
  BY <1>4 DEF CallsOK
<1>12. stage'[n] = "Query" /\ DOMAIN entries'[n] = {}
  BY <1>2, <1>4
<1>13. StagePhase(n)'
  BY <1>2, <1>10, <1>11, <1>12 DEF StagePhase, Starting, Phase
<1>14. Lives(n) /\ EntriesFit(n) /\ Grasps(n) /\ Advances(n)
  BY <1>1, <1>2, <1>10, <1>12, <1>13, StartsOver
<1>15. LockGoes(n)
  BY <1>4, LockGoesOK
<1>16. QED
  BY <1>4, <1>9, <1>11, <1>14, <1>15 DEF Turn, Alone, LockGoes

\* One more entry is done, and perhaps the stage.
LEMMA LaterTurn ==
    ASSUME IInv, IInv', CallsOK, RingInv, NEW n \in Nodes, NEW k \in DOMAIN entries[n], NEW st \in Later,
           stage[n] = st, Phase(n) = Inserting, st = "UnLocking" => Unlocked(n, k), NEW next,
           next = [entries[n] EXCEPT ![k].done = TRUE], CheckCompletion(n, st, next),
           RowGrows(n), table'[n][n] = table[n][n], \A i \in Nodes \ {n} : table'[i] = table[i],
           LockGoes(n), msgs' \subseteq msgs
    PROVE  Turn(n)
<1> DEFINE ns == NextStage(st, next)
           reset == [x \in DOMAIN next |-> Reset(next[x])]
           ne == IF ~AllCompleted(next) THEN next ELSE IF st = "UnLocking" THEN NoEntries ELSE reset
           nc == calls[n] \cup NewPhase(st, next)
           es == entries[n]
<1>1. /\ stage' = [stage EXCEPT ![n] = ns] /\ entries' = [entries EXCEPT ![n] = ne]
      /\ calls' = [calls EXCEPT ![n] = nc]
  BY DEF CheckCompletion
<1>2. /\ stage'[n] = ns /\ entries'[n] = ne /\ calls'[n] = nc
      /\ \A i \in Nodes \ {n} : stage'[i] = stage[i] /\ entries'[i] = entries[i] /\ calls'[i] = calls[i]
  BY <1>1 DEF IInv, CallsOK
<1>3. EntriesOK(n, es) /\ \A x \in DOMAIN es : es[x] \in Entry /\ x \in Nodes /\ x /= n
  BY DEF IInv, EntriesOK
<1>4. /\ DOMAIN next = DOMAIN es
      /\ \A x \in DOMAIN es : /\ next[x] \in Entry
                              /\ next[x].inst = es[x].inst /\ next[x].id = es[x].id
                              /\ next[x].known = es[x].known
                              /\ next[x].done => es[x].done \/ x = k
  <2> DEFINE e == [es[k] EXCEPT !.done = TRUE]
  <2>1. e \in Entry /\ e.inst = es[k].inst /\ e.id = es[k].id /\ e.known = es[k].known
    BY <1>3 DEF Entry
  <2>2. next = [es EXCEPT ![k] = e]
    OBVIOUS
  <2> HIDE DEF e
  <2>3. QED
    BY <1>3, <2>1, <2>2
<1>5. \A e \in Entry : /\ Reset(e).inst = e.inst /\ Reset(e).id = e.id /\ Reset(e).known = e.known
                       /\ ~Reset(e).done
  BY DEF Reset, Entry
<1>6. \/ ns = st /\ ne = next
      \/ st = "Establishing" /\ ns = "UnLocking" /\ ne = reset
      \/ st = "UnLocking" /\ ns = "Routing" /\ DOMAIN ne = {} /\ AllCompleted(next)
  <2>1. CASE ~AllCompleted(next)
    BY <2>1 DEF NextStage
  <2>2. CASE AllCompleted(next) /\ st = "Establishing"
    BY <2>2 DEF NextStage
  <2>3. CASE AllCompleted(next) /\ st = "UnLocking"
    BY <2>3 DEF NextStage, NoEntries
  <2>4. QED
    BY <2>1, <2>2, <2>3 DEF Later
<1>7. st = "UnLocking" => \A x \in DOMAIN es : next[x].done => Unlocked(n, x)
  BY <1>4 DEF Unlocked
<1>8. /\ DOMAIN reset = DOMAIN es
      /\ \A x \in DOMAIN es : /\ reset[x].inst = es[x].inst /\ reset[x].id = es[x].id
                              /\ reset[x].known = es[x].known /\ ~reset[x].done
  BY <1>4, <1>5
<1>9. /\ DOMAIN es /= {}
      /\ \A x \in DOMAIN es : /\ es[x].inst <= table[n][x].inst
                              /\ es[x].known /\ table[x][n].inst = Inst(n)
  BY DEF RingInv, Kept
<1>10. \A x \in DOMAIN es : es[x].inst <= table'[n][x].inst
  <2> TAKE x \in DOMAIN es
  <2>1. es[x].inst \in Nat /\ NotOlder(table'[n][x], table[n][x])
    BY <1>3, NodesAssumption DEF Entry, RowGrows
  <2>2. QED
    BY <1>3, <1>9, <2>1, Numbers, NumbersNext DEF NotOlder
<1>11. nc = IF ns = "Routing" THEN calls[n] \cup {"Routing"} ELSE calls[n]
  BY <1>6 DEF NewPhase, Later
<1>12. ~Starting(n) /\ calls[n] \cap {"Establishing", "Routing"} = {}
  BY DEF RingInv, StagesFit, StagePhase, Later, Joining, Inserting
<1> HIDE DEF ns, ne, nc, reset, es
<1>13. ASSUME ns \in Later, DOMAIN ne = DOMAIN es, ns = "UnLocking" \/ ns = st,
              \A x \in DOMAIN es : /\ ne[x].inst = es[x].inst /\ ne[x].id = es[x].id
                                   /\ ne[x].known = es[x].known,
              ns = "UnLocking" => \A x \in DOMAIN es : ne[x].done => Unlocked(n, x)
       PROVE  Lives(n) /\ EntriesFit(n) /\ Grasps(n) /\ Advances(n)
  <2>1. Lives(n)
    <3>1. StagePhase(n)' /\ ~Starting(n)'
      BY <1>2, <1>11, <1>12, <1>13 DEF StagePhase, Starting, Phase, Later, Inserting
    <3>2. QED
      BY <1>2, <1>12, <1>13, <3>1 DEF Lives, Phase, Inst, Later
  <2>2. EntriesFit(n)
    BY <1>2, <1>9, <1>10, <1>13 DEF EntriesFit
  <2>3. Grasps(n)
    BY <1>2, <1>13 DEF Grasps, Holding, Has, Later, es
  <2>4. Advances(n)
    BY <1>2, <1>9, <1>13 DEF Advances, GoesOn, Later, es
  <2>5. QED
    BY <2>1, <2>2, <2>3, <2>4
<1>14. ASSUME ns = st, ne = next
       PROVE  Lives(n) /\ EntriesFit(n) /\ Grasps(n) /\ Advances(n)
  BY <1>4, <1>7, <1>13, <1>14
<1>15. ASSUME st = "Establishing", ns = "UnLocking", ne = reset
       PROVE  Lives(n) /\ EntriesFit(n) /\ Grasps(n) /\ Advances(n)
  BY <1>8, <1>13, <1>15 DEF Later
<1>16. ASSUME st = "UnLocking", ns = "Routing", DOMAIN ne = {}, AllCompleted(next)
       PROVE  Lives(n) /\ EntriesFit(n) /\ Grasps(n) /\ Advances(n)
  <2>1. \A x \in DOMAIN es : Unlocked(n, x)
    BY <1>4, <1>7, <1>16 DEF AllCompleted, Completed
  <2>2. Lives(n)
    <3>1. StagePhase(n)' /\ ~Starting(n)'
      BY <1>2, <1>11, <1>12, <1>16 DEF StagePhase, Starting, Phase, Inserting
    <3>2. QED
      BY <1>2, <1>12, <1>16, <3>1 DEF Lives, Phase, Inst
  <2>3. EntriesFit(n) /\ Grasps(n)
    BY <1>2, <1>16 DEF EntriesFit, Grasps
  <2>4. Advances(n)
    BY <1>2, <1>16, <2>1 DEF Advances, Later, es
  <2>5. QED
    BY <2>2, <2>3, <2>4
<1>17. Lives(n) /\ EntriesFit(n) /\ Grasps(n) /\ Advances(n)
  BY <1>6, <1>14, <1>15, <1>16
<1>18. QED
  BY <1>2, <1>17 DEF Turn, Alone, LockGoes
\* The lease with a node.
LEMMA LeaseEstablishTurn ==
    ASSUME IInv, IInv', CallsOK, RingInv, overtaken' = {}, NEW n \in Nodes, NEW k \in Nodes,
           LeaseEstablishHandler(n, k)
    PROVE  Turn(n)
<1> DEFINE next == [entries[n] EXCEPT ![k].done = TRUE]
<1>1. /\ UNCHANGED <<table, lock, msgs>> /\ k \in DOMAIN entries[n]
      /\ stage[n] = "Establishing" /\ Phase(n) = Inserting
  BY DEF LeaseEstablishHandler
<1>2. CheckCompletion(n, "Establishing", next) \/ ResetStateForJoining(n, calls[n])
  BY DEF LeaseEstablishHandler
<1> HIDE DEF next
<1>3. RowGrows(n) /\ table'[n][n] = table[n][n] /\ \A i \in Nodes \ {n} : table'[i] = table[i]
  BY <1>1, RowIs, RowStays
<1>4. LockGoes(n)
  BY <1>1, LockGoesOK
<1>5. CASE CheckCompletion(n, "Establishing", next)
  <2> DEFINE st == "Establishing"
  <2>1. st \in Later /\ st /= "UnLocking" /\ stage[n] = st /\ CheckCompletion(n, st, next)
    BY <1>1, <1>5 DEF Later
  <2> HIDE DEF st
  <2>2. QED
    BY <1>1, <1>3, <1>4, <2>1, LaterTurn DEF next
<1>6. CASE ResetStateForJoining(n, calls[n])
  <2>1. PICK cs \in SUBSET calls[n] : cs = calls[n]
    OBVIOUS
  <2>2. ResetStateForJoining(n, cs)
    BY <1>6, <2>1
  <2>3. QED
    BY <1>1, <1>3, <1>4, <2>2, ResetTurn
<1>7. QED
  BY <1>2, <1>5, <1>6

\* An answer to the unlock request in hand: the lock of its node is released.
LEMMA UnLockGrantTurn ==
    ASSUME IInv, IInv', CallsOK, RingInv, NEW n \in Nodes, NEW m, UnLockGrantHandler(n, m)
    PROVE  Turn(n)
<1> DEFINE next == [entries[n] EXCEPT ![m.from].done = TRUE]
<1>1. /\ Received(n, m, "UnlockGrant") /\ UNCHANGED lock /\ msgs' \subseteq msgs
      /\ \/ Answers(n, m) /\ CheckCompletion(n, "UnLocking", next)
         \/ UNCHANGED <<stage, entries, calls>>
  BY DEF UnLockGrantHandler, Exchanged
<1> HIDE DEF next
<1>2. LockGoes(n)
  BY <1>1, LockGoesOK
<1>3. /\ m \in msgs /\ m.kind = "UnlockGrant" /\ m.to = n /\ m.toInst = Inst(n)
      /\ table'[n][n] = table[n][n] /\ RowGrows(n) /\ \A k \in Nodes \ {n} : table'[k] = table[k]
  BY <1>1, Receives DEF Received
<1>4. CASE UNCHANGED <<stage, entries, calls>>
  BY <1>1, <1>2, <1>4, CalmTurn
<1>5. CASE Answers(n, m) /\ CheckCompletion(n, "UnLocking", next)
  <2>1. stage[n] = "UnLocking" /\ m.from \in DOMAIN entries[n] /\ entries[n][m.from].id = m.id
    BY <1>5 DEF Answers, HasLock
  <2>2. Phase(n) = Inserting
    BY <2>1 DEF RingInv, StagesFit, StagePhase
  <2>3. Unlocked(n, m.from)
    BY <1>3, <2>1 DEF Unlocked
  <2> DEFINE st == "UnLocking"
  <2>4. st \in Later /\ stage[n] = st /\ CheckCompletion(n, st, next)
    BY <1>5, <2>1 DEF Later
  <2>5. PICK k \in DOMAIN entries[n] : k = m.from
    BY <2>1
  <2> HIDE DEF st
  <2>6. QED
    BY <1>1, <1>2, <1>3, <2>2, <2>3, <2>4, <2>5, LaterTurn DEF next
<1>6. QED
  BY <1>1, <1>4, <1>5

\* JoinManager::UnLockDenyHandler starts over, or only learns.
LEMMA UnLockDenyTurn ==
    ASSUME IInv, IInv', CallsOK, RingInv, overtaken' = {}, NEW n \in Nodes, NEW m, UnLockDenyHandler(n, m)
    PROVE  Turn(n)
<1>1. /\ Received(n, m, "UnlockDeny") /\ UNCHANGED lock /\ msgs' \subseteq msgs
      /\ ResetStateForJoining(n, calls[n]) \/ UNCHANGED <<stage, entries, calls>>
  BY DEF UnLockDenyHandler, Exchanged
<1>2. LockGoes(n)
  BY <1>1, LockGoesOK
<1>3. CASE UNCHANGED <<stage, entries, calls>>
  BY <1>1, <1>2, <1>3, CalmTurn
<1>4. CASE ResetStateForJoining(n, calls[n])
  <2>1. table'[n][n] = table[n][n] /\ RowGrows(n) /\ \A k \in Nodes \ {n} : table'[k] = table[k]
    BY <1>1, Receives
  <2>2. PICK cs \in SUBSET calls[n] : cs = calls[n]
    OBVIOUS
  <2>3. ResetStateForJoining(n, cs)
    BY <1>4, <2>2
  <2>4. QED
    BY <1>1, <1>2, <2>1, <2>3, ResetTurn
<1>5. QED
  BY <1>1, <1>3, <1>4

\* The unlock requests are for locks in hand.
LEMMA RunUnLockingTurn ==
    ASSUME IInv, IInv', CallsOK, RingInv, NEW n \in Nodes, RunUnLocking(n)
    PROVE  Turn(n)
<1> DEFINE es == entries[n]
           w(k) == WithId(n, k, es[k].inst, "Unlock", es[k].id)
<1>1. stage[n] = "UnLocking" /\ UNCHANGED <<table, stage, entries, lock>>
  BY DEF RunUnLocking
<1>2. UNCHANGED calls \/ CallsStay(n)
  <2>1. UNCHANGED calls \/ \E c \in {"CheckDown", "TimedOut"} : calls' = [calls EXCEPT ![n] = @ \cup {c}]
    BY DEF RunUnLocking
  <2>2. QED
    BY <2>1 DEF CallsStay, CallsOK
<1>3. PICK due \in SUBSET DOMAIN es : msgs' = msgs \cup {w(k) : k \in due}
  BY DEF RunUnLocking
<1>4. ASSUME NEW g \in msgs' \ msgs PROVE Sends(n, g)
  <2>1. PICK k \in due : g = w(k)
    BY <1>3, <1>4
  <2>2. PICK inst, id : inst = es[k].inst /\ id = es[k].id
    OBVIOUS
  <2>3. g = WithId(n, k, inst, "Unlock", id)
    BY <2>1, <2>2
  <2>4. g.from = n /\ g.headers = table'[n] /\ g.to = k /\ g.toInst = inst /\ g.kind = "Unlock" /\ g.id = id
    BY <2>3 DEF WithId, Message
  <2>5. k \in Nodes /\ k /= n /\ es[k] \in Entry /\ k \in DOMAIN entries[n]
    BY DEF IInv, EntriesOK
  <2>6. inst \in 0..table'[n][k].inst
    <3>1. inst <= table[n][k].inst /\ inst \in Nat
      BY <2>2, <2>5, NodesAssumption DEF RingInv, Kept, Entry
    <3>2. table'[n][k] = table[n][k]
      BY <1>1
    <3>3. QED
      BY <2>5, <3>1, <3>2, Numbers
  <2>7. HandOf(n, k, id)
    BY <1>1, <2>2, <2>5 DEF HandOf
  <2>8. AsksUnlock(n, g)
    BY <1>1, <2>4, <2>7 DEF AsksUnlock
  <2>9. QED
    BY <2>4, <2>6, <2>8 DEF Sends
<1> HIDE DEF w
<1>5. LockGoes(n)
  BY <1>1, LockGoesOK
<1>6. QED
  BY <1>1, <1>2, <1>4, <1>5, IdleTurn

\* The thread that checks for a timeout, or for nodes that are down, starts over or
\* does nothing.
LEMMA RestartUnLockingTurn ==
    ASSUME IInv, IInv', CallsOK, RingInv, overtaken' = {}, NEW n \in Nodes, NEW c, RestartUnLocking(n, c)
    PROVE  Turn(n)
<1>1. /\ c \in {"CheckDown", "TimedOut"} /\ UNCHANGED <<table, lock, msgs>>
      /\ \/ calls' = [calls EXCEPT ![n] = calls[n] \ {c}] /\ UNCHANGED <<stage, entries>>
         \/ ResetStateForJoining(n, calls[n] \ {c})
  BY DEF RestartUnLocking
<1>2. RowGrows(n) /\ table'[n][n] = table[n][n] /\ \A k \in Nodes \ {n} : table'[k] = table[k]
  BY <1>1, RowIs, RowStays
<1>3. LockGoes(n)
  BY <1>1, LockGoesOK
<1>4. CASE calls' = [calls EXCEPT ![n] = calls[n] \ {c}] /\ UNCHANGED <<stage, entries>>
  <2>1. CallsStay(n)
    BY <1>1, <1>4 DEF CallsStay, CallsOK
  <2>2. QED
    BY <1>1, <1>3, <1>4, <2>1, IdleTurn
<1>5. CASE ResetStateForJoining(n, calls[n] \ {c})
  <2>1. PICK cs \in SUBSET calls[n] : cs = calls[n] \ {c}
    OBVIOUS
  <2>2. ResetStateForJoining(n, cs)
    BY <1>5, <2>1
  <2>3. QED
    BY <1>1, <1>2, <1>3, <2>2, ResetTurn
<1>6. QED
  BY <1>1, <1>4, <1>5

\* The query is answered: the node begins to collect locks, and has none.
LEMMA QueryCompletedTurn ==
    ASSUME IInv, IInv', RingInv, overtaken' = {}, NEW n \in Nodes, NEW m, OnNeighborhoodQueryRequestCompleted(n, m)
    PROVE  Turn(n)
<1>1. /\ Received(n, m, "QueryReply") /\ UNCHANGED <<entries, lock, calls>> /\ msgs' \subseteq msgs
      /\ \/ UNCHANGED stage
         \/ stage[n] = "Query" /\ stage' = [stage EXCEPT ![n] = "Locking"] /\ ~Starting(n)
  BY DEF OnNeighborhoodQueryRequestCompleted, Starting, Exchanged
<1>2. LockGoes(n)
  BY <1>1, LockGoesOK
<1>3. CASE UNCHANGED stage
  BY <1>1, <1>2, <1>3, CalmTurn
<1>4. CASE stage[n] = "Query" /\ stage' = [stage EXCEPT ![n] = "Locking"] /\ ~Starting(n)
  <2>1. stage'[n] = "Locking" /\ \A k \in Nodes \ {n} : stage'[k] = stage[k]
    BY <1>4 DEF IInv
  <2>2. Phase(n) = Joining /\ DOMAIN entries[n] = {} /\ "Establishing" \notin calls[n] /\ "Routing" \notin calls[n]
    BY <1>4 DEF RingInv, StagesFit, StagePhase
  <2>3. /\ table'[n][n] = table[n][n] /\ RowGrows(n) /\ \A k \in Nodes \ {n} : table'[k] = table[k]
    BY <1>1, Receives
  <2>4. Lives(n)
    BY <1>1, <1>4, <2>1, <2>2, <2>3 DEF Lives, StagePhase, Starting, Phase, Inst, Joining, Routing
  <2>5. EntriesFit(n) /\ Grasps(n) /\ Advances(n)
    BY <1>1, <2>1, <2>2 DEF EntriesFit, Grasps, Advances, Later
  <2>6. QED
    BY <1>1, <1>2, <2>1, <2>3, <2>4, <2>5 DEF Turn, Alone, LockGoes
<1>5. QED
  BY <1>1, <1>3, <1>4
-----------------------------------------------------------------------------
(***************************************************************************)
(* Steps of a node that collects locks.                                    *)
(***************************************************************************)

\* Entries that differ in what is done, where that is known to be so.
LEMMA CollectsSome ==
    ASSUME NEW n \in Nodes, NEW u, Collects(n, u), NEW next, next = [x \in DOMAIN u |-> next[x]],
           \A x \in DOMAIN u :
              /\ next[x] \in Entry /\ next[x].inst = u[x].inst /\ next[x].known = u[x].known
              /\ next[x].done =>
                    \/ u[x].done /\ next[x].id = u[x].id
                    \/ \E m \in msgs : Meets(n, m) /\ Giving(m, x, next[x].id) /\ Up(x, next[x].inst)
    PROVE  Collects(n, next) /\ DOMAIN next = DOMAIN u
<1>1. DOMAIN next = DOMAIN u /\ EntriesOK(n, u)
  BY DEF Collects
<1>2. EntriesOK(n, next)
  BY <1>1 DEF EntriesOK
<1>3. \A x \in DOMAIN u : /\ u[x].inst <= table'[n][x].inst
                          /\ u[x].known => table[x][n].inst = Inst(n)
                          /\ u[x].done => InReach(n, u, x)
  BY DEF Collects
<1>4. \A x \in DOMAIN u : next[x].done => InReach(n, next, x)
  BY <1>3 DEF InReach
<1>5. QED
  BY <1>1, <1>2, <1>3, <1>4 DEF Collects

\* The entries it has.
LEMMA OwnCollects ==
    ASSUME IInv, IInv', RingInv, NEW n \in Nodes, RowGrows(n)
    PROVE  Collects(n, entries[n])
<1>1. EntriesOK(n, entries[n])
  BY DEF IInv
<1>2. \A x \in DOMAIN entries[n] : /\ entries[n][x].inst <= table'[n][x].inst
                                   /\ entries[n][x].known => table[x][n].inst = Inst(n)
  <2> TAKE x \in DOMAIN entries[n]
  <2>1. x \in Nodes /\ entries[n][x] \in Entry /\ entries[n][x].inst \in Nat
    BY <1>1, NodesAssumption DEF EntriesOK, Entry
  <2>2. entries[n][x].inst <= table[n][x].inst /\ (entries[n][x].known => table[x][n].inst = Inst(n))
    BY DEF RingInv, Kept
  <2>3. NotOlder(table'[n][x], table[n][x])
    BY <2>1 DEF RowGrows
  <2>4. QED
    BY <2>1, <2>2, <2>3, Numbers, NumbersNext DEF NotOlder
<1>3. QED
  BY <1>1, <1>2 DEF Collects, InReach

\* The entry of node c, which knows n, is now known.
LEMMA KnownCollects ==
    ASSUME NEW n \in Nodes, NEW u, Collects(n, u), NEW c \in DOMAIN u, table[c][n].inst = Inst(n),
           NEW e \in Entry, e.inst = u[c].inst, e.id = u[c].id, e.done = u[c].done,
           NEW next, next = [u EXCEPT ![c] = e]
    PROVE  Collects(n, next) /\ DOMAIN next = DOMAIN u /\ next[c] = e
<1>1. EntriesOK(n, u) /\ (u[c].done => InReach(n, u, c))
  BY DEF Collects
<1>2. /\ EntriesOK(n, next) /\ DOMAIN next = DOMAIN u /\ next[c] = e
      /\ \A y \in DOMAIN u \ {c} : next[y] = u[y]
  BY <1>1, Replaced
<1>3. next[c].done => InReach(n, next, c)
  BY <1>1, <1>2 DEF InReach
<1>4. Collects(n, next)
  BY <1>2, <1>3, CollectsOneMore
<1>5. QED
  BY <1>2, <1>4

\* Messages to who left the neighbourhood.
LEMMA ReleasesSends ==
    ASSUME IInv, IInv', RingInv, NEW n \in Nodes, RowGrows(n), NEW t, NEW g \in Releases(n, entries[n], t)
    PROVE  Sends(n, g)
<1> DEFINE es == entries[n]
<1>1. PICK k \in DOMAIN es : g = WithId(n, k, es[k].inst, "LockRelease", es[k].id)
  BY DEF Releases
<1>2. PICK inst, id : inst = es[k].inst /\ id = es[k].id
  OBVIOUS
<1>3. g = WithId(n, k, inst, "LockRelease", id)
  BY <1>1, <1>2
<1>4. g.from = n /\ g.headers = table'[n] /\ g.to = k /\ g.toInst = inst /\ g.kind = "LockRelease"
  BY <1>3 DEF WithId, Message
<1>5. k \in Nodes /\ es[k] \in Entry
  BY DEF IInv, EntriesOK
<1>6. inst \in Nat /\ inst <= table'[n][k].inst
  BY <1>2, <1>5, OwnCollects, NodesAssumption DEF Collects, Entry
<1>7. inst \in 0..table'[n][k].inst
  BY <1>5, <1>6, NumbersNext
<1>8. QED
  BY <1>4, <1>7, SendsQuiet DEF Quiet

\* A message received while collecting, the entries checked for completion.
LEMMA CollectingTurn ==
    ASSUME IInv, IInv', CallsOK, RingInv, NEW n \in Nodes, RowGrows(n), table'[n][n] = table[n][n],
           \A k \in Nodes \ {n} : table'[k] = table[k], stage[n] = "Locking",
           NEW next, Collects(n, next),
           \/ CheckCompletion(n, "Locking", next) /\ DOMAIN next = Hood(table'[n], n)
           \/ UNCHANGED <<stage, calls>> /\ entries' = [entries EXCEPT ![n] = next],
           UNCHANGED lock, \A g \in msgs' \ msgs : Sends(n, g)
    PROVE  Turn(n)
<1>1. LockGoes(n)
  BY LockGoesOK
<1>2. /\ Lives(n) /\ EntriesFit(n) /\ Grasps(n) /\ Advances(n)
      /\ \A k \in Nodes \ {n} : stage'[k] = stage[k] /\ entries'[k] = entries[k] /\ calls'[k] = calls[k]
  <2>1. CASE CheckCompletion(n, "Locking", next) /\ DOMAIN next = Hood(table'[n], n)
    BY <2>1, CollectedOK
  <2>2. CASE UNCHANGED <<stage, calls>> /\ entries' = [entries EXCEPT ![n] = next]
    <3>1. /\ stage'[n] = "Locking" /\ entries'[n] = next /\ calls'[n] = calls[n]
          /\ \A k \in Nodes \ {n} : stage'[k] = stage[k] /\ entries'[k] = entries[k] /\ calls'[k] = calls[k]
      BY <2>2 DEF IInv
    <3>2. QED
      BY <3>1, CollectsOK
  <2>3. QED
    BY <2>1, <2>2
<1>3. QED
  BY <1>1, <1>2 DEF Turn, Alone, LockGoes

\* A grant: the lock it gives is of a node in the ring, which n has now met.
LEMMA LockGrantTurn ==
    ASSUME IInv, IInv', CallsOK, RingInv, NEW n \in Nodes, NEW m, LockGrantHandler(n, m)
    PROVE  Turn(n)
<1> DEFINE t == Learned(n, m)
           es == UpdateNeighborhood(n, entries[n], t)
           known == [es EXCEPT ![m.from].known = TRUE]
           inst == From(n, m).inst
           acquired ==
             CASE stage[n] = "Locking" -> /\ HasLock(es, m.from, From(n, m).inst)
                                          /\ ~m.renew \/ Completed(known[m.from])
               [] stage[n] \in {"Establishing", "UnLocking"} ->
                     HasLock(entries[n], m.from, From(n, m).inst)
               [] OTHER -> FALSE
           next == IF ~HasLock(es, m.from, From(n, m).inst) THEN es
                   ELSE IF ~acquired THEN known
                   ELSE [known EXCEPT ![m.from] = AcquireLock(@, m.id)]
           rel == WithId(n, m.from, inst, "LockRelease", m.id)
           R == IF stage[n] = "Locking" THEN Releases(n, entries[n], t) ELSE {}
           B == IF acquired \/ m.renew THEN {} ELSE {rel}
<1>1. /\ Received(n, m, "LockGrant") /\ UNCHANGED lock
      /\ IF stage[n] = "Locking" THEN CheckCompletion(n, "Locking", next)
         ELSE UNCHANGED <<stage, entries, calls>>
      /\ Exchanged(m, R \cup B)
  BY DEF LockGrantHandler
<1>2. /\ m \in msgs /\ m.kind = "LockGrant" /\ m.from \in Nodes
      /\ table'[n] = t /\ RowOK(n, table'[n]) /\ table'[n][n] = table[n][n] /\ RowGrows(n)
      /\ \A k \in Nodes \ {n} : table'[k] = table[k]
      /\ inst \in 0..table'[n][m.from].inst
      /\ Phase(n) = Joining => Meets(n, m)
      /\ table[m.from][n].inst = Inst(n)
  BY <1>1, Receives
<1>3. \A g \in msgs' \ msgs : Sends(n, g)
  <2> HIDE DEF inst, acquired, next, es
  <2>1. \A g \in R : Sends(n, g)
    BY <1>2, ReleasesSends
  <2>2. Sends(n, rel)
    <3>1. /\ rel.from = n /\ rel.headers = table'[n] /\ rel.to = m.from /\ rel.toInst = inst
          /\ rel.kind = "LockRelease"
      BY DEF WithId, Message
    <3> HIDE DEF rel
    <3>2. QED
      BY <1>2, <3>1, SendsQuiet DEF Quiet
  <2> HIDE DEF rel, R
  <2>3. msgs' \subseteq msgs \cup R \cup B
    BY <1>1 DEF Exchanged
  <2>4. QED
    BY <2>1, <2>2, <2>3
<1> HIDE DEF inst, R, B
<1>4. ASSUME stage[n] /= "Locking" PROVE Turn(n)
  <2>1. UNCHANGED <<stage, entries, calls>>
    BY <1>1, <1>4
  <2>2. LockGoes(n)
    BY <1>1, LockGoesOK
  <2>3. QED
    BY <1>1, <1>3, <2>1, <2>2, CalmTurn
<1>5. ASSUME stage[n] = "Locking" PROVE Turn(n)
  <2>1. acquired => ~m.renew \/ Completed(known[m.from])
    BY <1>5
  <2>2. CheckCompletion(n, "Locking", next)
    BY <1>1, <1>5
  <2> HIDE DEF acquired
  <2>3. \/ next = es
        \/ m.from \in DOMAIN es /\ next = known
        \/ /\ m.from \in DOMAIN es /\ (~m.renew \/ Completed(known[m.from]))
           /\ next = [known EXCEPT ![m.from] = AcquireLock(known[m.from], m.id)]
    BY <2>1 DEF HasLock
  <2> HIDE DEF next
  <2>4. es = UpdateNeighborhood(n, entries[n], table'[n])
    BY <1>2
  <2> HIDE DEF es
  <2>5. /\ Collects(n, es) /\ DOMAIN es = Hood(table'[n], n)
        /\ \A x \in DOMAIN es : es[x].inst = table'[n][x].inst
    BY <1>2, <2>4, UpdateFits
  <2>6. ASSUME m.from \in DOMAIN es
        PROVE  /\ Collects(n, known) /\ DOMAIN known = DOMAIN es
               /\ known[m.from] \in Entry /\ known[m.from].inst = es[m.from].inst /\ known[m.from].known
    <3>1. PICK c \in DOMAIN es : c = m.from
      BY <2>6
    <3>2. es[c] \in Entry /\ table[c][n].inst = Inst(n)
      BY <1>2, <2>5, <3>1 DEF Collects, EntriesOK
    <3>3. PICK e : e = [es[c] EXCEPT !.known = TRUE]
      OBVIOUS
    <3>4. e \in Entry /\ e.inst = es[c].inst /\ e.id = es[c].id /\ e.done = es[c].done /\ e.known
      BY <3>2, <3>3 DEF Entry
    <3>5. known = [es EXCEPT ![c] = e]
      BY <3>1, <3>3
    <3> HIDE DEF known
    <3>6. Collects(n, known) /\ DOMAIN known = DOMAIN es /\ known[c] = e
      BY <2>5, <3>2, <3>4, <3>5, KnownCollects
    <3>7. QED
      BY <3>1, <3>4, <3>6
  <2> HIDE DEF known
  <2>7. ASSUME m.from \in DOMAIN es, ~m.renew \/ Completed(known[m.from]),
               next = [known EXCEPT ![m.from] = AcquireLock(known[m.from], m.id)]
        PROVE  Collects(n, next) /\ DOMAIN next = DOMAIN es
    <3>1. PICK c \in DOMAIN known : c = m.from
      BY <2>6, <2>7
    <3> PICK e : e = AcquireLock(known[c], m.id)
      OBVIOUS
    <3>2. m.id \in 0..MaxLockId
      BY <1>2 DEF IInv, MsgsOK, MsgOK
    <3>3. known[c] \in Entry /\ known[c].known /\ known[c].inst = table'[n][c].inst
      BY <2>5, <2>6, <2>7, <3>1
    <3>4. /\ e \in Entry /\ e.done /\ e.inst = known[c].inst /\ e.known = known[c].known
          /\ e.id = IF known[c].done THEN known[c].id ELSE m.id
      BY <3>2, <3>3 DEF AcquireLock, Entry
    <3>5. next = [known EXCEPT ![c] = e]
      BY <2>7, <3>1
    <3>6. ASSUME ~known[c].done
          PROVE  \E x \in msgs : Meets(n, x) /\ Giving(x, c, e.id) /\ Up(c, e.inst)
      <4>1. ~m.renew /\ e.id = m.id
        BY <2>7, <3>1, <3>4, <3>6 DEF Completed
      <4>2. Giving(m, c, e.id)
        BY <1>2, <3>1, <4>1 DEF Giving
      <4>3. Meets(n, m)
        BY <1>2, <1>5 DEF RingInv, StagesFit, StagePhase
      <4>4. Up(c, m.headers[c].inst) /\ m.headers[c].inst = Inst(c) /\ Phase(c) >= Routing
        BY <1>2, <3>1, <4>1 DEF RingInv, HandsUp, Up
      <4>5. c \in Nodes /\ c /= n
        BY <2>5, <2>6, <2>7, <3>1 DEF Collects, EntriesOK
      <4>6. NotOlder(table'[n][c], m.headers[c]) /\ AtMost(table'[n][c], c)
        BY <1>2, <4>3, <4>5 DEF Meets, RowGrows
      <4>7. table'[n][c].inst = Inst(c)
        BY <4>4, <4>5, <4>6, Numbers, NumbersNext DEF NotOlder, AtMost
      <4>8. Up(c, e.inst)
        BY <3>3, <3>4, <4>4, <4>7 DEF Up
      <4>9. QED
        BY <1>2, <4>2, <4>3, <4>8
    <3>7. table[c][n].inst = Inst(n)
      BY <1>2, <3>1
    <3>8. /\ EntriesOK(n, next) /\ DOMAIN next = DOMAIN known /\ next[c] = e
          /\ \A y \in DOMAIN known \ {c} : next[y] = known[y]
      <4>1. EntriesOK(n, known)
        BY <2>6, <2>7 DEF Collects
      <4>2. QED
        BY <3>4, <3>5, <4>1, Replaced
    <3>9. InReach(n, next, c)
      <4>1. CASE known[c].done
        <5>1. InReach(n, known, c)
          BY <2>6, <2>7, <4>1 DEF Collects
        <5>2. QED
          BY <3>4, <3>8, <4>1, <5>1 DEF InReach
      <4>2. CASE ~known[c].done
        BY <3>6, <3>8, <4>2 DEF InReach
      <4>3. QED
        BY <4>1, <4>2
    <3>10. PICK w : w = known
      OBVIOUS
    <3>11. Collects(n, next)
      <4>1. Collects(n, w)
        BY <2>6, <2>7, <3>10
      <4>2. /\ EntriesOK(n, next) /\ DOMAIN next = DOMAIN w /\ c \in DOMAIN w
            /\ \A y \in DOMAIN w \ {c} : next[y] = w[y]
            /\ next[c].inst = w[c].inst
        BY <3>4, <3>8, <3>10
      <4>3. QED
        BY <3>7, <3>9, <4>1, <4>2, CollectsOneMore
    <3>12. QED
      BY <2>6, <2>7, <3>8, <3>11
  <2>8. Collects(n, next) /\ DOMAIN next = Hood(table'[n], n)
    BY <2>3, <2>5, <2>6, <2>7
  <2>9. QED
    BY <1>1, <1>2, <1>3, <1>5, <2>2, <2>8, CollectingTurn
<1>6. QED
  BY <1>4, <1>5
\* A denied request: its node knows n.
LEMMA LockDenyTurn ==
    ASSUME IInv, IInv', CallsOK, RingInv, NEW n \in Nodes, NEW m, LockDenyHandler(n, m)
    PROVE  Turn(n)
<1> DEFINE t == Learned(n, m)
           es == UpdateNeighborhood(n, entries[n], t)
           asking == [es EXCEPT ![m.from].known = TRUE]
           L == {Transfer(k, asking[k]) : k \in DOMAIN asking}
           inst == t[m.owner].inst
           request == [Message(n, m.owner, inst, "TransferRequest") EXCEPT !.locks = L]
           R == Releases(n, entries[n], t)
<1>1. Received(n, m, "LockDeny") /\ UNCHANGED <<stage, lock, calls>>
  BY DEF LockDenyHandler
<1>2. \/ UNCHANGED entries /\ msgs' \subseteq msgs
      \/ stage[n] = "Locking" /\ entries' = [entries EXCEPT ![n] = es] /\ msgs' \subseteq msgs
      \/ /\ stage[n] = "Locking" /\ m.from \in DOMAIN es
         /\ entries' = [entries EXCEPT ![n] = asking] /\ msgs' \subseteq msgs \cup R \cup {request}
  BY DEF LockDenyHandler, HasLock, Exchanged
<1>3. /\ m \in msgs /\ m.from \in Nodes
      /\ table'[n] = t /\ RowOK(n, table'[n]) /\ table'[n][n] = table[n][n] /\ RowGrows(n)
      /\ \A k \in Nodes \ {n} : table'[k] = table[k]
      /\ table[m.from][n].inst = Inst(n)
  BY <1>1, Receives
<1>4. \A g \in R : Sends(n, g)
  BY <1>3, ReleasesSends
<1>5. es = UpdateNeighborhood(n, entries[n], table'[n])
  BY <1>3
<1>6. Collects(n, es)
  <2> HIDE DEF es
  <2>1. QED
    BY <1>3, <1>5, UpdateFits
<1>7. m.owner \in Nodes /\ inst \in 0..table'[n][m.owner].inst
  <2>1. m.owner \in Nodes
    BY <1>3 DEF IInv, MsgsOK, MsgOK
  <2>2. QED
    BY <1>3, <2>1, NumbersNext
<1> HIDE DEF es, L, inst, R
<1>8. Sends(n, request)
  <2>1. /\ request.from = n /\ request.headers = table'[n] /\ request.to = m.owner /\ request.toInst = inst
        /\ request.kind = "TransferRequest"
    BY DEF Message
  <2> HIDE DEF request
  <2>2. QED
    BY <1>7, <2>1, SendsQuiet DEF Quiet
<1> HIDE DEF request
<1>9. ASSUME m.from \in DOMAIN es PROVE Collects(n, asking)
  <2>1. PICK c \in DOMAIN es : c = m.from
    BY <1>9
  <2>2. es[c] \in Entry /\ table[c][n].inst = Inst(n)
    BY <1>3, <1>6, <2>1 DEF Collects, EntriesOK
  <2>3. PICK e : e = [es[c] EXCEPT !.known = TRUE]
    OBVIOUS
  <2>4. e \in Entry /\ e.inst = es[c].inst /\ e.id = es[c].id /\ e.done = es[c].done
    BY <2>2, <2>3 DEF Entry
  <2>5. asking = [es EXCEPT ![c] = e]
    BY <2>1, <2>3
  <2> HIDE DEF asking
  <2>6. QED
    BY <1>6, <2>2, <2>4, <2>5, KnownCollects
<1> HIDE DEF asking
<1>10. CASE UNCHANGED entries /\ msgs' \subseteq msgs
  <2>1. LockGoes(n)
    BY <1>1, LockGoesOK
  <2>2. QED
    BY <1>1, <1>10, <2>1, CalmTurn
<1>11. CASE stage[n] = "Locking" /\ entries' = [entries EXCEPT ![n] = es] /\ msgs' \subseteq msgs
  BY <1>1, <1>3, <1>6, <1>11, CollectingTurn
<1>12. CASE /\ stage[n] = "Locking" /\ m.from \in DOMAIN es
            /\ entries' = [entries EXCEPT ![n] = asking] /\ msgs' \subseteq msgs \cup R \cup {request}
  <2>1. \A g \in msgs' \ msgs : Sends(n, g)
    BY <1>4, <1>8, <1>12
  <2>2. Collects(n, asking)
    BY <1>9, <1>12
  <2>3. QED
    BY <1>1, <1>3, <1>12, <2>1, <2>2, CollectingTurn
<1>13. QED
  BY <1>2, <1>10, <1>11, <1>12

\* Locks handed over were in hand, of nodes that were in the ring.
LEMMA TransferRequestTurn ==
    ASSUME IInv, IInv', CallsOK, RingInv, NEW n \in Nodes, NEW m, LockTransferRequestHandler(n, m)
    PROVE  Turn(n)
<1> DEFINE given == IF stage[n] = "Locking" THEN HandedOver(n, entries[n], m.from, m.locks) ELSE {}
           es == entries[n]
           next == [k \in DOMAIN es |-> IF k \in given THEN Reset(es[k]) ELSE es[k]]
           L == {Transfer(k, es[k]) : k \in given}
           inst == From(n, m).inst
           reply == [Message(n, m.from, inst, "TransferReply") EXCEPT !.locks = L]
<1>1. /\ Received(n, m, "TransferRequest") /\ UNCHANGED <<stage, lock, calls>>
      /\ msgs' \subseteq msgs \cup {reply}
  BY DEF LockTransferRequestHandler, Exchanged
<1>2. entries' = [entries EXCEPT ![n] = next]
  BY DEF LockTransferRequestHandler
<1>3. given \in SUBSET DOMAIN es /\ \A k \in given : es[k].done
  BY DEF HandedOver, Completed
<1>4. stage[n] /= "Locking" => given = {}
  OBVIOUS
<1> HIDE DEF given
<1>5. /\ m.from \in Nodes
      /\ table'[n][n] = table[n][n] /\ RowGrows(n)
      /\ \A k \in Nodes \ {n} : table'[k] = table[k]
      /\ inst \in 0..table'[n][m.from].inst
  BY <1>1, Receives
<1>6. EntriesOK(n, es) /\ \A k \in DOMAIN es : es[k] \in Entry /\ k \in Nodes
  BY DEF IInv, EntriesOK
<1>7. \A x \in L : HandOf(n, x.node, x.id) /\ Up(x.node, x.inst)
  <2> TAKE x \in L
  <2>1. PICK k \in given : x = Transfer(k, es[k])
    OBVIOUS
  <2>2. x.node = k /\ x.inst = es[k].inst /\ x.id = es[k].id
    BY <2>1 DEF Transfer
  <2>3. k \in DOMAIN entries[n] /\ entries[n][k].done
    BY <1>3
  <2>4. HandOf(n, k, entries[n][k].id) /\ Has(n, k)
    BY <2>3 DEF HandOf, Has
  <2>5. Up(k, entries[n][k].inst)
    BY <2>3, <2>4 DEF RingInv, HandsUp
  <2>6. QED
    BY <2>2, <2>4, <2>5
<1>8. L /= {} => stage[n] = "Locking"
  BY <1>4
<1> HIDE DEF inst, L
<1>9. Sends(n, reply)
  <2>1. /\ reply.from = n /\ reply.headers = table'[n] /\ reply.to = m.from /\ reply.toInst = inst
        /\ reply.kind = "TransferReply" /\ reply.locks = L
    BY DEF Message
  <2> HIDE DEF reply
  <2>2. HandsOver(n, reply)
    BY <1>7, <1>8, <2>1 DEF HandsOver
  <2>3. QED
    BY <1>5, <2>1, <2>2 DEF Sends
<1> HIDE DEF reply
<1>10. \A g \in msgs' \ msgs : Sends(n, g)
  BY <1>1, <1>9
<1>11. ASSUME stage[n] /= "Locking" PROVE Turn(n)
  <2>1. given = {}
    BY <1>4, <1>11
  <2>2. next = es
    BY <1>6, <2>1 DEF EntriesOK
  <2> HIDE DEF next
  <2>3. UNCHANGED entries
    BY <1>2, <2>2 DEF IInv
  <2>4. LockGoes(n)
    BY <1>1, LockGoesOK
  <2>5. QED
    BY <1>1, <1>10, <2>3, <2>4, CalmTurn
<1>12. ASSUME stage[n] = "Locking" PROVE Turn(n)
  <2>1. Collects(n, es)
    BY <1>5, OwnCollects
  <2>2. \A e \in Entry : /\ Reset(e) \in Entry /\ Reset(e).inst = e.inst /\ Reset(e).id = e.id
                         /\ Reset(e).known = e.known /\ ~Reset(e).done
    BY DEF Reset, Entry
  <2>3. next = [x \in DOMAIN es |-> next[x]]
    OBVIOUS
  <2>4. \A x \in DOMAIN es : /\ next[x] \in Entry /\ next[x].inst = es[x].inst
                             /\ next[x].known = es[x].known
                             /\ next[x].done => es[x].done /\ next[x].id = es[x].id
    BY <1>6, <2>2
  <2> HIDE DEF next, es
  <2>5. Collects(n, next)
    BY <2>1, <2>3, <2>4, CollectsSome
  <2>6. QED
    BY <1>1, <1>2, <1>5, <1>10, <1>12, <2>5, CollectingTurn
<1>13. QED
  BY <1>11, <1>12

\* Locks taken from a reply.
LEMMA TransferReplyTurn ==
    ASSUME IInv, IInv', CallsOK, RingInv, NEW n \in Nodes, NEW m, LockTransferReplyHandler(n, m)
    PROVE  Turn(n)
<1> DEFINE t == Learned(n, m)
           locking == stage[n] = "Locking" /\ m.locks /= {}
           es == UpdateNeighborhood(n, entries[n], t)
           taken == {x \in m.locks : locking /\ HasLock(es, x.node, x.inst)}
           known == {x \in m.locks : t[x.node].inst = x.inst}
           e(k) == IF \E x \in taken : x.node = k
                   THEN AcquireLock(es[k], (CHOOSE x \in taken : x.node = k).id) ELSE es[k]
           next == [k \in DOMAIN es |-> e(k)]
           w(x) == WithId(n, x.node, x.inst, IF x \in taken THEN "LockRenew" ELSE "LockRelease", x.id)
           R == IF locking THEN Releases(n, entries[n], t) ELSE {}
           B == {w(x) : x \in known}
<1>1. /\ Received(n, m, "TransferReply") /\ UNCHANGED lock
      /\ IF ~locking THEN UNCHANGED <<stage, entries, calls>> ELSE CheckCompletion(n, "Locking", next)
      /\ msgs' \subseteq msgs \cup R \cup B
  BY DEF LockTransferReplyHandler, Exchanged
<1>2. /\ m \in msgs /\ m.kind = "TransferReply" /\ m.from \in Nodes
      /\ table'[n] = t /\ RowOK(n, table'[n]) /\ table'[n][n] = table[n][n] /\ RowGrows(n)
      /\ \A k \in Nodes \ {n} : table'[k] = table[k]
      /\ Phase(n) = Joining => Meets(n, m)
  BY <1>1, Receives
<1>3. m.locks \subseteq LockItem
  BY <1>2 DEF IInv, MsgsOK, MsgOK
<1>4. \A x \in taken : x \in m.locks /\ x.node \in DOMAIN es /\ es[x.node].inst = x.inst
  BY DEF HasLock
<1> HIDE DEF taken, locking
<1>5. \A g \in R : Sends(n, g)
  BY <1>2, ReleasesSends
<1>6. \A g \in B : Sends(n, g)
  <2> TAKE g \in B
  <2>1. PICK x \in known : g = w(x)
    OBVIOUS
  <2>2. x.node \in Nodes /\ x.inst = table'[n][x.node].inst /\ x.inst \in Nat
    BY <1>2, <1>3, NodesAssumption DEF LockItem
  <2>3. PICK kind \in {"LockRenew", "LockRelease"} : g = WithId(n, x.node, x.inst, kind, x.id)
    BY <2>1
  <2>4. g.from = n /\ g.headers = table'[n] /\ g.to = x.node /\ g.toInst = x.inst /\ g.kind \in Quiet
    BY <2>3 DEF WithId, Message, Quiet
  <2>5. QED
    BY <2>2, <2>4, SendsQuiet
<1> HIDE DEF R, B
<1>7. \A g \in msgs' \ msgs : Sends(n, g)
  BY <1>1, <1>5, <1>6
<1>8. ASSUME ~locking PROVE Turn(n)
  <2>1. UNCHANGED <<stage, entries, calls>>
    BY <1>1, <1>8
  <2>2. LockGoes(n)
    BY <1>1, LockGoesOK
  <2>3. QED
    BY <1>1, <1>7, <2>1, <2>2, CalmTurn
<1>9. ASSUME locking PROVE Turn(n)
  <2>1. stage[n] = "Locking" /\ CheckCompletion(n, "Locking", next)
    BY <1>1, <1>9 DEF locking
  <2>2. es = UpdateNeighborhood(n, entries[n], table'[n])
    BY <1>2
  <2> HIDE DEF es
  <2>3. Collects(n, es) /\ DOMAIN es = Hood(table'[n], n)
    BY <1>2, <2>2, UpdateFits
  <2>4. Meets(n, m)
    BY <1>2, <2>1 DEF RingInv, StagesFit, StagePhase
  <2>5. ASSUME NEW k \in DOMAIN es
        PROVE  /\ e(k) \in Entry /\ e(k).inst = es[k].inst /\ e(k).known = es[k].known
               /\ e(k).done => \/ es[k].done /\ e(k).id = es[k].id
                               \/ Giving(m, k, e(k).id) /\ Up(k, e(k).inst)
    <3>1. es[k] \in Entry
      BY <2>3 DEF Collects, EntriesOK
    <3>2. CASE \E x \in taken : x.node = k
      <4> DEFINE y == CHOOSE x \in taken : x.node = k
      <4>1. y \in taken /\ y.node = k
        BY <3>2
      <4>2. y \in m.locks /\ y.id \in 0..MaxLockId /\ es[k].inst = y.inst
        BY <1>3, <1>4, <4>1 DEF LockItem
      <4>3. e(k) = AcquireLock(es[k], y.id)
        BY <3>2
      <4> HIDE DEF y, e
      <4>4. /\ e(k) \in Entry /\ e(k).inst = es[k].inst /\ e(k).known = es[k].known
            /\ e(k).id = IF es[k].done THEN es[k].id ELSE y.id
        BY <3>1, <4>2, <4>3 DEF AcquireLock, Entry
      <4>5. Up(k, y.inst)
        BY <1>2, <4>1, <4>2 DEF RingInv, HandsUp
      <4>6. Giving(m, k, y.id)
        BY <1>2, <4>1, <4>2 DEF Giving
      <4>7. QED
        BY <4>2, <4>4, <4>5, <4>6
    <3>3. CASE ~ \E x \in taken : x.node = k
      BY <3>1, <3>3
    <3>4. QED
      BY <3>2, <3>3
  <2> HIDE DEF e
  <2>6. next = [k \in DOMAIN es |-> next[k]] /\ \A k \in DOMAIN es : next[k] = e(k)
    OBVIOUS
  <2> HIDE DEF next
  <2>7. \A k \in DOMAIN es :
          /\ next[k] \in Entry /\ next[k].inst = es[k].inst /\ next[k].known = es[k].known
          /\ next[k].done => \/ es[k].done /\ next[k].id = es[k].id
                             \/ \E x \in msgs : Meets(n, x) /\ Giving(x, k, next[k].id) /\ Up(k, next[k].inst)
    BY <1>2, <2>4, <2>5, <2>6
  <2>8. Collects(n, next) /\ DOMAIN next = DOMAIN es
    BY <2>3, <2>6, <2>7, CollectsSome
  <2>9. QED
    BY <1>1, <1>2, <1>7, <2>1, <2>3, <2>8, CollectingTurn
<1>10. QED
  BY <1>8, <1>9

\* The timer of a node that collects locks.
LEMMA RunLockingTurn ==
    ASSUME IInv, IInv', CallsOK, RingInv, NEW n \in Nodes, NEW due, NEW old, RunLocking(n, due, old)
    PROVE  Turn(n)
<1> DEFINE es == UpdateNeighborhood(n, entries[n], table[n])
           asked == {k \in due : ~es[k].done} \cup old
           next == [k \in DOMAIN es |-> IF k \in old THEN Reset(es[k]) ELSE es[k]]
           w(k) == WithId(n, k, es[k].inst, "LockRequest", 0)
           v(k) == WithId(n, k, es[k].inst, "LockRenew", es[k].id)
           R == Releases(n, entries[n], table[n])
           A == {w(k) : k \in asked}
           B == {v(k) : k \in due \ asked}
<1>1. /\ stage[n] = "Locking"
      /\ due \subseteq DOMAIN es /\ old \subseteq {k \in due : es[k].done}
      /\ UNCHANGED <<table, lock>>
      /\ CheckCompletion(n, "Locking", next)
      /\ msgs' = msgs \cup R \cup A \cup B
  BY DEF RunLocking
<1>2. RowGrows(n) /\ \A k \in Nodes \ {n} : table'[k] = table[k]
  BY <1>1, RowIs, RowStays
<1>3. es = UpdateNeighborhood(n, entries[n], table'[n]) /\ RowOK(n, table'[n])
  BY <1>1 DEF IInv
<1> HIDE DEF es
<1>4. /\ Collects(n, es) /\ DOMAIN es = Hood(table'[n], n)
      /\ \A x \in DOMAIN es : es[x].inst = table'[n][x].inst
  BY <1>2, <1>3, UpdateFits
<1>5. \A x \in DOMAIN es : x \in Nodes /\ es[x] \in Entry
  BY <1>4 DEF Collects, EntriesOK
<1>6. \A g \in R : Sends(n, g)
  BY <1>2, ReleasesSends
<1>7. asked \subseteq DOMAIN es
  BY <1>1
<1> HIDE DEF asked
<1>8. \A g \in A \cup B : Sends(n, g)
  <2> TAKE g \in A \cup B
  <2>1. PICK k \in DOMAIN es : g = w(k) \/ g = v(k)
    BY <1>1, <1>7
  <2>2. PICK inst : inst = es[k].inst
    OBVIOUS
  <2>3. inst \in 0..table'[n][k].inst
    BY <1>4, <1>5, <2>2, NumbersNext
  <2>4. PICK kind, id : kind \in {"LockRequest", "LockRenew"} /\ g = WithId(n, k, inst, kind, id)
    BY <2>1, <2>2
  <2>5. g.from = n /\ g.headers = table'[n] /\ g.to = k /\ g.toInst = inst /\ g.kind \in Quiet
    BY <2>4 DEF WithId, Message, Quiet
  <2>6. QED
    BY <2>3, <2>5, SendsQuiet
<1> HIDE DEF R, A, B
<1>9. \A g \in msgs' \ msgs : Sends(n, g)
  BY <1>1, <1>6, <1>8
<1>10. Collects(n, next) /\ DOMAIN next = DOMAIN es
  <2>1. \A e \in Entry : /\ Reset(e) \in Entry /\ Reset(e).inst = e.inst /\ Reset(e).id = e.id
                         /\ Reset(e).known = e.known /\ ~Reset(e).done
    BY DEF Reset, Entry
  <2>2. next = [x \in DOMAIN es |-> next[x]]
    OBVIOUS
  <2>3. \A x \in DOMAIN es : /\ next[x] \in Entry /\ next[x].inst = es[x].inst
                             /\ next[x].known = es[x].known
                             /\ next[x].done => es[x].done /\ next[x].id = es[x].id
    BY <1>5, <2>1
  <2> HIDE DEF next
  <2>4. QED
    BY <1>4, <2>2, <2>3, CollectsSome
<1> HIDE DEF next
<1>11. QED
  BY <1>1, <1>2, <1>4, <1>9, <1>10, CollectingTurn
-----------------------------------------------------------------------------
(***************************************************************************)
(* Every step is a turn of some node.                                      *)
(***************************************************************************)

\* What a node does when a message for it arrives.
LEMMA HandleTurn ==
    ASSUME IInv, IInv', CallsOK, RingInv, overtaken' = {}, NEW m \in msgs, Handle(m.to, m)
    PROVE  m.to \in Nodes /\ Turn(m.to)
<1>1. m.to \in Nodes
  BY DEF IInv, MsgsOK, MsgOK
<1>2. Phase(m.to) /= Shutdown
  BY DEF Handle
<1>3. \/ Undelivered(m.to, m) \/ FaultHandler(m.to, m) \/ PingHandler(m.to, m)
      \/ LockRequestHandler(m.to, m) \/ LockRenewHandler(m.to, m) \/ LockReleaseHandler(m.to, m)
      \/ UnlockHandler(m.to, m) \/ OnNeighborhoodQueryRequestCompleted(m.to, m)
      \/ LockGrantHandler(m.to, m) \/ LockDenyHandler(m.to, m)
      \/ LockTransferRequestHandler(m.to, m) \/ LockTransferReplyHandler(m.to, m)
      \/ UnLockGrantHandler(m.to, m) \/ UnLockDenyHandler(m.to, m)
  BY DEF Handle
<1>4. PICK n \in Nodes : n = m.to
  BY <1>1
<1>5. Turn(n)
  BY <1>2, <1>3, <1>4, UndeliveredTurn, FaultTurn, PingHandlerTurn, LockRequestTurn, LockRenewTurn,
     LockReleaseTurn, UnlockTurn, QueryCompletedTurn, LockGrantTurn, LockDenyTurn,
     TransferRequestTurn, TransferReplyTurn, UnLockGrantTurn, UnLockDenyTurn
<1>6. QED
  BY <1>1, <1>4, <1>5

\* The members know each other, and nobody else is in the ring.
LEMMA InitRing == Init => RingInv
<1> SUFFICES ASSUME Init PROVE RingInv
  OBVIOUS
<1>1. msgs = {} /\ \A n \in Nodes : DOMAIN entries[n] = {} /\ lock[n].id = 0
  BY DEF Init, NoEntries
<1>2. /\ \A n \in Nodes : Inst(n) = 1 /\ Phase(n) = IF n \in Members THEN Routing ELSE Joining
      /\ \A n, k \in Nodes : k \in Members => table[n][k] = [inst |-> 1, phase |-> Routing]
      /\ \A n, k \in Nodes : k \notin Members /\ n /= k => table[n][k] = [inst |-> 0, phase |-> Booting]
      /\ \A n \in Nodes : calls[n] = {} /\ stage[n] = IF n \in Members THEN "Routing" ELSE "Query"
  BY NodesAssumption DEF Init, Inst, Phase, Nodes
<1>3. \A n \in Nodes : ~Entering(n)
  BY <1>2 DEF Entering, Bound, Finished, Later, Inserting, Routing, Joining
<1>4. Order
  <2>1. \A n, k \in Nodes : AtMost(table[n][k], k)
    <3> TAKE n, k \in Nodes
    <3>1. CASE k \in Members
      BY <1>2, <3>1 DEF AtMost, Routing
    <3>2. CASE k \notin Members /\ n = k
      BY <1>2, <3>2 DEF AtMost, Inst, Phase, Joining
    <3>3. CASE k \notin Members /\ n /= k
      BY <1>2, <3>3 DEF AtMost
    <3>4. QED
      BY <3>1, <3>2, <3>3
  <2>2. QED
    BY <1>1, <2>1 DEF Order
<1>5. StagesFit
  BY <1>1, <1>2 DEF StagesFit, StagePhase, Starting, Joining, Inserting, Routing
<1>6. Kept /\ HandsUp /\ UnlocksMatch
  BY <1>1, <1>2 DEF Kept, HandsUp, UnlocksMatch, Later
<1>7. LocksTell
  BY <1>1, <1>2 DEF LocksTell
<1>8. OneEnters /\ Covered
  BY <1>3 DEF OneEnters, Covered, Entering
<1>9. ConsistencyRule
  BY <1>2 DEF ConsistencyRule, Available, Routing, Joining
<1>10. QED
  BY <1>4, <1>5, <1>6, <1>7, <1>8, <1>9 DEF RingInv

\* Every step by which nothing is overtaken, whoever takes it.
LEMMA NextRing ==
    IInv /\ IInv' /\ CallsOK /\ OneHand /\ OneHand' /\ RingInv /\ overtaken' = {} /\ [Next]_vars => RingInv'
<1> SUFFICES ASSUME IInv, IInv', CallsOK, OneHand, OneHand', RingInv, overtaken' = {}, [Next]_vars
             PROVE  RingInv'
  OBVIOUS
<1>1. Joiners \subseteq Nodes
  BY DEF Nodes
<1>2. ASSUME NEW m \in msgs, Lose(m) \/ Handle(m.to, m) PROVE RingInv'
  BY <1>2, LoseTurn, HandleTurn, TurnOK
<1>3. ASSUME NEW n \in Nodes, NEW k \in Nodes, Ping(n, k) \/ SetShutdown(n, k) PROVE RingInv'
  BY <1>3, PingTurn, SetShutdownTurn, TurnOK
<1>4. ASSUME NEW j \in Joiners, NEW k \in Nodes,
             NeighborhoodQueryRequestHandler(k, j) \/ LeaseEstablishHandler(j, k)
      PROVE  RingInv'
  BY <1>1, <1>4, QueryRequestTurn, LeaseEstablishTurn, TurnOK
<1>5. ASSUME NEW n \in Nodes, LockExpires(n) \/ ResetLock(n) \/ Close(n) PROVE RingInv'
  BY <1>5, LockLapsesTurn, PhaseTurn, TurnOK
<1>6. ASSUME NEW j \in Joiners, Timeout(j) PROVE RingInv'
  BY <1>1, <1>6, RunLockingTurn, RunUnLockingTurn, TurnOK DEF Timeout
<1>7. ASSUME NEW j \in Joiners, Resume(j) PROVE RingInv'
  BY <1>1, <1>7, RestartUnLockingTurn, RestartInstanceTurn, PhaseTurn, TurnOK DEF Resume
<1>8. CASE UNCHANGED vars
  BY <1>8 DEF vars, RingInv, Order, AtMost, MustRestart, Unlocked, StagesFit, StagePhase, Starting, Kept,
     HandsUp, Up, Has, UnlocksMatch, OnlyWith, Giving, HandOf, LocksTell, Fresh, In, Ring, Finished, Bound,
     Knows, OneEnters, Entering, Covered, BoundTo, ConsistencyRule, Inst, Phase
<1>9. QED
  BY <1>2, <1>3, <1>4, <1>5, <1>6, <1>7, <1>8 DEF Next

\* A node that was overtaken stays one that was.
LEMMA OvertakenStays == [Next]_vars /\ overtaken' = {} => overtaken = {}
<1> SUFFICES ASSUME [Next]_vars, overtaken' = {} PROVE overtaken = {}
  OBVIOUS
<1>1. \A j, cs : ResetStateForJoining(j, cs) => overtaken \subseteq overtaken'
  BY DEF ResetStateForJoining
<1>2. ASSUME NEW m, Lose(m) \/ Handle(m.to, m) PROVE overtaken \subseteq overtaken'
  BY <1>1, <1>2 DEF Lose, Handle, Undelivered, FaultHandler, PingHandler, LockRequestHandler,
     LockRenewHandler, LockReleaseHandler, UnlockHandler, OnNeighborhoodQueryRequestCompleted,
     LockGrantHandler, LockDenyHandler, LockTransferRequestHandler, LockTransferReplyHandler,
     UnLockGrantHandler, UnLockDenyHandler
<1>3. ASSUME NEW n, NEW k, Ping(n, k) \/ SetShutdown(n, k) \/ NeighborhoodQueryRequestHandler(k, n)
      PROVE  overtaken \subseteq overtaken'
  BY <1>3 DEF Ping, SetShutdown, NeighborhoodQueryRequestHandler
<1>4. ASSUME NEW n, NEW k, LeaseEstablishHandler(n, k) PROVE overtaken \subseteq overtaken'
  BY <1>1, <1>4 DEF LeaseEstablishHandler
<1>5. ASSUME NEW n, LockExpires(n) \/ ResetLock(n) \/ Close(n) PROVE overtaken \subseteq overtaken'
  BY <1>5 DEF LockExpires, ResetLock, Close
<1>6. ASSUME NEW j, Timeout(j) PROVE overtaken \subseteq overtaken'
  BY <1>6 DEF Timeout, RunLocking, RunUnLocking
<1>7. ASSUME NEW j, Resume(j) PROVE overtaken \subseteq overtaken'
  BY <1>1, <1>7 DEF Resume, RestartUnLocking, RestartInstance, StartLeaseEstablish, StartRouting
<1>8. overtaken \subseteq overtaken'
  BY <1>2, <1>3, <1>4, <1>5, <1>6, <1>7 DEF Next, vars
<1>9. QED
  BY <1>8

\* The ring invariant of every reachable state in which nothing was overtaken.
LEMMA RingHolds == Spec => []RingUnlessOvertaken
<1>1. Init => OneHand /\ RingUnlessOvertaken
  BY InitRing DEF Init, OneHand, HandOf, NoEntries, RingUnlessOvertaken
<1>2. IInv /\ IInv' /\ CallsOK /\ OneHand /\ OneHand' /\ RingUnlessOvertaken /\ [Next]_vars
        => RingUnlessOvertaken'
  BY NextRing, OvertakenStays DEF RingUnlessOvertaken
<1>3. QED
  BY <1>1, <1>2, NextHands, IInvHolds, PTL DEF Spec

\* RoutingKnown for any nodes, instances, losses, lapses and bounds: two nodes in the
\* ring have each other in their rings at their right instances, the consistency rule
\* by which RoutingTable::InternalConsider takes the header of a routing node it does
\* not have for a stale one.  It needs that no thread of the JoinManager goes on with a
\* join that another has started over, which the code does not see to.
THEOREM RingKnown == Spec => []RoutingKnown
<1>1. RingUnlessOvertaken => RoutingKnown
  BY DEF RingInv, RoutingKnown, RingUnlessOvertaken
<1>2. QED
  BY <1>1, RingHolds, PTL

\* DownIsDown for any nodes, instances, losses, lapses and bounds: no suspected header,
\* fault message or lease failure makes a node take the present instance of another for
\* down, unless that one is down or must start over; under the same condition.
THEOREM DownMeansDown == Spec => []DownIsDown
<1>1. IInv /\ RingUnlessOvertaken => DownIsDown
  <2> SUFFICES ASSUME IInv, RingInv, NEW n \in Nodes, NEW k \in Nodes,
                      table[n][k] = [inst |-> Inst(k), phase |-> Shutdown]
               PROVE  Phase(k) = Shutdown \/ MustRestart(k)
    BY DEF DownIsDown, RingUnlessOvertaken
  <2>1. AtMost(table[n][k], k)
    BY DEF RingInv, Order
  <2>2. table[n][k].inst = Inst(k) /\ table[n][k].phase = Shutdown
    OBVIOUS
  <2>3. Inst(k) \in Nat /\ Phase(k) \in 0..4
    BY Numbers
  <2>4. QED
    BY <2>1, <2>2, <2>3 DEF AtMost, Shutdown
<1>2. QED
  BY <1>1, IInvHolds, RingHolds, PTL

=============================================================================
